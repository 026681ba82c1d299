-------------------------- MODULE RequestPipeline --------------------------
(***************************************************************************)
(* An HTTP request on its way through the gateway: the middleware that     *)
(* setupMiddleware stacks (internal/server/server.go), the API key check   *)
(* (internal/server/middleware/auth.go), the handlers                      *)
(* (internal/server/handlers/handlers.go), and back out through the        *)
(* logging and tracing middleware to the error handler.  The broker is     *)
(* PublishContract, which the adapters implement.  Requests run            *)
(* concurrently; a step runs from one blocking point (the limiter's mutex, *)
(* the call of the broker) to the next.                                    *)
(***************************************************************************)
EXTENDS Naturals, FiniteSets

CONSTANTS
    Requests,          \* the requests, one call of a handler each
    Clients,           \* the addresses they come from
    Inputs,            \* what the requests may contain
    Max,               \* RateLimit.RequestsPerSecond
    RateLimited,       \* RateLimit.Enabled
    Tracing,           \* Observability.EnableTracing
    KeyConfigured,     \* is API.Key non-empty?
    Horizon,           \* the clock stops here (bound of the model)
    Nothing            \* no message

VARIABLES
    pc, input, client,     \* per request: where it is, what it holds, who sent it
    response, error,       \* per request: status set so far, code of the error
                           \*   returned up the chain (0: none)
    message,               \* per request: what was given to the broker
    logged, traced, sent,  \* per request: the status written to the log, the
                           \*   span, the client (0: not yet)
    hits, exp,             \* per client: the limiter's entry
    verdict,               \* history: how the limiter judged a request, and when
    now,                   \* the limiter's clock, in seconds
    outcome, handed        \* the broker: see PublishContract

requests == <<pc, input, client, response, error, message, logged, traced, sent>>
limiter == <<hits, exp, verdict>>
broker == <<outcome, handed>>

vars == <<requests, limiter, now, broker>>

Contract == INSTANCE PublishContract WITH Calls <- Requests
-----------------------------------------------------------------------------
(***************************************************************************)
(* What a request contains, as far as the gateway can tell it apart.       *)
(***************************************************************************)
Routes == {"publish", "stats", "health", "root", "unknownApi", "unknown", "preflight"}

\* What X-API-Key holds.
Keys == {"none", "wrong", "right"}

Forms == {"wellFormed", "malformed", "tooLarge"}

\* Where a correlation ID may be given, in the order Publish looks.
IdPlaces == {"body", "xRequestID", "configuredHeader"}

AllInputs ==
    [route : Routes, key : Keys, form : Forms,
     eventType : {"", "given"}, source : {"", "given"}, data : {"nil", "empty", "given"},
     timestamp : {"zero", "given"}, ids : SUBSET IdPlaces]

\* A Message: the time of an event is the one given, the present or year 1.
Messages ==
    [eventType : {"", "given"}, source : {"", "given"}, data : {"nil", "empty", "given"},
     timestamp : {"zero", "given", "now"}, correlation : IdPlaces \cup {""}]

Codes == {200, 204, 400, 401, 404, 413, 429, 500, 503}

Pcs == {"idle", "limiter", "route", "broker", "respond", "done"}

ASSUME InputsAreInputs == Inputs \subseteq AllInputs

ASSUME MaxIsPositive == Max \in Nat \ {0}

ASSUME SwitchesAreBoolean ==
    /\ RateLimited \in BOOLEAN
    /\ Tracing \in BOOLEAN
    /\ KeyConfigured \in BOOLEAN

ASSUME HorizonIsNat == Horizon \in Nat

ASSUME NothingIsNoMessage == Nothing \notin Messages

TypeOK ==
    /\ pc \in [Requests -> Pcs]
    /\ input \in [Requests -> AllInputs \cup {Nothing}]
    /\ client \in [Requests -> Clients \cup {Nothing}]
    /\ response \in [Requests -> Codes]
    /\ error \in [Requests -> Codes \cup {0}]
    /\ message \in [Requests -> Messages \cup {Nothing}]
    /\ logged \in [Requests -> Codes \cup {0}]
    /\ traced \in [Requests -> [code : Codes \cup {0}, failed : BOOLEAN]]
    /\ sent \in [Requests -> Codes \cup {0}]
    /\ hits \in [Clients -> Nat] /\ exp \in [Clients -> Nat]
    /\ verdict \in [Requests -> [kind : {"none", "admitted", "refused"}, at : Nat]]
    /\ now \in Nat
    /\ Contract!TypeOK

\* fasthttp starts a response with status 200.
Init ==
    /\ pc = [r \in Requests |-> "idle"]
    /\ input = [r \in Requests |-> Nothing]
    /\ client = [r \in Requests |-> Nothing]
    /\ response = [r \in Requests |-> 200]
    /\ error = [r \in Requests |-> 0]
    /\ message = [r \in Requests |-> Nothing]
    /\ logged = [r \in Requests |-> 0]
    /\ traced = [r \in Requests |-> [code |-> 0, failed |-> FALSE]]
    /\ sent = [r \in Requests |-> 0]
    /\ hits = [c \in Clients |-> 0] /\ exp = [c \in Clients |-> 0]
    /\ verdict = [r \in Requests |-> [kind |-> "none", at |-> 0]]
    /\ now = 0
    /\ Contract!Init
-----------------------------------------------------------------------------
(***************************************************************************)
(* The message made of a request.                                          *)
(***************************************************************************)

\* NewMessage parses the timestamp it is given and takes the present if it is
\* given none or cannot parse it.
TimestampOf(ts) == IF ts = "" THEN "now" ELSE ts

\* The correlation ID of the body, or else X-Request-ID, or else the configured
\* header, or else none.
Correlation(i) ==
    IF "body" \in i.ids THEN "body"
    ELSE IF "xRequestID" \in i.ids THEN "xRequestID"
    ELSE IF "configuredHeader" \in i.ids THEN "configuredHeader"
    ELSE ""

\* The handler formats the parsed timestamp: Go's zero time when it was
\* omitted, never the empty string.
NewMessage(i) ==
    [eventType |-> i.eventType, source |-> i.source, data |-> i.data,
     timestamp |-> TimestampOf(i.timestamp), correlation |-> Correlation(i)]

\* Message.Validate, which the adapters run again before they publish.
Validate(m) == m.eventType # "" /\ m.source # "" /\ m.data # "nil"

\* Mutant: the data is not looked at.
AcceptableWithoutData(i) ==
    i.form = "wellFormed" /\ i.eventType # "" /\ i.source # ""

\* What the handler checks before it makes a message.
Acceptable(i) ==
    /\ i.form = "wellFormed"
    /\ i.eventType # ""
    /\ i.source # ""
    /\ i.data = "given"

\* Mutant: any key will do.
AuthorisedWithAnyKey(i) == ~KeyConfigured \/ i.key \in {"right", "wrong"}

\* The key is looked for in the X-API-Key header, and nowhere else.
Authorised(i) == ~KeyConfigured \/ i.key = "right"

\* The routes behind Auth: an unknown path below /api/v1 meets it too.
Protected == {"publish", "stats", "unknownApi"}
-----------------------------------------------------------------------------
(***************************************************************************)
(* The way in.                                                             *)
(***************************************************************************)
Goto(r, place) == pc' = [pc EXCEPT ![r] = place]

\* Set a status and go back out; or return an error up the chain.
Status(r, code) ==
    /\ response' = [response EXCEPT ![r] = code]
    /\ Goto(r, "respond")
    /\ UNCHANGED error

Fail(r, code) ==
    /\ error' = [error EXCEPT ![r] = code]
    /\ Goto(r, "respond")
    /\ UNCHANGED response

\* A body over BodyLimit is refused by the server itself, which calls the error
\* handler and no middleware; CORS answers every OPTIONS request.
Receive(r) ==
    /\ pc[r] = "idle"
    /\ \E i \in Inputs, c \in Clients :
        /\ input' = [input EXCEPT ![r] = i]
        /\ client' = [client EXCEPT ![r] = c]
        /\ \/ /\ i.form = "tooLarge"
              /\ sent' = [sent EXCEPT ![r] = 413]
              /\ Goto(r, "done")
              /\ UNCHANGED <<response, error>>
           \/ /\ i.form # "tooLarge" /\ i.route = "preflight"
              /\ Status(r, 204)
              /\ UNCHANGED sent
           \/ /\ i.form # "tooLarge" /\ i.route # "preflight"
              /\ Goto(r, IF RateLimited THEN "limiter" ELSE "route")
              /\ UNCHANGED <<response, error, sent>>
    /\ UNCHANGED <<message, logged, traced, limiter, now, broker>>

\* Mutant: the request that exhausts the allowance and one more get in.
LimitOffByOne(r) ==
    LET c == client[r]
        fresh == exp[c] = 0 \/ now >= exp[c]
        h == IF fresh THEN 1 ELSE hits[c] + 1
    IN  /\ pc[r] = "limiter"
        /\ hits' = [hits EXCEPT ![c] = h]
        /\ exp' = [exp EXCEPT ![c] = IF fresh THEN now + 1 ELSE @]
        /\ \/ h <= Max + 1 /\ Goto(r, "route") /\ UNCHANGED <<response, error>>
              /\ verdict' = [verdict EXCEPT ![r] = [kind |-> "admitted", at |-> now]]
           \/ h > Max + 1 /\ Status(r, 429)
              /\ verdict' = [verdict EXCEPT ![r] = [kind |-> "refused", at |-> now]]
        /\ UNCHANGED <<input, client, message, logged, traced, sent, now, broker>>

\* The fixed-window limiter: the entry of an address is renewed when its second
\* is over, and every request counts, also one it refuses.
Limit(r) ==
    LET c == client[r]
        fresh == exp[c] = 0 \/ now >= exp[c]
        h == IF fresh THEN 1 ELSE hits[c] + 1
    IN  /\ pc[r] = "limiter"
        /\ hits' = [hits EXCEPT ![c] = h]
        /\ exp' = [exp EXCEPT ![c] = IF fresh THEN now + 1 ELSE @]
        /\ \/ /\ h <= Max
              /\ verdict' = [verdict EXCEPT ![r] = [kind |-> "admitted", at |-> now]]
              /\ Goto(r, "route")
              /\ UNCHANGED <<response, error>>
           \/ /\ h > Max
              /\ verdict' = [verdict EXCEPT ![r] = [kind |-> "refused", at |-> now]]
              /\ Status(r, 429)
        /\ UNCHANGED <<input, client, message, logged, traced, sent, now, broker>>

Tick ==
    /\ now < Horizon
    /\ now' = now + 1
    /\ UNCHANGED <<requests, limiter, broker>>
-----------------------------------------------------------------------------
(***************************************************************************)
(* The handlers.                                                           *)
(***************************************************************************)

\* Request r has come to the end of the middleware on the given route.
At(r, route) == pc[r] = "route" /\ input[r].route = route

onlyStatus == <<input, client, message, logged, traced, sent, limiter, now, broker>>

Health(r) ==
    /\ At(r, "health")
    /\ \E isHealthy \in BOOLEAN : Status(r, IF isHealthy THEN 200 ELSE 503)
    /\ UNCHANGED onlyStatus

Root(r) == At(r, "root") /\ Status(r, 200) /\ UNCHANGED onlyStatus

Auth(r) ==
    /\ pc[r] = "route"
    /\ input[r].route \in Protected
    /\ ~Authorised(input[r])
    /\ Status(r, 401)
    /\ UNCHANGED onlyStatus

NoRoute(r) ==
    /\ At(r, "unknown") \/ (At(r, "unknownApi") /\ Authorised(input[r]))
    /\ Fail(r, 404)
    /\ UNCHANGED onlyStatus

Stats(r) ==
    /\ At(r, "stats") /\ Authorised(input[r])
    /\ Status(r, 200)
    /\ UNCHANGED onlyStatus

\* Publish, up to the call of Manager.Publish.
Publish(r) ==
    /\ At(r, "publish") /\ Authorised(input[r])
    /\ \/ /\ ~Acceptable(input[r])
          /\ Status(r, 400)
          /\ UNCHANGED <<message, broker>>
       \/ /\ Acceptable(input[r])
          /\ message' = [message EXCEPT ![r] = NewMessage(input[r])]
          /\ Contract!Call(r)
          /\ Goto(r, "broker")
          /\ UNCHANGED <<response, error>>
    /\ UNCHANGED <<input, client, logged, traced, sent, limiter, now>>

\* Mutant: the error of Manager.Publish is logged and forgotten.
PublishReturnedIgnoresError(r) ==
    /\ pc[r] = "broker"
    /\ outcome[r] \in {"ok", "error", "refused"}
    /\ Status(r, 200)
    /\ UNCHANGED onlyStatus

\* Mutant: a refused message is not answered.
PublishReturnedForgetsRefused(r) ==
    /\ pc[r] = "broker"
    /\ outcome[r] \in {"ok", "error"}
    /\ Status(r, IF outcome[r] = "ok" THEN 200 ELSE 500)
    /\ UNCHANGED onlyStatus

\* Mutant: accepted is all it says.
PublishReturnedAccepted(r) ==
    /\ pc[r] = "broker"
    /\ outcome[r] \in {"ok", "error", "refused"}
    /\ Status(r, IF outcome[r] = "ok" THEN 202 ELSE 500)
    /\ UNCHANGED onlyStatus

\* Manager.Publish has passed on what the adapter returned.
PublishReturned(r) ==
    /\ pc[r] = "broker"
    /\ outcome[r] \in {"ok", "error", "refused"}
    /\ Status(r, IF outcome[r] = "ok" THEN 200 ELSE 500)
    /\ UNCHANGED onlyStatus

\* The broker's side of the contract.
BrokerReturns(r) ==
    /\ Contract!ReturnOk(r) \/ Contract!ReturnError(r) \/ Contract!Refuse(r)
    /\ UNCHANGED <<requests, limiter, now>>

BrokerTakes(r) ==
    /\ Contract!HandOver(r)
    /\ UNCHANGED <<requests, limiter, now>>
-----------------------------------------------------------------------------
(***************************************************************************)
(* The way out: the logger reads the status, then the tracing middleware   *)
(* does, and the error handler runs after both.                            *)
(***************************************************************************)

\* Logger.
LogRequest(r) == logged' = [logged EXCEPT ![r] = response[r]]

\* Mutant: the tracing middleware looks at the status only.
EndSpanIgnoresError(r) ==
    traced' = IF Tracing
              THEN [traced EXCEPT ![r] = [code |-> response[r], failed |-> response[r] >= 400]]
              ELSE traced

\* Tracing: an error counts as a failure whatever the status is.
EndSpan(r) ==
    traced' = IF Tracing
              THEN [traced EXCEPT ![r] = [code |-> response[r],
                                          failed |-> error[r] # 0 \/ response[r] >= 400]]
              ELSE traced

\* customErrorHandler answers with the code of the error, if there is one.
Send(r) == sent' = [sent EXCEPT ![r] = IF error[r] # 0 THEN error[r] ELSE response[r]]

Respond(r) ==
    /\ pc[r] = "respond"
    /\ LogRequest(r)
    /\ EndSpan(r)
    /\ Send(r)
    /\ Goto(r, "done")
    /\ UNCHANGED <<input, client, response, error, message, limiter, now, broker>>
-----------------------------------------------------------------------------
Step(r) ==
    \/ Limit(r) \/ Health(r) \/ Root(r) \/ Auth(r) \/ NoRoute(r) \/ Stats(r)
    \/ Publish(r) \/ PublishReturned(r) \/ Respond(r)

Next ==
    \/ \E r \in Requests : Receive(r) \/ Step(r) \/ BrokerReturns(r) \/ BrokerTakes(r)
    \/ Tick

(***************************************************************************)
(* A request that was received is worked on, and Manager.Publish returns,  *)
(* which EverybodyReturns of RabbitMQAdapter says of that adapter.         *)
(* Nobody has to send a request.                                           *)
(***************************************************************************)
Fairness == \A r \in Requests : WF_vars(Step(r)) /\ WF_vars(BrokerReturns(r))

Spec == Init /\ [][Next]_vars

FairSpec == Spec /\ Fairness
-----------------------------------------------------------------------------
(***************************************************************************)
(* Properties.                                                             *)
(***************************************************************************)

\* The status a client gets is the truth about its message: 200 exactly when
\* the broker answered nil, and then the message is with the broker; 4xx only
\* when the broker was never asked; 500 only when it answered an error
\* (handlers.go, Publish, through middleware and error handler).
AnswerTellsTruth ==
    \A r \in Requests :
        pc[r] = "done" =>
            /\ (sent[r] = 200 /\ input[r].route = "publish") <=> outcome[r] = "ok"
            /\ outcome[r] = "ok" => r \in handed
            /\ sent[r] \in 400..499 => outcome[r] = "idle" /\ r \notin handed
            /\ sent[r] = 500 => outcome[r] \in {"error", "refused"}

\* A message that reaches the broker came past the limiter and past the key
\* check, on a publish route (server.go, the order of setupMiddleware and
\* setupRoutes; auth.go).
OnlyAdmittedIsPublished ==
    \A r \in Requests :
        outcome[r] # "idle" =>
            /\ input[r].route = "publish"
            /\ RateLimited => verdict[r].kind = "admitted"
            /\ KeyConfigured => input[r].key = "right"

\* The checks of the handler imply those of Message.Validate, so the adapter
\* never rejects what the handler let through: "message validation failed" is
\* not a 500 a client can get (handlers.go against message.go).
ForwardedIsValid ==
    \A r \in Requests : message[r] # Nothing => Validate(message[r])

\* An event is published with a correlation ID whenever its request carries
\* one, in any of the three places, and with one the request carries
\* (handlers.go, Publish).
CorrelationKept ==
    \A r \in Requests :
        message[r] # Nothing /\ input[r].ids # {} => message[r].correlation \in input[r].ids

\* In any second exactly the first Max requests of an address get in: no more
\* than Max, and nobody is refused while there is room (server.go, the
\* configuration of the limiter).
LimiterExact ==
    \A c \in Clients, t \in 0..Horizon :
        LET judged(k) == {r \in Requests : client[r] = c /\ verdict[r] = [kind |-> k, at |-> t]}
        IN  /\ Cardinality(judged("admitted")) <= Max
            /\ judged("refused") # {} => Cardinality(judged("admitted")) = Max

\* A span is marked as failed exactly when the client got a failure, whether it
\* was written as a status or returned as an error (middleware/tracing.go).
SpanFailsWithAnswer ==
    \A r \in Requests :
        traced[r].code # 0 => (traced[r].failed <=> sent[r] >= 400)

\* Every request that was received is answered (the whole pipeline).
EveryRequestAnswered ==
    \A r \in Requests : pc[r] # "idle" ~> pc[r] = "done"

\* "Parse timestamp if provided, otherwise use current time" (message.go:32).
OmittedTimestampIsNow ==
    \A r \in Requests :
        message[r] # Nothing /\ input[r].timestamp = "zero" => message[r].timestamp = "now"
=============================================================================
