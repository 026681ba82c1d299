----------------------- MODULE RequestPipelineProofs -----------------------
(***************************************************************************)
(* Proofs about RequestPipeline: what a client is told agrees with what    *)
(* the broker did, and nothing reaches the broker that was not let in;     *)
(* a span fails with the answer; the limiter is exact; the gateway keeps   *)
(* the contract of Broker.Publish, and its answers stay.                   *)
(***************************************************************************)
EXTENDS RequestPipeline, FiniteSetTheorems, TLAPS
-----------------------------------------------------------------------------
\* The status the client will get once the error handler has run.
FinalCode(r) == IF error[r] # 0 THEN error[r] ELSE response[r]

\* A status that says no more than what the broker answered.
Truthful(r, code) ==
    /\ (code = 200 /\ input[r].route = "publish") <=> outcome[r] = "ok"
    /\ code \in 400..499 => outcome[r] = "idle"
    /\ code = 500 => outcome[r] \in {"error", "refused"}

\* Before it responds a request has no status and no error of its own, and
\* behind the limiter it has been admitted.
OnItsWay(r) ==
    /\ pc[r] \in {"idle", "limiter", "route", "broker"} => response[r] = 200 /\ error[r] = 0
    /\ pc[r] = "route" /\ RateLimited => verdict[r].kind = "admitted"
    /\ pc[r] \in {"limiter", "route"} => input[r] \in Inputs /\ input[r].form # "tooLarge"

\* What has been true of a request since the broker was asked on its behalf.
Asked(r) ==
    outcome[r] # "idle" =>
        /\ pc[r] \in {"broker", "respond", "done"}
        /\ input[r] \in Inputs /\ input[r].route = "publish"
        /\ Authorised(input[r]) /\ Acceptable(input[r])
        /\ RateLimited => verdict[r].kind = "admitted"
        /\ message[r] = NewMessage(input[r])

NotAsked(r) ==
    outcome[r] = "idle" => pc[r] # "broker" /\ message[r] = Nothing /\ r \notin handed

\* The request waits while the broker has not answered.
Answered(r) ==
    /\ outcome[r] = "pending" => pc[r] = "broker"
    /\ outcome[r] = "ok" => r \in handed

ToldTheTruth(r) ==
    /\ pc[r] = "respond" => Truthful(r, FinalCode(r))
    /\ pc[r] = "done" => Truthful(r, sent[r])

RInv(r) == OnItsWay(r) /\ Asked(r) /\ NotAsked(r) /\ Answered(r) /\ ToldTheTruth(r)

GInv == TypeOK /\ \A r \in Requests : RInv(r)
-----------------------------------------------------------------------------
\* NewMessage makes a Message of what a request contains.
LEMMA NewMessageType ==
    ASSUME NEW i \in AllInputs
    PROVE  NewMessage(i) \in Messages
BY DEF NewMessage, AllInputs, Messages, TimestampOf, Correlation, IdPlaces

\* The handler's checks imply those of Message.Validate (handlers.go against
\* message.go).
LEMMA AcceptableIsValid ==
    ASSUME NEW i, Acceptable(i)
    PROVE  Validate(NewMessage(i))
BY DEF Acceptable, Validate, NewMessage

\* An ID is taken from where the request has one.
LEMMA CorrelationIsGiven ==
    ASSUME NEW i \in AllInputs, i.ids # {}
    PROVE  Correlation(i) \in i.ids
BY DEF AllInputs, IdPlaces, Correlation

\* The initial state satisfies the invariant.
LEMMA GInvInit == Init => GInv
<1> SUFFICES ASSUME Init PROVE GInv
  OBVIOUS
<1>1. TypeOK
  BY DEF Init, TypeOK, Contract!Init, Contract!TypeOK, Contract!Outcomes, Codes, Pcs
<1>2. ASSUME NEW r \in Requests PROVE RInv(r)
  BY DEF Init, Contract!Init, RInv, OnItsWay, Asked, NotAsked, Answered, ToldTheTruth
<1>3. QED
  BY <1>1, <1>2 DEF GInv
-----------------------------------------------------------------------------
\* The numbers that are status codes.
LEMMA CodesAreCodes ==
    /\ \A n \in {200, 204, 400, 401, 404, 413, 429, 500, 503} : n \in Codes
    /\ 0 \notin Codes
BY DEF Codes

\* Status sets pc, response and error to values of their types.
LEMMA StatusType ==
    ASSUME TypeOK, NEW r \in Requests, NEW code \in Codes, Status(r, code)
    PROVE  /\ pc' \in [Requests -> Pcs]
           /\ response' \in [Requests -> Codes]
           /\ error' \in [Requests -> Codes \cup {0}]
<1>1. pc' \in [Requests -> Pcs]
  BY DEF TypeOK, Status, Goto, Pcs
<1>2. response' \in [Requests -> Codes] /\ error' \in [Requests -> Codes \cup {0}]
  BY DEF TypeOK, Status
<1>3. QED
  BY <1>1, <1>2

\* Everything a request's own steps and the broker's can change about r.
about(r) == <<pc[r], input[r], client[r], response[r], error[r], message[r], sent[r],
              verdict[r], outcome[r], r \in handed>>

\* A step that leaves a request alone keeps what is true of it.
LEMMA LeftAlone ==
    ASSUME NEW r \in Requests, RInv(r), about(r)' = about(r)
    PROVE  RInv(r)'
BY DEF about, RInv, OnItsWay, Asked, NotAsked, Answered, ToldTheTruth, Truthful, FinalCode

\* A request that arrives.
LEMMA ReceiveKeeps ==
    ASSUME GInv, NEW r \in Requests, Receive(r)
    PROVE  GInv'
<1> USE InputsAreInputs DEF Goto, Status, limiter, broker
<1>1. PICK i \in Inputs, c \in Clients :
        /\ input' = [input EXCEPT ![r] = i]
        /\ client' = [client EXCEPT ![r] = c]
        /\ \/ /\ i.form = "tooLarge"
              /\ sent' = [sent EXCEPT ![r] = 413]
              /\ Goto(r, "done")
              /\ UNCHANGED <<response, error>>
           \/ /\ i.form # "tooLarge" /\ i.route = "preflight"
              /\ Status(r, 204)
              /\ UNCHANGED sent
           \/ /\ i.form # "tooLarge" /\ i.route # "preflight"
              /\ Goto(r, IF RateLimited THEN "limiter" ELSE "route")
              /\ UNCHANGED <<response, error, sent>>
  BY DEF Receive
<1>2. UNCHANGED <<message, logged, traced, hits, exp, verdict, now, outcome, handed>>
      /\ pc[r] = "idle"
  BY DEF Receive
<1>3. TypeOK'
  <2>1. /\ pc' \in [Requests -> Pcs] /\ sent' \in [Requests -> Codes \cup {0}]
        /\ response' \in [Requests -> Codes] /\ error' \in [Requests -> Codes \cup {0}]
    <3>1. TypeOK
      BY DEF GInv
    <3>2. CASE Status(r, 204) /\ UNCHANGED sent
      <4>1. 204 \in Codes /\ sent \in [Requests -> Codes \cup {0}]
        BY <3>1, CodesAreCodes DEF TypeOK
      <4>2. /\ pc' \in [Requests -> Pcs] /\ response' \in [Requests -> Codes]
            /\ error' \in [Requests -> Codes \cup {0}]
        BY <3>1, <3>2, <4>1, StatusType
      <4>3. QED
        BY <3>2, <4>1, <4>2
    <3>3. CASE sent' = [sent EXCEPT ![r] = 413] /\ Goto(r, "done") /\ UNCHANGED <<response, error>>
      BY <3>1, <3>3, CodesAreCodes DEF TypeOK, Pcs
    <3>4. CASE /\ Goto(r, IF RateLimited THEN "limiter" ELSE "route")
               /\ UNCHANGED <<response, error, sent>>
      BY <3>1, <3>4 DEF TypeOK, Pcs
    <3>5. QED
      BY <1>1, <3>2, <3>3, <3>4
  <2>2. input' \in [Requests -> AllInputs \cup {Nothing}]
        /\ client' \in [Requests -> Clients \cup {Nothing}]
    BY <1>1 DEF GInv, TypeOK
  <2>3. QED
    BY <1>2, <2>1, <2>2 DEF GInv, TypeOK, Contract!TypeOK
<1>4. ASSUME NEW q \in Requests, q # r PROVE RInv(q)'
  BY <1>1, <1>2, <1>4, LeftAlone DEF GInv, TypeOK, about
<1>5. RInv(r)'
  <2>1. RInv(r) /\ TypeOK
    BY DEF GInv
  <2>2. outcome[r] = "idle"
    BY <1>2, <2>1 DEF RInv, Asked
  <2>3. QED
    BY <1>1, <1>2, <2>1, <2>2 DEF TypeOK, RInv, OnItsWay, Asked, NotAsked, Answered, ToldTheTruth,
                        Truthful, FinalCode
<1>6. QED
  BY <1>3, <1>4, <1>5 DEF GInv

\* A request at the limiter.
LEMMA LimitKeeps ==
    ASSUME GInv, NEW r \in Requests, Limit(r)
    PROVE  GInv'
<1> USE DEF broker
<1>1. /\ pc[r] = "limiter"
      /\ UNCHANGED <<input, client, message, logged, traced, sent, now, outcome, handed>>
      /\ \/ /\ verdict' = [verdict EXCEPT ![r] = [kind |-> "admitted", at |-> now]]
            /\ Goto(r, "route")
            /\ UNCHANGED <<response, error>>
         \/ /\ verdict' = [verdict EXCEPT ![r] = [kind |-> "refused", at |-> now]]
            /\ Status(r, 429)
  BY DEF Limit
<1>2. hits' \in [Clients -> Nat] /\ exp' \in [Clients -> Nat]
  <2> DEFINE c == client[r]
             fresh == exp[c] = 0 \/ now >= exp[c]
             h == IF fresh THEN 1 ELSE hits[c] + 1
             e == IF fresh THEN now + 1 ELSE exp[c]
  <2>1. hits \in [Clients -> Nat] /\ exp \in [Clients -> Nat] /\ now \in Nat
    BY DEF GInv, TypeOK
  <2>2. hits' = [hits EXCEPT ![c] = h] /\ exp' = [exp EXCEPT ![c] = e]
    BY DEF Limit
  <2>3. c \in Clients => h \in Nat /\ e \in Nat
    BY <2>1
  <2> HIDE DEF c, h, e
  <2>4. QED
    BY <2>1, <2>2, <2>3
<1>3. TypeOK'
  <2>1. TypeOK
    BY DEF GInv
  <2>2. /\ pc' \in [Requests -> Pcs] /\ response' \in [Requests -> Codes]
        /\ error' \in [Requests -> Codes \cup {0}]
    <3>1. CASE Status(r, 429)
      BY <2>1, <3>1, StatusType, CodesAreCodes
    <3>2. CASE Goto(r, "route") /\ UNCHANGED <<response, error>>
      BY <2>1, <3>2 DEF TypeOK, Goto, Pcs
    <3>3. QED
      BY <1>1, <3>1, <3>2
  <2>3. verdict' \in [Requests -> [kind : {"none", "admitted", "refused"}, at : Nat]]
    <3> DEFINE V == [kind : {"none", "admitted", "refused"}, at : Nat]
    <3>1. now \in Nat /\ verdict \in [Requests -> V]
      BY <2>1 DEF TypeOK
    <3>2. [kind |-> "admitted", at |-> now] \in V /\ [kind |-> "refused", at |-> now] \in V
      BY <3>1
    <3>3. \E v \in V : verdict' = [verdict EXCEPT ![r] = v]
      BY <1>1, <3>2
    <3> HIDE DEF V
    <3>4. verdict' \in [Requests -> V]
      BY <3>1, <3>3
    <3>5. QED
      BY <3>4 DEF V
  <2>4. QED
    BY <1>1, <1>2, <2>1, <2>2, <2>3 DEF TypeOK, Contract!TypeOK
<1>4. ASSUME NEW q \in Requests, q # r PROVE RInv(q)'
  BY <1>1, <1>4, LeftAlone DEF GInv, TypeOK, about, Goto, Status
<1>5. RInv(r)'
  <2>1. RInv(r) /\ TypeOK
    BY DEF GInv
  <2>2. outcome[r] = "idle"
    BY <1>1, <2>1 DEF RInv, Asked
  <2>3. QED
    BY <1>1, <2>1, <2>2 DEF TypeOK, Goto, Status, RInv, OnItsWay, Asked, NotAsked, Answered,
                        ToldTheTruth, Truthful, FinalCode
<1>6. QED
  BY <1>3, <1>4, <1>5 DEF GInv

\* A handler that has a truthful answer and changes nothing but the status.
LEMMA StatusKeeps ==
    ASSUME GInv, NEW r \in Requests, NEW code \in Codes, Status(r, code), UNCHANGED onlyStatus,
           pc[r] \in {"route", "broker"}, outcome[r] # "pending", Truthful(r, code)
    PROVE  GInv'
<1> USE DEF onlyStatus, limiter, broker
<1>1. RInv(r) /\ TypeOK
  BY DEF GInv
<1>2. TypeOK'
  BY <1>1, StatusType DEF TypeOK, Contract!TypeOK
<1>3. ASSUME NEW q \in Requests, q # r PROVE RInv(q)'
  BY <1>1, <1>3, LeftAlone DEF GInv, TypeOK, about, Status, Goto
<1>4. RInv(r)'
  BY <1>1 DEF TypeOK, Status, Goto, RInv, OnItsWay, Asked, NotAsked, Answered, ToldTheTruth,
              Truthful, FinalCode
<1>5. QED
  BY <1>2, <1>3, <1>4 DEF GInv

\* No handler but Publish has asked the broker.
LEMMA OnRouteNotAsked ==
    ASSUME GInv, NEW r \in Requests, pc[r] = "route"
    PROVE  outcome[r] = "idle"
BY DEF GInv, RInv, Asked

\* The handlers that never ask the broker to publish.
LEMMA HandlersKeep ==
    ASSUME GInv, NEW r \in Requests, Health(r) \/ Root(r) \/ Auth(r) \/ Stats(r)
    PROVE  GInv'
<1>1. PICK code \in Codes : /\ Status(r, code)
                            /\ code = 200 => input[r].route # "publish"
                            /\ code # 500
  BY CodesAreCodes DEF Health, Root, Auth, Stats, At
<1>2. pc[r] = "route" /\ UNCHANGED onlyStatus
  BY DEF Health, Root, Auth, Stats, At
<1>3. outcome[r] = "idle"
  BY <1>2, OnRouteNotAsked
<1>4. QED
  BY <1>1, <1>2, <1>3, StatusKeeps DEF Truthful

\* A path nobody serves.
LEMMA NoRouteKeeps ==
    ASSUME GInv, NEW r \in Requests, NoRoute(r)
    PROVE  GInv'
<1> USE DEF NoRoute, At, Fail, Goto, onlyStatus, limiter, broker
<1>1. RInv(r) /\ TypeOK
  BY DEF GInv
<1>2. outcome[r] = "idle"
  BY OnRouteNotAsked
<1>3. TypeOK'
  <2>1. pc' \in [Requests -> Pcs] /\ error' \in [Requests -> Codes \cup {0}]
    BY <1>1, CodesAreCodes DEF TypeOK, Pcs
  <2>2. QED
    BY <1>1, <2>1 DEF TypeOK, Contract!TypeOK
<1>4. ASSUME NEW q \in Requests, q # r PROVE RInv(q)'
  BY <1>1, <1>4, LeftAlone DEF GInv, TypeOK, about
<1>5. RInv(r)'
  BY <1>1, <1>2 DEF TypeOK, RInv, OnItsWay, Asked, NotAsked, Answered, ToldTheTruth,
                    Truthful, FinalCode
<1>6. QED
  BY <1>3, <1>4, <1>5 DEF GInv

\* Publish refuses the request or asks the broker.
LEMMA PublishKeeps ==
    ASSUME GInv, NEW r \in Requests, Publish(r)
    PROVE  GInv'
<1> USE DEF limiter, broker
<1>1. RInv(r) /\ TypeOK /\ At(r, "publish") /\ Authorised(input[r])
  BY DEF GInv, Publish
<1>2. outcome[r] = "idle" /\ pc[r] = "route" /\ input[r].route = "publish"
  BY <1>1, OnRouteNotAsked DEF At
<1>3. CASE ~Acceptable(input[r])
  <2>1. Status(r, 400) /\ UNCHANGED onlyStatus
    BY <1>3 DEF Publish, onlyStatus
  <2>2. Truthful(r, 400)
    BY <1>2 DEF Truthful
  <2>3. QED
    BY <1>2, <2>1, <2>2, StatusKeeps, CodesAreCodes
<1>4. CASE Acceptable(input[r])
  <2>1. /\ message' = [message EXCEPT ![r] = NewMessage(input[r])]
        /\ outcome' = [outcome EXCEPT ![r] = "pending"]
        /\ pc' = [pc EXCEPT ![r] = "broker"]
        /\ UNCHANGED <<response, error, input, client, logged, traced, sent, hits, exp,
                       verdict, now, handed>>
    BY <1>4 DEF Publish, Goto, Contract!Call
  <2>2. input[r] \in AllInputs
    BY <1>1, <1>2, InputsAreInputs DEF RInv, OnItsWay
  <2>3. TypeOK'
    <3>1. message' \in [Requests -> Messages \cup {Nothing}]
      BY <1>1, <2>1, <2>2, NewMessageType DEF TypeOK
    <3>2. pc' \in [Requests -> Pcs] /\ Contract!TypeOK'
      BY <1>1, <2>1 DEF TypeOK, Pcs, Contract!TypeOK, Contract!Outcomes
    <3>3. QED
      BY <1>1, <2>1, <3>1, <3>2 DEF TypeOK
  <2>4. ASSUME NEW q \in Requests, q # r PROVE RInv(q)'
    BY <1>1, <2>1, <2>4, LeftAlone DEF GInv, TypeOK, about, Contract!TypeOK
  <2>5. RInv(r)'
    <3>1. /\ input[r] \in Inputs
          /\ pc'[r] = "broker" /\ outcome'[r] = "pending" /\ message'[r] = NewMessage(input[r])
          /\ response'[r] = 200 /\ error'[r] = 0 /\ input'[r] = input[r]
          /\ RateLimited => verdict'[r].kind = "admitted"
      BY <1>1, <1>2, <2>1 DEF TypeOK, Contract!TypeOK, RInv, OnItsWay
    <3>2. QED
      BY <1>1, <1>2, <1>4, <3>1 DEF RInv, OnItsWay, Asked, NotAsked, Answered, ToldTheTruth
  <2>6. QED
    BY <2>3, <2>4, <2>5 DEF GInv
<1>5. QED
  BY <1>3, <1>4

\* The handler answers what the broker answered.
LEMMA PublishReturnedKeeps ==
    ASSUME GInv, NEW r \in Requests, PublishReturned(r)
    PROVE  GInv'
<1>1. /\ pc[r] = "broker" /\ outcome[r] \in {"ok", "error", "refused"}
      /\ Status(r, IF outcome[r] = "ok" THEN 200 ELSE 500) /\ UNCHANGED onlyStatus
  BY DEF PublishReturned
<1>2. input[r].route = "publish"
  BY <1>1 DEF GInv, RInv, Asked
<1>3. Truthful(r, IF outcome[r] = "ok" THEN 200 ELSE 500)
  BY <1>1, <1>2 DEF Truthful
<1>4. QED
  BY <1>1, <1>3, StatusKeeps, CodesAreCodes

\* The answer leaves.
LEMMA RespondKeeps ==
    ASSUME GInv, NEW r \in Requests, Respond(r)
    PROVE  GInv'
<1> USE DEF limiter, broker, LogRequest, EndSpan, Send
<1>1. /\ pc[r] = "respond"
      /\ pc' = [pc EXCEPT ![r] = "done"]
      /\ sent' = [sent EXCEPT ![r] = FinalCode(r)]
      /\ UNCHANGED <<input, client, response, error, message, hits, exp, verdict, now,
                     outcome, handed>>
  BY DEF Respond, Goto, FinalCode
<1>2. RInv(r) /\ TypeOK
  BY DEF GInv
<1>3. TypeOK'
  <2>1. response[r] \in Codes /\ error[r] \in Codes \cup {0}
    BY <1>2 DEF TypeOK
  <2>2. sent' \in [Requests -> Codes \cup {0}]
    BY <1>1, <1>2, <2>1 DEF TypeOK, FinalCode
  <2>3. logged' \in [Requests -> Codes \cup {0}]
    BY <1>2, <2>1 DEF TypeOK, Respond
  <2>4. traced' \in [Requests -> [code : Codes \cup {0}, failed : BOOLEAN]]
    <3> DEFINE T == [code : Codes \cup {0}, failed : BOOLEAN]
               f == error[r] # 0 \/ response[r] >= 400
    <3>1. f \in BOOLEAN
      OBVIOUS
    <3> HIDE DEF f
    <3>2. [code |-> response[r], failed |-> f] \in T
      BY <2>1, <3>1
    <3>3. traced' = [traced EXCEPT ![r] = [code |-> response[r], failed |-> f]] \/ traced' = traced
      BY DEF Respond, f
    <3>4. traced \in [Requests -> T]
      BY <1>2 DEF TypeOK
    <3> HIDE DEF T
    <3>5. traced' \in [Requests -> T]
      BY <3>2, <3>3, <3>4
    <3>6. QED
      BY <3>5 DEF T
  <2>5. pc' \in [Requests -> Pcs]
    BY <1>1, <1>2 DEF TypeOK, Pcs
  <2>6. QED
    BY <1>1, <1>2, <2>2, <2>3, <2>4, <2>5 DEF TypeOK, Contract!TypeOK
<1>4. ASSUME NEW q \in Requests, q # r PROVE RInv(q)'
  BY <1>1, <1>2, <1>4, LeftAlone DEF GInv, TypeOK, about
<1>5. RInv(r)'
  <2>1. pc'[r] = "done" /\ sent'[r] = FinalCode(r)
    BY <1>1, <1>2 DEF TypeOK
  <2>2. Truthful(r, FinalCode(r))
    BY <1>1, <1>2 DEF RInv, ToldTheTruth
  <2>3. Truthful(r, sent[r])'
    BY <1>1, <2>1, <2>2 DEF Truthful
  <2>4. QED
    BY <1>1, <1>2, <2>1, <2>3 DEF RInv, OnItsWay, Asked, NotAsked, Answered, ToldTheTruth
<1>6. QED
  BY <1>3, <1>4, <1>5 DEF GInv

\* The broker answers, or takes a message.
LEMMA BrokerKeeps ==
    ASSUME GInv, NEW r \in Requests, BrokerReturns(r) \/ BrokerTakes(r)
    PROVE  GInv'
<1> USE DEF requests, limiter
<1>1. RInv(r) /\ TypeOK
  BY DEF GInv
<1>2. UNCHANGED <<pc, input, client, response, error, message, logged, traced, sent, hits, exp,
                 verdict, now>>
  BY DEF BrokerReturns, BrokerTakes
<1>3. \/ /\ outcome[r] = "pending" /\ handed' = handed
         /\ \E o \in {"ok", "error", "refused"} :
              outcome' = [outcome EXCEPT ![r] = o] /\ (o = "ok" => r \in handed)
      \/ /\ outcome[r] \in {"pending", "error"} /\ outcome' = outcome
         /\ handed' = handed \cup {r}
  BY DEF BrokerReturns, BrokerTakes, Contract!ReturnOk, Contract!ReturnError, Contract!Refuse,
         Contract!HandOver
<1>4. TypeOK'
  <2>1. Contract!TypeOK'
    BY <1>1, <1>3 DEF TypeOK, Contract!TypeOK, Contract!Outcomes
  <2>2. QED
    BY <1>1, <1>2, <2>1 DEF TypeOK
<1>5. ASSUME NEW q \in Requests, q # r PROVE RInv(q)'
  <2>1. outcome'[q] = outcome[q] /\ (q \in handed' <=> q \in handed)
    BY <1>1, <1>3, <1>5 DEF TypeOK, Contract!TypeOK
  <2>2. QED
    BY <1>2, <2>1, LeftAlone DEF GInv, about
<1>6. RInv(r)'
  <2>1. CASE outcome[r] = "pending"
    <3>1. pc[r] = "broker"
      BY <1>1, <2>1 DEF RInv, Answered
    <3>2. outcome'[r] # "idle" /\ (outcome'[r] = "ok" => r \in handed')
      BY <1>1, <1>3, <2>1 DEF TypeOK, Contract!TypeOK
    <3>3. QED
      BY <1>1, <1>2, <2>1, <3>1, <3>2
         DEF RInv, OnItsWay, Asked, NotAsked, Answered, ToldTheTruth
  <2>2. CASE outcome[r] = "error"
    <3>1. outcome' = outcome
      BY <1>3, <2>2
    <3>2. QED
      BY <1>1, <1>2, <2>2, <3>1
         DEF RInv, OnItsWay, Asked, NotAsked, Answered, ToldTheTruth, Truthful, FinalCode
  <2>3. QED
    BY <1>3, <2>1, <2>2
<1>7. QED
  BY <1>4, <1>5, <1>6 DEF GInv

\* Time passes.
LEMMA TickKeeps ==
    ASSUME GInv, Tick
    PROVE  GInv'
<1>1. UNCHANGED <<requests, limiter, broker>> /\ now' = now + 1
  BY DEF Tick
<1>2. TypeOK'
  BY <1>1 DEF GInv, TypeOK, Contract!TypeOK, requests, limiter, broker
<1>3. ASSUME NEW q \in Requests PROVE RInv(q)'
  BY <1>1, LeftAlone DEF GInv, about, requests, limiter, broker
<1>4. QED
  BY <1>2, <1>3 DEF GInv

\* Nothing happens.
LEMMA StutterKeeps == GInv /\ UNCHANGED vars => GInv'
<1> SUFFICES ASSUME GInv, UNCHANGED vars PROVE GInv'
  OBVIOUS
<1> USE DEF vars, requests, limiter, broker
<1>1. TypeOK'
  BY DEF GInv, TypeOK, Contract!TypeOK
<1>2. ASSUME NEW q \in Requests PROVE RInv(q)'
  BY LeftAlone DEF GInv, about
<1>3. QED
  BY <1>1, <1>2 DEF GInv

\* Every step keeps the invariant.
LEMMA GInvStep == GInv /\ [Next]_vars => GInv'
<1> SUFFICES ASSUME GInv, [Next]_vars PROVE GInv'
  OBVIOUS
<1>1. ASSUME NEW r \in Requests, Receive(r) PROVE GInv'
  BY <1>1, ReceiveKeeps
<1>2. ASSUME NEW r \in Requests, Limit(r) PROVE GInv'
  BY <1>2, LimitKeeps
<1>3. ASSUME NEW r \in Requests, Health(r) \/ Root(r) \/ Auth(r) \/ Stats(r) PROVE GInv'
  BY <1>3, HandlersKeep
<1>4. ASSUME NEW r \in Requests, NoRoute(r) PROVE GInv'
  BY <1>4, NoRouteKeeps
<1>5. ASSUME NEW r \in Requests, Publish(r) PROVE GInv'
  BY <1>5, PublishKeeps
<1>6. ASSUME NEW r \in Requests, PublishReturned(r) PROVE GInv'
  BY <1>6, PublishReturnedKeeps
<1>7. ASSUME NEW r \in Requests, Respond(r) PROVE GInv'
  BY <1>7, RespondKeeps
<1>8. ASSUME NEW r \in Requests, BrokerReturns(r) \/ BrokerTakes(r) PROVE GInv'
  BY <1>8, BrokerKeeps
<1>9. CASE Tick
  BY <1>9, TickKeeps
<1>10. CASE UNCHANGED vars
  BY <1>10, StutterKeeps
<1>11. QED
  BY <1>1, <1>2, <1>3, <1>4, <1>5, <1>6, <1>7, <1>8, <1>9, <1>10 DEF Next, Step
-----------------------------------------------------------------------------
\* The inductive invariant holds throughout.
THEOREM GatewayInvariance == Spec => []GInv
<1>1. Init => GInv
  BY GInvInit
<1>2. GInv /\ [Next]_vars => GInv'
  BY GInvStep
<1>3. QED
  BY <1>1, <1>2, PTL DEF Spec

\* The pipeline's variables keep their types (RequestPipeline, every action).
THEOREM PipelineTypeCorrect == Spec => []TypeOK
<1>1. GInv => TypeOK
  BY DEF GInv
<1>2. QED
  BY <1>1, GatewayInvariance, PTL

\* What the gateway tells a client about its message is true, for any number of
\* requests and any inputs, limits and switches (handlers.go, Publish, through
\* the middleware to the error handler).
THEOREM AnswersAreTrue == Spec => []AnswerTellsTruth
<1>1. GInv => AnswerTellsTruth
  BY DEF GInv, RInv, NotAsked, Answered, ToldTheTruth, Truthful, AnswerTellsTruth
<1>2. QED
  BY <1>1, GatewayInvariance, PTL

\* Nothing reaches the broker but what the limiter and the key check let in
\* (server.go, the order of the middleware; auth.go).
THEOREM OnlyTheAdmittedReachTheBroker == Spec => []OnlyAdmittedIsPublished
<1>1. GInv => OnlyAdmittedIsPublished
  BY DEF GInv, RInv, Asked, Authorised, OnlyAdmittedIsPublished
<1>2. QED
  BY <1>1, GatewayInvariance, PTL

\* No message the handler forwards fails Message.Validate (handlers.go against
\* message.go).
THEOREM ForwardedMessagesAreValid == Spec => []ForwardedIsValid
<1>1. GInv => ForwardedIsValid
  BY AcceptableIsValid DEF GInv, RInv, Asked, NotAsked, ForwardedIsValid
<1>2. QED
  BY <1>1, GatewayInvariance, PTL

\* A correlation ID the request carries is kept (handlers.go, Publish).
THEOREM CorrelationIsKept == Spec => []CorrelationKept
<1>1. ASSUME GInv PROVE CorrelationKept
  <2>1. SUFFICES ASSUME NEW r \in Requests, message[r] # Nothing, input[r].ids # {}
                 PROVE  message[r].correlation \in input[r].ids
    BY DEF CorrelationKept
  <2>2. input[r] \in AllInputs /\ message[r] = NewMessage(input[r])
    BY <1>1, <2>1, InputsAreInputs DEF GInv, RInv, Asked, NotAsked
  <2>3. message[r].correlation = Correlation(input[r])
    BY <2>2 DEF NewMessage
  <2>4. QED
    BY <2>1, <2>2, <2>3, CorrelationIsGiven
<1>2. QED
  BY <1>1, GatewayInvariance, PTL
-----------------------------------------------------------------------------
(***************************************************************************)
(* The span.  Its two sides, the error and the status, are written by      *)
(* different steps, so the invariant follows a request from its error to   *)
(* its span.                                                               *)
(***************************************************************************)

\* The one error a handler returns is a failure, a request that is under way
\* has no span yet, and a span that was ended agrees with what was sent.
SpanInv(r) ==
    /\ error[r] \in {0, 404}
    /\ pc[r] # "done" => traced[r].code = 0
    /\ traced[r].code # 0 => (traced[r].failed <=> sent[r] >= 400)

\* A step that neither fails, finishes nor is the end of a request keeps
\* what is known of its span.
LEMMA SpanLeftAlone ==
    ASSUME NEW r \in Requests, SpanInv(r), UNCHANGED <<error[r], traced[r]>>,
           pc[r] # "done" \/ UNCHANGED <<pc[r], sent[r]>>
    PROVE  SpanInv(r)'
BY DEF SpanInv

\* The end of a request, where the span gets both its sides.
LEMMA RespondEndsSpan ==
    ASSUME TypeOK, NEW r \in Requests, SpanInv(r), Respond(r)
    PROVE  SpanInv(r)'
<1> USE DEF Respond, LogRequest, EndSpan, Send, Goto
<1>1. pc'[r] = "done" /\ error'[r] = error[r] /\ error[r] \in {0, 404} /\ traced[r].code = 0
  BY DEF TypeOK, SpanInv
<1>2. sent'[r] = IF error[r] # 0 THEN error[r] ELSE response[r]
  BY DEF TypeOK
<1>3. CASE Tracing
  <2>1. traced'[r] = [code |-> response[r], failed |-> error[r] # 0 \/ response[r] >= 400]
    BY <1>3 DEF TypeOK
  <2>2. traced'[r].failed <=> sent'[r] >= 400
    <3> DEFINE f == error[r] # 0 \/ response[r] >= 400
    <3>1. f <=> sent'[r] >= 400
      BY <1>1, <1>2
    <3>2. traced'[r] = [code |-> response[r], failed |-> f]
      BY <2>1
    <3> HIDE DEF f
    <3>3. traced'[r].failed = f
      BY <3>2
    <3>4. QED
      BY <3>1, <3>3
  <2>3. QED
    BY <1>1, <2>2 DEF SpanInv
<1>4. CASE ~Tracing
  BY <1>1, <1>4 DEF SpanInv
<1>5. QED
  BY <1>3, <1>4

\* Every step keeps what is known of every span.
LEMMA SpanStep ==
    ASSUME TypeOK, \A q \in Requests : SpanInv(q), [Next]_vars, NEW q \in Requests
    PROVE  SpanInv(q)'
<1> USE DEF Goto, Status, limiter, broker, requests, onlyStatus
<1>1. ASSUME NEW r \in Requests, Receive(r) PROVE SpanInv(q)'
  <2>1. pc[r] = "idle" /\ error' = error /\ traced' = traced
    BY <1>1 DEF Receive
  <2>2. q # r => UNCHANGED <<pc[q], sent[q]>>
    BY <1>1 DEF Receive, TypeOK
  <2>3. QED
    BY <2>1, <2>2, SpanLeftAlone
<1>2. ASSUME NEW r \in Requests,
             Limit(r) \/ Health(r) \/ Root(r) \/ Auth(r) \/ Stats(r) \/ Publish(r) \/ PublishReturned(r)
      PROVE  SpanInv(q)'
  <2>1. pc[r] # "done" /\ error' = error /\ traced' = traced /\ sent' = sent
    BY <1>2 DEF Limit, Health, Root, Auth, Stats, Publish, PublishReturned, At
  <2>2. q # r => pc'[q] = pc[q]
    BY <1>2 DEF Limit, Health, Root, Auth, Stats, Publish, PublishReturned, At, TypeOK
  <2>3. QED
    BY <2>1, <2>2, SpanLeftAlone
<1>3. ASSUME NEW r \in Requests, NoRoute(r) PROVE SpanInv(q)'
  <2>1. /\ pc[r] = "route" /\ pc' = [pc EXCEPT ![r] = "respond"]
        /\ error' = [error EXCEPT ![r] = 404] /\ traced' = traced /\ sent' = sent
    BY <1>3 DEF NoRoute, Fail, At
  <2>2. CASE q # r
    BY <2>1, <2>2, SpanLeftAlone DEF TypeOK
  <2>3. CASE q = r
    BY <2>1, <2>3 DEF TypeOK, SpanInv
  <2>4. QED
    BY <2>2, <2>3
<1>4. ASSUME NEW r \in Requests, Respond(r) PROVE SpanInv(q)'
  <2>1. CASE q # r
    <3>1. UNCHANGED <<pc[q], error[q], sent[q], traced[q]>>
      BY <1>4, <2>1 DEF Respond, LogRequest, EndSpan, Send, TypeOK
    <3>2. QED
      BY <3>1, SpanLeftAlone
  <2>2. QED
    BY <1>4, <2>1, RespondEndsSpan
<1>5. ASSUME NEW r \in Requests, BrokerReturns(r) \/ BrokerTakes(r) PROVE SpanInv(q)'
  BY <1>5, SpanLeftAlone DEF BrokerReturns, BrokerTakes
<1>6. CASE Tick
  BY <1>6, SpanLeftAlone DEF Tick
<1>7. CASE UNCHANGED vars
  BY <1>7, SpanLeftAlone DEF vars
<1>8. QED
  BY <1>1, <1>2, <1>3, <1>4, <1>5, <1>6, <1>7 DEF Next, Step

\* A span is marked as failed exactly when the client got a failure, whatever
\* path the failure took (middleware/tracing.go against customErrorHandler).
THEOREM SpansFailWithAnswers == Spec => []SpanFailsWithAnswer
<1> DEFINE Spans == \A r \in Requests : SpanInv(r)
<1>1. Init => Spans
  BY DEF Init, SpanInv
<1>2. TypeOK /\ Spans /\ [Next]_vars => Spans'
  BY SpanStep
<1>3. Spans => SpanFailsWithAnswer
  BY DEF SpanInv, SpanFailsWithAnswer
<1> HIDE DEF Spans
<1>4. QED
  BY <1>1, <1>2, <1>3, PipelineTypeCorrect, PTL DEF Spec
-----------------------------------------------------------------------------
(***************************************************************************)
(* The limiter is exact: in any second the first Max requests of an        *)
(* address get in and no other is refused.                                 *)
(***************************************************************************)

\* The requests of address c that the limiter judged in second t.
Judged(k, c, t) == {r \in Requests : client[r] = c /\ verdict[r] = [kind |-> k, at |-> t]}

Admitted(c, t) == Judged("admitted", c, t)

Refused(c, t) == Judged("refused", c, t)

\* A request is judged once, after it has an address, and not in the future.
JudgedOnce ==
    \A r \in Requests :
        /\ pc[r] \in {"idle", "limiter"} => verdict[r].kind = "none"
        /\ pc[r] = "limiter" => client[r] \in Clients
        /\ verdict[r].kind # "none" => verdict[r].at <= now

\* An entry ends at the latest with the next second; one that has ended counts
\* nobody of the present second.
StaleIsEmpty ==
    \A c \in Clients :
        /\ exp[c] <= now + 1
        /\ exp[c] <= now => Admitted(c, now) = {} /\ Refused(c, now) = {}

\* An entry that runs counts everybody of the present second.
HitsCount ==
    \A c \in Clients :
        exp[c] = now + 1 =>
            /\ Cardinality(Admitted(c, now)) = (IF hits[c] <= Max THEN hits[c] ELSE Max)
            /\ Refused(c, now) # {} => hits[c] > Max

\* What LimiterExact says, of every second.
WindowsExact ==
    \A c \in Clients, t \in Nat :
        /\ IsFiniteSet(Admitted(c, t))
        /\ Cardinality(Admitted(c, t)) <= Max
        /\ Refused(c, t) # {} => Cardinality(Admitted(c, t)) = Max

LimiterInv == JudgedOnce /\ StaleIsEmpty /\ HitsCount /\ WindowsExact
-----------------------------------------------------------------------------
\* Nobody has been judged at the start.
LEMMA LimiterInvInit == Init => LimiterInv
<1> SUFFICES ASSUME Init PROVE LimiterInv
  OBVIOUS
<1>1. \A c \in Clients, t \in Nat : Admitted(c, t) = {} /\ Refused(c, t) = {}
  BY DEF Init, Admitted, Refused, Judged
<1>2. IsFiniteSet({}) /\ Cardinality({}) = 0
  BY FS_EmptySet
<1>3. now = 0 /\ \A c \in Clients : exp[c] = 0
  BY DEF Init
<1>4. JudgedOnce
  BY DEF Init, JudgedOnce
<1>5. StaleIsEmpty
  BY <1>1, <1>3 DEF StaleIsEmpty
<1>6. HitsCount
  BY <1>3 DEF HitsCount
<1>7. WindowsExact
  BY <1>1, <1>2, MaxIsPositive DEF WindowsExact
<1>8. QED
  BY <1>4, <1>5, <1>6, <1>7 DEF LimiterInv

\* A step that judges nobody while no time passes keeps the invariant.
LEMMA NobodyJudged ==
    ASSUME TypeOK, LimiterInv, UNCHANGED <<hits, exp, verdict, now>>, NEW r \in Requests,
           \A q \in Requests \ {r} : UNCHANGED <<pc[q], client[q]>>,
           \/ verdict[r].kind = "none" /\ client'[r] \in Clients
           \/ client'[r] = client[r] /\ pc'[r] \notin {"idle", "limiter"}
    PROVE  LimiterInv'
<1>1. \A k \in {"admitted", "refused"}, c \in Clients, t \in Nat : Judged(k, c, t)' = Judged(k, c, t)
  BY DEF Judged
<1>2. now \in Nat
  BY DEF TypeOK
<1>3. \A c \in Clients, t \in Nat :
        Admitted(c, t)' = Admitted(c, t) /\ Refused(c, t)' = Refused(c, t)
  BY <1>1 DEF Admitted, Refused
<1>4. JudgedOnce'
  BY DEF LimiterInv, JudgedOnce
<1>5. StaleIsEmpty'
  BY <1>2, <1>3 DEF LimiterInv, StaleIsEmpty
<1>6. HitsCount'
  BY <1>2, <1>3 DEF LimiterInv, HitsCount
<1>7. WindowsExact'
  BY <1>3 DEF LimiterInv, WindowsExact
<1>8. QED
  BY <1>4, <1>5, <1>6, <1>7 DEF LimiterInv

\* The limiter keeps its windows exact (server.go, the configuration of the
\* limiter).
LEMMA LimitKeepsWindows ==
    ASSUME TypeOK, LimiterInv, NEW r \in Requests, Limit(r)
    PROVE  LimiterInv'
<1>1. PICK c \in Clients, n \in Nat : client[r] = c /\ now = n
  BY DEF Limit, LimiterInv, JudgedOnce, TypeOK
<1> DEFINE fresh == exp[c] = 0 \/ n >= exp[c]
           h == IF fresh THEN 1 ELSE hits[c] + 1
           e == IF fresh THEN n + 1 ELSE exp[c]
<1>2. /\ pc[r] = "limiter" /\ verdict[r].kind = "none"
      /\ hits[c] \in Nat /\ exp[c] \in Nat /\ Max \in Nat /\ Max >= 1
      /\ h \in Nat /\ (h <= Max \/ h > Max)
  BY MaxIsPositive DEF Limit, LimiterInv, JudgedOnce, TypeOK
<1>3. PICK k \in {"admitted", "refused"} :
        /\ k = "admitted" <=> h <= Max
        /\ verdict' = [verdict EXCEPT ![r] = [kind |-> k, at |-> n]]
        /\ hits' = [hits EXCEPT ![c] = h] /\ exp' = [exp EXCEPT ![c] = e]
        /\ UNCHANGED <<client, now>>
        /\ pc' \in {[pc EXCEPT ![r] = "route"], [pc EXCEPT ![r] = "respond"]}
  BY <1>1, <1>2 DEF Limit, Goto, Status
<1>4. /\ \A q \in Requests \ {r} : pc'[q] = pc[q]
      /\ pc'[r] \in {"route", "respond"}
  BY <1>3 DEF TypeOK
\* The sets of the address and the present second grow by the request, the
\* others stay.
<1>5. /\ Judged(k, c, n)' = Judged(k, c, n) \cup {r}
      /\ r \notin Judged(k, c, n)
      /\ \A j \in {"admitted", "refused"}, d \in Clients, t \in Nat :
           <<j, d, t>> # <<k, c, n>> => Judged(j, d, t)' = Judged(j, d, t)
  <2> HIDE DEF fresh, h, e
  <2> DEFINE v(j, t) == [kind |-> j, at |-> t]
  <2>1. /\ verdict'[r] = v(k, n) /\ client' = client
        /\ \A q \in Requests \ {r} : verdict'[q] = verdict[q]
    BY <1>3 DEF TypeOK
  <2>2. \A j \in {"admitted", "refused"}, t \in Nat : verdict[r] # v(j, t)
    BY <1>2
  <2>3. \A j, t : v(j, t) = v(k, n) => j = k /\ t = n
    OBVIOUS
  <2> HIDE DEF v
  <2>4. r \notin {q \in Requests : client[q] = c /\ verdict[q] = v(k, n)}
    BY <2>2
  <2>5. {q \in Requests : client'[q] = c /\ verdict'[q] = v(k, n)}
          = {q \in Requests : client[q] = c /\ verdict[q] = v(k, n)} \cup {r}
    BY <1>1, <2>1
  <2>6. ASSUME NEW j \in {"admitted", "refused"}, NEW d \in Clients, NEW t \in Nat,
               <<j, d, t>> # <<k, c, n>>
        PROVE  {q \in Requests : client'[q] = d /\ verdict'[q] = v(j, t)}
                 = {q \in Requests : client[q] = d /\ verdict[q] = v(j, t)}
    <3>1. ~(client'[r] = d /\ verdict'[r] = v(j, t))
      BY <1>1, <2>1, <2>3, <2>6
    <3>2. ~(client[r] = d /\ verdict[r] = v(j, t))
      BY <2>2
    <3>3. QED
      BY <2>1, <3>1, <3>2
  <2>7. QED
    BY <2>4, <2>5, <2>6 DEF Judged, v
<1>6. /\ hits'[c] = h /\ exp'[c] = e
      /\ \A d \in Clients \ {c} : hits'[d] = hits[d] /\ exp'[d] = exp[d]
  BY <1>1, <1>3 DEF TypeOK
\* The entry the request meets counts the present second, or nobody is in it.
<1>7. /\ e = n + 1
      /\ fresh => Admitted(c, n) = {} /\ Refused(c, n) = {}
      /\ ~fresh => /\ Cardinality(Admitted(c, n)) = (IF hits[c] <= Max THEN hits[c] ELSE Max)
                   /\ Refused(c, n) # {} => hits[c] > Max
  <2>1. CASE fresh
    <3>1. exp[c] <= n
      BY <1>1, <1>2, <2>1
    <3>2. QED
      BY <1>1, <1>2, <2>1, <3>1 DEF LimiterInv, StaleIsEmpty
  <2>2. CASE ~fresh
    <3>1. exp[c] = n + 1
      BY <1>1, <1>2, <2>2 DEF LimiterInv, StaleIsEmpty
    <3>2. QED
      BY <1>1, <1>2, <2>2, <3>1 DEF LimiterInv, HitsCount
  <2>3. QED
    BY <2>1, <2>2
<1>8. IsFiniteSet(Admitted(c, n)) /\ Cardinality(Admitted(c, n)) \in Nat
  BY <1>1, <1>2, FS_CardinalityType DEF LimiterInv, WindowsExact
\* The present second of the request's address, afterwards.
<1>9. /\ IsFiniteSet(Admitted(c, n)')
      /\ Cardinality(Admitted(c, n)') = (IF h <= Max THEN h ELSE Max)
      /\ Refused(c, n)' # {} => h > Max
  <2>1. CASE k = "admitted"
    <3>1. Admitted(c, n)' = Admitted(c, n) \cup {r} /\ r \notin Admitted(c, n)
      BY <1>5, <2>1 DEF Admitted
    <3>2. Refused(c, n)' = Refused(c, n)
      BY <1>1, <1>2, <1>5, <2>1 DEF Refused
    <3>3. /\ IsFiniteSet(Admitted(c, n) \cup {r})
          /\ Cardinality(Admitted(c, n) \cup {r}) = Cardinality(Admitted(c, n)) + 1
      BY <1>8, <3>1, FS_AddElement
    <3>4. CASE fresh
      <4>1. Cardinality(Admitted(c, n)) = 0 /\ Refused(c, n) = {}
        BY <1>7, <3>4, FS_EmptySet
      <4>2. QED
        BY <1>1, <1>2, <3>1, <3>2, <3>3, <3>4, <4>1
    <3>5. CASE ~fresh
      <4>1. h = hits[c] + 1 /\ hits[c] < Max
        BY <1>1, <1>2, <1>3, <2>1, <3>5
      <4>2. Cardinality(Admitted(c, n)) = hits[c] /\ Refused(c, n) = {}
        BY <1>1, <1>2, <1>7, <3>5, <4>1
      <4>3. QED
        BY <1>1, <1>2, <3>1, <3>2, <3>3, <4>1, <4>2
    <3>6. QED
      BY <3>4, <3>5
  <2>2. CASE k = "refused"
    <3>1. Admitted(c, n)' = Admitted(c, n)
      BY <1>1, <1>2, <1>5, <2>2 DEF Admitted
    <3>2. ~fresh /\ h > Max /\ h = hits[c] + 1
      BY <1>1, <1>2, <1>3, <2>2
    <3>3. Cardinality(Admitted(c, n)) = Max
      BY <1>1, <1>2, <1>7, <3>2
    <3>4. QED
      BY <1>1, <1>2, <1>8, <3>1, <3>2, <3>3
  <2>3. QED
    BY <1>3, <2>1, <2>2
<1>10. \A d \in Clients, t \in Nat :
         <<d, t>> # <<c, n>> =>
            Admitted(d, t)' = Admitted(d, t) /\ Refused(d, t)' = Refused(d, t)
  BY <1>5 DEF Admitted, Refused
<1> HIDE DEF fresh, h, e
<1>11. JudgedOnce'
  <2>1. verdict'[r].kind # "none" /\ verdict'[r].at = n
    BY <1>3 DEF TypeOK
  <2>2. \A q \in Requests \ {r} : verdict'[q] = verdict[q]
    BY <1>3 DEF TypeOK
  <2>3. QED
    BY <1>1, <1>3, <1>4, <2>1, <2>2 DEF LimiterInv, JudgedOnce
<1>12. StaleIsEmpty'
  <2>1. ASSUME NEW d \in Clients
        PROVE  /\ exp'[d] <= n + 1
               /\ exp'[d] <= n => Admitted(d, n)' = {} /\ Refused(d, n)' = {}
    <3>1. CASE d = c
      BY <1>1, <1>2, <1>6, <1>7, <3>1
    <3>2. CASE d # c
      BY <1>1, <1>2, <1>6, <1>10, <3>2 DEF LimiterInv, StaleIsEmpty
    <3>3. QED
      BY <3>1, <3>2
  <2>2. QED
    BY <1>1, <1>3, <2>1 DEF StaleIsEmpty, Admitted, Refused, Judged
<1>13. HitsCount'
  <2>1. ASSUME NEW d \in Clients, exp'[d] = n + 1
        PROVE  /\ Cardinality(Admitted(d, n)') = (IF hits'[d] <= Max THEN hits'[d] ELSE Max)
               /\ Refused(d, n)' # {} => hits'[d] > Max
    <3>1. CASE d = c
      BY <1>6, <1>9, <3>1
    <3>2. CASE d # c
      BY <1>1, <1>2, <1>6, <1>10, <2>1, <3>2 DEF LimiterInv, HitsCount
    <3>3. QED
      BY <3>1, <3>2
  <2>2. QED
    BY <1>1, <1>3, <2>1 DEF HitsCount, Admitted, Refused, Judged
<1>14. WindowsExact'
  <2>1. ASSUME NEW d \in Clients, NEW t \in Nat
        PROVE  /\ IsFiniteSet(Admitted(d, t)')
               /\ Cardinality(Admitted(d, t)') <= Max
               /\ Refused(d, t)' # {} => Cardinality(Admitted(d, t)') = Max
    <3>1. CASE <<d, t>> = <<c, n>>
      <4>1. d = c /\ t = n
        BY <3>1
      <4>2. /\ Cardinality(Admitted(c, n)') <= Max
            /\ Refused(c, n)' # {} => Cardinality(Admitted(c, n)') = Max
        BY <1>1, <1>2, <1>9
      <4>3. QED
        BY <1>9, <4>1, <4>2
    <3>2. CASE <<d, t>> # <<c, n>>
      BY <1>10, <3>2 DEF LimiterInv, WindowsExact
    <3>3. QED
      BY <3>1, <3>2
  <2>2. QED
    BY <2>1 DEF WindowsExact, Admitted, Refused, Judged
<1>15. QED
  BY <1>11, <1>12, <1>13, <1>14 DEF LimiterInv

\* When a second ends, nobody has been judged in the next one.
LEMMA TickKeepsWindows ==
    ASSUME TypeOK, LimiterInv, Tick
    PROVE  LimiterInv'
<1> USE DEF requests, limiter, broker
<1>1. now' = now + 1 /\ now \in Nat
      /\ UNCHANGED <<pc, client, verdict, hits, exp>>
  BY DEF Tick, TypeOK
<1>2. \A c, t : Admitted(c, t)' = Admitted(c, t) /\ Refused(c, t)' = Refused(c, t)
  BY <1>1 DEF Admitted, Refused, Judged
<1>3. \A r \in Requests : verdict[r].kind # "none" => verdict[r].at <= now /\ verdict[r].at \in Nat
  BY DEF LimiterInv, JudgedOnce, TypeOK
<1>4. \A c \in Clients : Admitted(c, now + 1) = {} /\ Refused(c, now + 1) = {}
  BY <1>1, <1>3 DEF Admitted, Refused, Judged
<1>5. \A c \in Clients : exp[c] \in Nat /\ exp[c] <= now + 1
  BY DEF TypeOK, LimiterInv, StaleIsEmpty
<1>6. JudgedOnce'
  BY <1>1, <1>3 DEF LimiterInv, JudgedOnce
<1>7. \A c \in Clients : Admitted(c, now)' = {} /\ Refused(c, now)' = {}
  BY <1>1, <1>4 DEF Admitted, Refused, Judged
<1>8. StaleIsEmpty'
  BY <1>1, <1>5, <1>7 DEF StaleIsEmpty
<1>9. HitsCount'
  BY <1>1, <1>5 DEF HitsCount
<1>10. WindowsExact'
  BY <1>2 DEF LimiterInv, WindowsExact
<1>11. QED
  BY <1>6, <1>8, <1>9, <1>10 DEF LimiterInv

\* Every step keeps the windows exact.
LEMMA LimiterStep == TypeOK /\ LimiterInv /\ [Next]_vars => LimiterInv'
<1> SUFFICES ASSUME TypeOK, LimiterInv, [Next]_vars PROVE LimiterInv'
  OBVIOUS
<1> USE DEF requests, limiter, broker, Goto, Status, onlyStatus
<1>1. ASSUME NEW r \in Requests, Receive(r) PROVE LimiterInv'
  <2>1. /\ pc[r] = "idle" /\ verdict[r].kind = "none"
        /\ \E c \in Clients : client' = [client EXCEPT ![r] = c]
        /\ UNCHANGED <<hits, exp, verdict, now>>
    BY <1>1 DEF Receive, LimiterInv, JudgedOnce
  <2>2. client'[r] \in Clients /\ \A q \in Requests \ {r} : UNCHANGED <<pc[q], client[q]>>
    BY <1>1, <2>1 DEF Receive, TypeOK
  <2>3. QED
    BY <2>1, <2>2, NobodyJudged
<1>2. ASSUME NEW r \in Requests, Limit(r) PROVE LimiterInv'
  BY <1>2, LimitKeepsWindows
<1>3. ASSUME NEW r \in Requests,
             \/ Health(r) \/ Root(r) \/ Auth(r) \/ Stats(r) \/ NoRoute(r)
             \/ Publish(r) \/ PublishReturned(r) \/ Respond(r)
      PROVE  LimiterInv'
  <2>1. /\ UNCHANGED <<hits, exp, verdict, now, client>>
        /\ \E place \in {"respond", "broker", "done"} : pc' = [pc EXCEPT ![r] = place]
    BY <1>3 DEF Health, Root, Auth, Stats, NoRoute, Fail, Publish, PublishReturned, Respond, At
  <2>2. /\ pc'[r] \notin {"idle", "limiter"} /\ client'[r] = client[r]
        /\ \A q \in Requests \ {r} : UNCHANGED <<pc[q], client[q]>>
    BY <2>1 DEF TypeOK
  <2>3. QED
    BY <2>1, <2>2, NobodyJudged
<1>4. CASE /\ UNCHANGED <<pc, client, hits, exp, verdict, now>>
  <2>1. \A c, t : Admitted(c, t)' = Admitted(c, t) /\ Refused(c, t)' = Refused(c, t)
    BY <1>4 DEF Admitted, Refused, Judged
  <2>2. \A c : Admitted(c, now)' = Admitted(c, now) /\ Refused(c, now)' = Refused(c, now)
    BY <1>4 DEF Admitted, Refused, Judged
  <2>3. JudgedOnce' /\ StaleIsEmpty' /\ HitsCount' /\ WindowsExact'
    BY <1>4, <2>1, <2>2 DEF LimiterInv, JudgedOnce, StaleIsEmpty, HitsCount, WindowsExact
  <2>4. QED
    BY <2>3 DEF LimiterInv
<1>5. ASSUME NEW r \in Requests, BrokerReturns(r) \/ BrokerTakes(r) PROVE LimiterInv'
  BY <1>4, <1>5 DEF BrokerReturns, BrokerTakes
<1>6. CASE Tick
  BY <1>6, TickKeepsWindows
<1>7. CASE UNCHANGED vars
  BY <1>4, <1>7 DEF vars
<1>8. QED
  BY <1>1, <1>2, <1>3, <1>5, <1>6, <1>7 DEF Next, Step
-----------------------------------------------------------------------------
\* In any second exactly the first Max requests of an address get in, for any
\* number of requests and addresses, any allowance and any length of time
\* (server.go, the configuration of the limiter).
THEOREM LimiterIsExact == Spec => []LimiterExact
<1>1. Init => LimiterInv
  BY LimiterInvInit
<1>2. TypeOK /\ LimiterInv /\ [Next]_vars => LimiterInv'
  BY LimiterStep
<1>3. LimiterInv => LimiterExact
  <2> SUFFICES ASSUME LimiterInv, NEW c \in Clients, NEW t \in 0..Horizon
               PROVE  /\ Cardinality(Admitted(c, t)) <= Max
                      /\ Refused(c, t) # {} => Cardinality(Admitted(c, t)) = Max
    BY DEF LimiterExact, Admitted, Refused, Judged
  <2>1. t \in Nat
    BY HorizonIsNat
  <2>2. QED
    BY <2>1 DEF LimiterInv, WindowsExact
<1>4. QED
  BY <1>1, <1>2, <1>3, PipelineTypeCorrect, PTL DEF Spec
-----------------------------------------------------------------------------
(***************************************************************************)
(* The gateway and the contract it has with the broker.                    *)
(***************************************************************************)

\* The steps that leave the broker alone: all but a publish that passes its
\* checks and the broker's own.
LEMMA BrokerLeftAlone ==
    ASSUME NEW r \in Requests,
           \/ Receive(r) \/ Limit(r) \/ Health(r) \/ Root(r) \/ Auth(r) \/ NoRoute(r)
           \/ Stats(r) \/ PublishReturned(r) \/ Respond(r) \/ Tick \/ UNCHANGED vars
    PROVE  UNCHANGED broker
BY DEF Receive, Limit, Health, Root, Auth, NoRoute, Stats, PublishReturned, Respond,
       Tick, vars, broker, onlyStatus

\* The gateway uses the broker as Broker.Publish allows: it calls once for a
\* request and leaves the rest to the adapter.  So whatever the adapters keep of
\* the contract holds of the gateway, and the other way round
\* (handlers.go, Publish, through Manager.Publish).
THEOREM GatewayKeepsContract == Spec => Contract!Spec
<1>1. Init => Contract!Init
  BY DEF Init
<1>2. [Next]_vars => [Contract!Next]_(Contract!vars)
  <2> SUFFICES ASSUME [Next]_vars
               PROVE  Contract!Next \/ UNCHANGED Contract!vars
    OBVIOUS
  <2>1. ASSUME NEW r \in Requests, BrokerReturns(r) \/ BrokerTakes(r)
        PROVE  Contract!Next
    BY <2>1 DEF BrokerReturns, BrokerTakes, Contract!Next
  <2>2. ASSUME NEW r \in Requests, Publish(r)
        PROVE  Contract!Next \/ UNCHANGED broker
    BY <2>2 DEF Publish, Contract!Next
  <2>3. ASSUME NEW r \in Requests, Receive(r) \/ Step(r)
        PROVE  Contract!Next \/ UNCHANGED broker
    BY <2>2, <2>3, BrokerLeftAlone DEF Step
  <2>4. Tick \/ UNCHANGED vars => UNCHANGED broker
    BY DEF Tick, vars, broker
  <2>5. QED
    BY <2>1, <2>3, <2>4 DEF Next, broker, Contract!vars
<1>3. QED
  BY <1>1, <1>2, PTL DEF Spec, Contract!Spec

\* Once a request is done its answer stays and what the broker has of it stays:
\* nothing is published of a message that was refused, turned away or rejected.
\* Only behind a 500 for a message the adapter had taken may the message still
\* arrive (handlers.go, Publish, with what the client libraries do afterwards).
AnswersStand ==
    [][\A r \in Requests :
          pc[r] = "done" =>
              /\ sent'[r] = sent[r]
              /\ outcome'[r] = outcome[r]
              /\ r \in handed' /\ r \notin handed => outcome[r] = "error"]_vars

\* What comes of a finished request when the broker, or another request's call,
\* takes a step.
LEMMA BrokerSparesTheDone ==
    ASSUME GInv, NEW q \in Requests, NEW r \in Requests, pc[r] = "done",
           \/ Contract!Call(q) /\ pc[q] = "route"
           \/ Contract!HandOver(q) \/ Contract!ReturnOk(q) \/ Contract!ReturnError(q)
           \/ Contract!Refuse(q)
    PROVE  /\ outcome'[r] = outcome[r]
           /\ r \in handed' /\ r \notin handed => outcome[r] = "error"
<1>1. outcome \in [Requests -> Contract!Outcomes] /\ handed \in SUBSET Requests
  BY DEF GInv, TypeOK, Contract!TypeOK
<1>2. outcome[r] # "pending"
  BY DEF GInv, RInv, Answered
<1>3. CASE Contract!HandOver(q)
  BY <1>1, <1>2, <1>3 DEF Contract!HandOver
<1>4. CASE Contract!Call(q) /\ pc[q] = "route"
  BY <1>1, <1>4 DEF Contract!Call
<1>5. CASE Contract!ReturnOk(q) \/ Contract!ReturnError(q) \/ Contract!Refuse(q)
  BY <1>1, <1>2, <1>5 DEF Contract!ReturnOk, Contract!ReturnError, Contract!Refuse
<1>6. QED
  BY <1>3, <1>4, <1>5

\* An answer is the last word on a request, but for a late delivery behind an
\* error (PublishContract allows one, Kafka's writer makes use of it).
THEOREM AnswersStay == Spec => AnswersStand
<1>1. GInv /\ [Next]_vars =>
        [\A r \in Requests :
          pc[r] = "done" =>
              /\ sent'[r] = sent[r]
              /\ outcome'[r] = outcome[r]
              /\ r \in handed' /\ r \notin handed => outcome[r] = "error"]_vars
  <2> SUFFICES ASSUME GInv, Next, NEW r \in Requests, pc[r] = "done"
               PROVE  /\ sent'[r] = sent[r]
                      /\ outcome'[r] = outcome[r]
                      /\ r \in handed' /\ r \notin handed => outcome[r] = "error"
    OBVIOUS
  <2>0. sent \in [Requests -> Codes \cup {0}]
    BY DEF GInv, TypeOK
  <2>1. ASSUME NEW q \in Requests, BrokerReturns(q) \/ BrokerTakes(q)
        PROVE  /\ sent' = sent
               /\ outcome'[r] = outcome[r]
               /\ r \in handed' /\ r \notin handed => outcome[r] = "error"
    <3>1. UNCHANGED sent
      BY <2>1 DEF BrokerReturns, BrokerTakes, requests
    <3>2. QED
      BY <2>1, <3>1, BrokerSparesTheDone DEF BrokerReturns, BrokerTakes
  <2>2. ASSUME NEW q \in Requests, Publish(q)
        PROVE  /\ sent' = sent
               /\ outcome'[r] = outcome[r]
               /\ r \in handed' /\ r \notin handed => outcome[r] = "error"
    <3>1. UNCHANGED sent /\ pc[q] = "route"
      BY <2>2 DEF Publish, At
    <3>2. CASE UNCHANGED broker
      BY <3>1, <3>2 DEF broker
    <3>3. CASE Contract!Call(q)
      BY <3>1, <3>3, BrokerSparesTheDone
    <3>4. QED
      BY <2>2, <3>2, <3>3 DEF Publish
  <2>3. ASSUME NEW q \in Requests,
               \/ Receive(q) \/ Limit(q) \/ Health(q) \/ Root(q) \/ Auth(q) \/ NoRoute(q)
               \/ Stats(q) \/ PublishReturned(q) \/ Respond(q)
        PROVE  sent'[r] = sent[r] /\ UNCHANGED broker
    <3>1. UNCHANGED broker
      BY <2>3, BrokerLeftAlone
    <3>2. CASE Receive(q)
      <4>1. q # r
        BY <3>2 DEF Receive
      <4>2. sent' = sent \/ sent' = [sent EXCEPT ![q] = 413]
        BY <3>2 DEF Receive
      <4>3. QED
        BY <2>0, <3>1, <4>1, <4>2
    <3>3. CASE Respond(q)
      <4>1. q # r
        BY <3>3 DEF Respond
      <4>2. QED
        BY <2>0, <3>1, <3>3, <4>1 DEF Respond, Send
    <3>4. CASE \/ Limit(q) \/ Health(q) \/ Root(q) \/ Auth(q) \/ NoRoute(q) \/ Stats(q)
               \/ PublishReturned(q)
      <4>1. sent' = sent
        BY <3>4 DEF Limit, Health, Root, Auth, NoRoute, Stats, PublishReturned, onlyStatus
      <4>2. QED
        BY <3>1, <4>1
    <3>5. QED
      BY <2>3, <3>2, <3>3, <3>4
  <2>4. Tick => UNCHANGED sent /\ UNCHANGED broker
    BY DEF Tick, requests, broker
  <2>5. QED
    BY <2>1, <2>2, <2>3, <2>4 DEF Next, Step, broker
<1>2. QED
  BY GatewayInvariance, <1>1, PTL DEF Spec, AnswersStand
=============================================================================
