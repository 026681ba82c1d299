-------------------------- MODULE ServiceLifecycle --------------------------
(***************************************************************************)
(* The process from its start to its end: main (cmd/server/main.go), the   *)
(* server it makes, starts and shuts down (internal/server/server.go), the *)
(* tracer's start and end (internal/tracing/tracing.go).  The goroutines   *)
(* are main, the one that listens, the library's, which accept and serve   *)
(* requests, and the span exporter.  A request asks the adapter once       *)
(* (RequestPipeline has the rest of it); the adapter is the flag           *)
(* connected.  The process may end by the end of main, by log.Fatal, which *)
(* skips what is deferred, and by a signal nobody has asked for yet.       *)
(***************************************************************************)
EXTENDS Configuration, FiniteSets

CONSTANTS
    Environments,   \* what the process may be started with
    Requests        \* HTTP requests that may come

ASSUME BrokersAreLists ==
    \A e \in Environments : e.KAFKA_BROKERS = <<>> \/ Len(e.KAFKA_BROKERS) > 0

VARIABLES
    env, cfg,                  \* the environment, what Load made of it
    mainPc, exit,              \* main; how the process has ended
    unhealthy,                 \* what the dependency check found
    connected,                 \* the adapter
    serverPc, listener,        \* the goroutine that listens, the listener
    signalled,                 \* the channel quit holds a signal
    expired,                   \* the deadline of the shutdown has passed
    tracing, ended, exported,  \* the tracer, the requests whose spans it has
                               \*   been given and those it has sent
    request, refused, aborted, \* requests: state; turned away by the adapter;
                               \*   those whose publish the shutdown has ended
    late                       \* history: Shutdown found no listener

starting == <<env, cfg, unhealthy>>
server == <<serverPc, listener>>
spans == <<tracing, ended, exported>>
requests == <<request, refused, aborted>>

vars == <<starting, mainPc, exit, connected, server, signalled, expired, spans, requests, late>>

NoConfig == <<>>
-----------------------------------------------------------------------------
MainPcs == {"load", "check", "observe", "new", "spawn", "notify", "wait", "drain",
            "disconnect", "flush", "exited"}

TypeOK ==
    /\ env \in Environments /\ cfg \in {NoConfig, Load(env)}
    /\ mainPc \in MainPcs /\ exit \in {"running", "ok", "failed", "killed"}
    /\ unhealthy \in {0, 1} /\ {connected, signalled, expired, late} \subseteq BOOLEAN
    /\ serverPc \in {"none", "starting", "serving", "done"}
    /\ listener \in {"none", "listening", "closed"}
    /\ tracing \in {"off", "on", "flushed", "abandoned"}
    /\ exported \subseteq ended /\ ended \subseteq {r \in Requests : request[r] = "answered"}
    /\ request \in [Requests -> {"none", "running", "asked", "answered", "cut"}]
    /\ refused \subseteq Requests
    /\ aborted \subseteq {r \in Requests \ refused : request[r] \notin {"none", "running"}}

Init ==
    /\ env \in Environments /\ cfg = NoConfig
    /\ mainPc = "load" /\ exit = "running" /\ unhealthy = 0
    /\ connected = FALSE
    /\ serverPc = "none" /\ listener = "none"
    /\ signalled = FALSE /\ expired = FALSE /\ late = FALSE
    /\ tracing = "off" /\ ended = {} /\ exported = {}
    /\ request = [r \in Requests |-> "none"] /\ refused = {} /\ aborted = {}

\* The process ends, and the requests it was serving with it.
Ends(how) ==
    /\ exit' = how
    /\ mainPc' = "exited"
    /\ request' = [r \in Requests |-> IF request[r] \in {"running", "asked"} THEN "cut" ELSE request[r]]

StillRuns(pc) == mainPc' = pc /\ UNCHANGED <<exit, request>>
-----------------------------------------------------------------------------
(***************************************************************************)
(* main, up to the server.                                                 *)
(***************************************************************************)
onlyStart == <<env, server, signalled, expired, ended, exported, refused, aborted, late>>

LoadConfiguration ==
    /\ mainPc = "load"
    /\ IF Validate(Load(env)) THEN cfg' = Load(env) /\ StillRuns("check")
       ELSE Ends("failed") /\ UNCHANGED cfg
    /\ UNCHANGED <<unhealthy, connected, tracing, onlyStart>>

\* The result is printed and has no other effect.
CheckDependencies ==
    /\ mainPc = "check"
    /\ unhealthy' = Unhealthy(cfg)
    /\ StillRuns("observe")
    /\ UNCHANGED <<cfg, connected, tracing, onlyStart>>

\* The logger is needed, the tracer is not.
Observe ==
    /\ mainPc = "observe"
    /\ \/ ~LoggerAccepts(cfg) /\ Ends("failed") /\ UNCHANGED tracing
       \/ /\ LoggerAccepts(cfg) /\ StillRuns("new")
          /\ tracing' \in {"off"} \cup (IF cfg.EnableTracing THEN {"on"} ELSE {})
    /\ UNCHANGED <<cfg, unhealthy, connected, onlyStart>>

\* server.New: the adapter connects, or log.Fatal.
New ==
    /\ mainPc = "new"
    /\ \/ ManagerAccepts(cfg) /\ connected' = TRUE /\ StillRuns("spawn")
       \/ Ends("failed") /\ UNCHANGED connected
    /\ UNCHANGED <<cfg, unhealthy, tracing, onlyStart>>

Spawn ==
    /\ mainPc = "spawn"
    /\ serverPc' = "starting"
    /\ StillRuns("notify")
    /\ UNCHANGED <<starting, connected, listener, signalled, expired, spans, refused, aborted, late>>

Notify ==
    /\ mainPc = "notify"
    /\ StillRuns("wait")
    /\ UNCHANGED <<starting, connected, server, signalled, expired, spans, refused, aborted, late>>
-----------------------------------------------------------------------------
(***************************************************************************)
(* main, from the signal on.  ShutdownWithContext closes the listener,     *)
(* which ends the contexts of its requests too, and waits for the open     *)
(* connections or the deadline; without a listener it returns at once, and *)
(* a listener that comes later is not stopped.                             *)
(***************************************************************************)
InFlight == {r \in Requests : request[r] \in {"running", "asked"}}

Shutdown ==
    /\ mainPc = "wait" /\ signalled
    /\ expired' = (cfg.ShutdownTimeout <= 0)
    /\ \/ listener = "listening" /\ listener' = "closed" /\ StillRuns("drain") /\ UNCHANGED late
       \/ listener = "none" /\ late' = TRUE /\ StillRuns("disconnect") /\ UNCHANGED listener
    /\ UNCHANGED <<starting, connected, serverPc, signalled, spans, refused, aborted>>

DeadlinePasses ==
    /\ mainPc \in {"drain", "disconnect"} /\ ~expired
    /\ expired' = TRUE
    /\ UNCHANGED <<starting, mainPc, exit, connected, server, signalled, spans, requests, late>>

\* Mutant: the open connections are not waited for.
DrainedAtOnce ==
    /\ mainPc = "drain"
    /\ StillRuns("disconnect")
    /\ UNCHANGED <<starting, connected, server, signalled, expired, spans, refused, aborted, late>>

\* Mutant: the deadline is not given to the library.
DrainedWithoutDeadline ==
    /\ mainPc = "drain" /\ InFlight = {}
    /\ StillRuns("disconnect")
    /\ UNCHANGED <<starting, connected, server, signalled, expired, spans, refused, aborted, late>>

\* The error of a deadline that has passed is logged, and Shutdown goes on.
Drained ==
    /\ mainPc = "drain" /\ (InFlight = {} \/ expired)
    /\ StillRuns("disconnect")
    /\ UNCHANGED <<starting, connected, server, signalled, expired, spans, refused, aborted, late>>

\* Mutant: a deadline that has passed ends Shutdown.
DisconnectInTimeOnly ==
    /\ mainPc = "disconnect"
    /\ connected' = (connected /\ expired)
    /\ StillRuns("flush")
    /\ UNCHANGED <<starting, server, signalled, expired, spans, refused, aborted, late>>

\* The adapters' Disconnect returns, whatever state they are in.
Disconnect ==
    /\ mainPc = "disconnect"
    /\ connected' = FALSE
    /\ StillRuns("flush")
    /\ UNCHANGED <<starting, server, signalled, expired, spans, refused, aborted, late>>

\* The deferred tracing.Shutdown sends what is left, or gives up after ten
\* seconds; then main returns.
Flush ==
    /\ mainPc = "flush"
    /\ \/ tracing = "off" /\ UNCHANGED <<tracing, exported>>
       \/ tracing = "on" /\ tracing' = "flushed" /\ exported' = ended
       \/ tracing = "on" /\ tracing' = "abandoned" /\ UNCHANGED exported
    /\ Ends("ok")
    /\ UNCHANGED <<starting, connected, server, signalled, expired, ended, refused, aborted, late>>
-----------------------------------------------------------------------------
(***************************************************************************)
(* SIGINT or SIGTERM: before Notify it kills; afterwards the channel holds *)
(* one and the others are dropped.                                         *)
(***************************************************************************)
Signal ==
    /\ exit = "running"
    /\ IF mainPc \in {"load", "check", "observe", "new", "spawn", "notify"}
       THEN Ends("killed") /\ UNCHANGED signalled
       ELSE /\ mainPc = "wait" /\ signalled' = TRUE
            /\ UNCHANGED <<mainPc, exit, request>>
    /\ UNCHANGED <<starting, connected, server, expired, spans, refused, aborted, late>>

(***************************************************************************)
(* The server's goroutines.                                                *)
(***************************************************************************)
Listen ==
    /\ exit = "running" /\ serverPc = "starting"
    /\ \/ /\ serverPc' = "serving" /\ listener' = "listening"
          /\ UNCHANGED <<mainPc, exit, request>>
       \/ Ends("failed") /\ UNCHANGED server
    /\ UNCHANGED <<starting, connected, signalled, expired, spans, refused, aborted, late>>

\* An error of accept that is not a passing one ends fasthttp's loop.
AcceptFails ==
    /\ exit = "running" /\ listener = "listening"
    /\ Ends("failed")
    /\ UNCHANGED <<starting, connected, server, signalled, expired, spans, refused, aborted, late>>

\* Mutant: a listener that is closed is an error, as it is in net/http.
ListenReturnsError ==
    /\ exit = "running" /\ serverPc = "serving" /\ listener = "closed"
    /\ serverPc' = "done"
    /\ Ends("failed")
    /\ UNCHANGED <<starting, connected, listener, signalled, expired, spans, refused, aborted, late>>

\* fasthttp returns nil when its listener has been closed.
ListenReturns ==
    /\ exit = "running" /\ serverPc = "serving" /\ listener = "closed"
    /\ serverPc' = "done"
    /\ UNCHANGED <<starting, mainPc, exit, connected, listener, signalled, expired, spans, requests, late>>

onlyRequest == <<starting, mainPc, exit, connected, server, signalled, expired, late>>

Accept(r) ==
    /\ exit = "running" /\ listener = "listening" /\ request[r] = "none"
    /\ request' = [request EXCEPT ![r] = "running"]
    /\ UNCHANGED <<refused, aborted, spans, onlyRequest>>

\* Publish of the adapter: refused when it is not connected.
Ask(r) ==
    /\ exit = "running" /\ request[r] = "running"
    /\ request' = [request EXCEPT ![r] = "asked"]
    /\ refused' = IF connected THEN refused ELSE refused \cup {r}
    /\ UNCHANGED <<aborted, spans, onlyRequest>>

\* With tracing the context of Publish comes from the library's of the request;
\* the Kafka and the Azure client heed it.
PublishHeedsServer == cfg.EnableTracing /\ cfg.BrokerType \in {"kafka", "azure-servicebus"}

\* The library's contexts have ended, and the publish with them: it is answered
\* as a failure.
PublishAborted(r) ==
    /\ exit = "running" /\ listener = "closed" /\ PublishHeedsServer
    /\ request[r] = "asked" /\ r \notin refused \cup aborted
    /\ aborted' = aborted \cup {r}
    /\ UNCHANGED <<request, refused, spans, onlyRequest>>

\* The span ends with the answer; a tracer that was shut down drops it.
AnswerRequest(r) ==
    /\ exit = "running" /\ request[r] = "asked"
    /\ request' = [request EXCEPT ![r] = "answered"]
    /\ ended' = IF tracing = "on" THEN ended \cup {r} ELSE ended
    /\ UNCHANGED <<refused, aborted, tracing, exported, onlyRequest>>

\* The batch processor sends what it has every few seconds.
Export ==
    /\ exit = "running" /\ tracing = "on" /\ exported # ended
    /\ exported' = ended
    /\ UNCHANGED <<tracing, ended, requests, onlyRequest>>
-----------------------------------------------------------------------------
MainStep ==
    \/ LoadConfiguration \/ CheckDependencies \/ Observe \/ New \/ Spawn \/ Notify
    \/ Shutdown \/ Drained \/ Disconnect \/ Flush

Next ==
    \/ MainStep \/ DeadlinePasses \/ Signal
    \/ Listen \/ AcceptFails \/ ListenReturns \/ Export
    \/ \E r \in Requests : Accept(r) \/ Ask(r) \/ PublishAborted(r) \/ AnswerRequest(r)

(***************************************************************************)
(* main runs, its deadline passes and the goroutine that listens gets to   *)
(* run.  No request has to be answered.                                    *)
(***************************************************************************)
Fairness == WF_vars(MainStep) /\ WF_vars(DeadlinePasses) /\ WF_vars(Listen)

Spec == Init /\ [][Next]_vars

FairSpec == Spec /\ Fairness
-----------------------------------------------------------------------------
(***************************************************************************)
(* Properties.                                                             *)
(***************************************************************************)

\* A server that listens has what its parts take for granted: an adapter for its
\* broker type, an API key (Auth lets everybody in without one) and a limiter
\* with the allowance it was asked for (Fiber puts its own in the place of one
\* that is not positive; config.go, Validate against NewManager, Auth and
\* setupMiddleware).
ServesOnlyUsable ==
    listener # "none" =>
        /\ ManagerAccepts(cfg) /\ LoggerAccepts(cfg)
        /\ Gateway(cfg).keyConfigured
        /\ Gateway(cfg).limited => Gateway(cfg).max > 0

\* A request that was accepted is not turned away or cut by a shutdown within
\* the deadline, unless the signal came before the server listened; and its
\* publish is not aborted, unless tracing hands it the context of the server
\* (server.go, Shutdown: the listener and the requests first, the broker
\* afterwards).
ShutdownSparesRequests ==
    \A r \in Requests :
        /\ r \in refused \/ (exit = "ok" /\ request[r] = "cut") => expired \/ late
        /\ r \in aborted => PublishHeedsServer /\ listener = "closed"

\* A shutdown does not make a publish fail that is under way while there is time
\* to finish it (server.go:79, "gracefully shuts down the server").
ShutdownLetsPublishesFinish ==
    \A r \in Requests : r \in aborted => expired

\* The process does not return 0 with the broker connected or with spans it was
\* given unsent, unless the exporter gave up (main.go, the deferred calls, also
\* after a Shutdown that ran out of time).
CleanExit ==
    exit = "ok" =>
        /\ ~connected
        /\ ended = exported \/ tracing = "abandoned"

\* log.Fatal in the goroutine that listens, which skips the rest of a shutdown and
\* all that is deferred, is not what closing the listener leads to (main.go:100
\* against server.go, Shutdown).
FatalSparesShutdown == exit = "failed" => listener # "closed"

\* A signal that was caught ends the process, whatever the requests do
\* (main.go:108, the deadline of the shutdown).
EndsAfterSignal == signalled ~> exit # "running"
=============================================================================
