----------------------- MODULE ServiceLifecycleProofs -----------------------
(***************************************************************************)
(* Proofs about ServiceLifecycle: whatever the environment, a process that *)
(* serves is configured for it, a shutdown spares its requests - but the   *)
(* publishes that heed the server's context - and its clean-up is complete *)
(***************************************************************************)
EXTENDS ServiceLifecycle, TLAPS

-----------------------------------------------------------------------------
\* What main has got hold of, up to the place it has reached.
Prepared ==
    /\ mainPc \notin {"load", "exited"} \/ serverPc # "none" => cfg = Load(env) /\ Validate(cfg)
    /\ unhealthy = 0
    /\ mainPc \in {"spawn", "notify", "wait", "drain", "disconnect"} => connected
    /\ mainPc \in {"load", "check", "observe"} => tracing = "off"
    /\ mainPc \in {"load", "check", "observe", "new", "spawn"} => serverPc = "none"
    /\ mainPc \notin {"drain", "disconnect", "flush", "exited"} => ~expired /\ ~late

\* The listener and the goroutine it belongs to; without it nobody comes.
Listening ==
    /\ serverPc \in {"none", "starting"} <=> listener = "none"
    /\ listener = "none" => \A r \in Requests : request[r] = "none"
    /\ listener = "closed" => mainPc \in {"drain", "disconnect", "flush", "exited"}
    /\ mainPc = "drain" => listener = "closed"
    /\ listener # "closed" => aborted = {}

\* Once the adapter is disconnected only those are left that came late or whose
\* time is over.
Spared ==
    /\ mainPc # "exited" => \A r \in Requests : request[r] # "cut"
    /\ mainPc \in {"disconnect", "flush"} =>
          late \/ (listener = "closed" /\ (expired \/ InFlight = {}))
    /\ ShutdownSparesRequests

\* The end of the process and what it leaves.
Ended ==
    /\ mainPc = "exited" <=> exit # "running"
    /\ tracing = "off" => ended = {} /\ exported = {}
    /\ mainPc = "flush" => ~connected
    /\ tracing \in {"flushed", "abandoned"} => exit = "ok"
    /\ CleanExit /\ FatalSparesShutdown

LInv == TypeOK /\ Prepared /\ Listening /\ Spared /\ Ended
-----------------------------------------------------------------------------
\* What Validate has accepted is good for the logger, the manager, the key check
\* and the limiter (config.go against logger.go, broker.go and server.go).
LEMMA ValidIsUsable ==
    ASSUME NEW c, Validate(c)
    PROVE  /\ ManagerAccepts(c) /\ LoggerAccepts(c)
           /\ Gateway(c).keyConfigured
           /\ Gateway(c).limited => Gateway(c).max > 0
BY DEF Validate, ValidateBroker, ManagerAccepts, LoggerAccepts, Gateway

\* Of the configuration Load builds, the field the next lemma needs.
LEMMA LoadedBrokers ==
    ASSUME NEW e
    PROVE  Load(e).Brokers = getEnvSlice(e.KAFKA_BROKERS, <<"localhost:9092">>)
BY DEF Load

\* The dependency check finds nothing wrong with a configuration that Validate
\* has accepted (dependency_checker.go against config.go).
LEMMA ValidIsHealthy ==
    ASSUME NEW e \in Environments, Validate(Load(e))
    PROVE  Unhealthy(Load(e)) = 0
<1> DEFINE c == Load(e)
<1>1. c.Brokers = getEnvSlice(e.KAFKA_BROKERS, <<"localhost:9092">>)
  BY LoadedBrokers
<1>2. c.Brokers # <<>> => Len(c.Brokers) > 0
  BY <1>1, BrokersAreLists DEF getEnvSlice
<1>3. ValidateBroker(c)
  BY DEF Validate
<1> HIDE DEF c
<1>4. Unhealthy(c) = 0
  BY <1>2, <1>3 DEF Unhealthy, ValidateBroker
<1>5. QED
  BY <1>4 DEF c
-----------------------------------------------------------------------------
\* The initial states satisfy the invariant.
LEMMA LInvInit == Init => LInv
BY DEF Init, LInv, TypeOK, MainPcs, Prepared, Listening, Spared, InFlight,
       ShutdownSparesRequests, Ended, CleanExit, FatalSparesShutdown

\* Every step keeps the invariant: main first, then the signals, the goroutine
\* that listens and the requests.
LEMMA LInvNext == LInv /\ [Next]_vars => LInv'
<1> SUFFICES ASSUME LInv, [Next]_vars PROVE LInv'
  OBVIOUS
<1> USE DEF LInv, TypeOK, MainPcs, Prepared, Listening, Spared, InFlight,
            ShutdownSparesRequests, Ended, CleanExit, FatalSparesShutdown,
            PublishHeedsServer, starting, server, spans, requests
<1>1. CASE LoadConfiguration
  BY <1>1 DEF LoadConfiguration, Ends, StillRuns, onlyStart
<1>2. CASE CheckDependencies
  <2>1. unhealthy' = 0
    BY <1>2, ValidIsHealthy DEF CheckDependencies
  <2>2. QED
    BY <1>2, <2>1 DEF CheckDependencies, StillRuns, onlyStart
<1>3. CASE Observe
  BY <1>3 DEF Observe, Ends, StillRuns, onlyStart
<1>4. CASE New
  BY <1>4 DEF New, Ends, StillRuns, onlyStart
<1>5. CASE Spawn
  BY <1>5 DEF Spawn, StillRuns
<1>6. CASE Notify
  BY <1>6 DEF Notify, StillRuns
<1>7. CASE Shutdown
  <2>1. expired' \in BOOLEAN
    <3>1. expired' = (cfg.ShutdownTimeout <= 0)
      BY <1>7 DEF Shutdown
    <3>2. QED
      BY <3>1
  <2>2. QED
    BY <1>7, <2>1 DEF Shutdown, StillRuns
<1>8. CASE Drained
  BY <1>8 DEF Drained, StillRuns
<1>9. CASE Disconnect
  BY <1>9 DEF Disconnect, StillRuns
<1>10. CASE Flush
  BY <1>10 DEF Flush, Ends
<1>11. CASE DeadlinePasses
  BY <1>11 DEF DeadlinePasses
<1>12. CASE Signal
  <2>1. CASE Ends("killed")
    BY <1>12, <2>1 DEF Signal, Ends
  <2>2. CASE mainPc = "wait" /\ signalled' = TRUE /\ UNCHANGED <<mainPc, exit, request>>
    BY <1>12, <2>2 DEF Signal
  <2>3. QED
    BY <1>12, <2>1, <2>2 DEF Signal
<1>13. CASE Listen
  BY <1>13 DEF Listen, Ends
<1>14. CASE AcceptFails
  BY <1>14 DEF AcceptFails, Ends
<1>15. CASE ListenReturns
  BY <1>15 DEF ListenReturns
<1>16. ASSUME NEW r \in Requests, Accept(r) PROVE LInv'
  BY <1>16 DEF Accept, onlyRequest
<1>17. ASSUME NEW r \in Requests, Ask(r) PROVE LInv'
  BY <1>17 DEF Ask, onlyRequest
<1>18. ASSUME NEW r \in Requests, PublishAborted(r) PROVE LInv'
  BY <1>18 DEF PublishAborted, onlyRequest
<1>19. ASSUME NEW r \in Requests, AnswerRequest(r) PROVE LInv'
  BY <1>19 DEF AnswerRequest, onlyRequest
<1>20. CASE Export
  BY <1>20 DEF Export, onlyRequest
<1>21. CASE UNCHANGED vars
  BY <1>21 DEF vars
<1>22. QED
  BY <1>1, <1>2, <1>3, <1>4, <1>5, <1>6, <1>7, <1>8, <1>9, <1>10,
     <1>11, <1>12, <1>13, <1>14, <1>15, <1>16, <1>17, <1>18, <1>19, <1>20, <1>21
  DEF Next, MainStep

\* The invariant holds throughout: whatever the place of main, the listener and the
\* requests are where the steps of Shutdown leave them, and no request is aborted
\* before the listener is closed.
THEOREM LifecycleInvariance == Spec => []LInv
<1>1. QED
  BY LInvInit, LInvNext, PTL DEF Spec
-----------------------------------------------------------------------------
\* The variables keep their types, whatever the environments and requests.
THEOREM LifecycleTypeCorrect == Spec => []TypeOK
<1>1. LInv => TypeOK
  BY DEF LInv
<1>2. QED
  BY <1>1, LifecycleInvariance, PTL

\* A server that listens has an adapter, an API key and an allowance that the
\* limiter takes as it is (config.go, Validate).
THEOREM ServesOnlyTheUsable == Spec => []ServesOnlyUsable
<1>1. LInv => ServesOnlyUsable
  BY ValidIsUsable DEF LInv, Prepared, Listening, ServesOnlyUsable
<1>2. QED
  BY <1>1, LifecycleInvariance, PTL

\* The dependency check asks for nothing that Validate has not asked for: it
\* finds no dependency unhealthy, whether there is a broker or not
\* (dependency_checker.go, CheckDependencies after config.Load).
CheckFindsNothing == unhealthy = 0

\* The check at start-up never finds a dependency missing, whatever the
\* environment.
THEOREM TheCheckFindsNothing == Spec => []CheckFindsNothing
<1>1. LInv => CheckFindsNothing
  BY DEF LInv, Prepared, CheckFindsNothing
<1>2. QED
  BY <1>1, LifecycleInvariance, PTL

\* Within the deadline a shutdown turns no request away and cuts none, and aborts no
\* publish but those that have the server's context from the tracing middleware and
\* heed it (server.go:84, tracing.go:38 and 59).
THEOREM ShutdownIsGraceful == Spec => []ShutdownSparesRequests
<1>1. LInv => ShutdownSparesRequests
  BY DEF LInv, Spared
<1>2. QED
  BY <1>1, LifecycleInvariance, PTL

\* A process that returns 0 has disconnected and has sent its spans, or has tried
\* to (main.go, the deferred calls).
THEOREM ExitIsClean == Spec => []CleanExit
<1>1. LInv => CleanExit
  BY DEF LInv, Ended
<1>2. QED
  BY <1>1, LifecycleInvariance, PTL

\* Closing the listener does not lead to log.Fatal (main.go:100).
THEOREM FatalDoesNotCutShutdown == Spec => []FatalSparesShutdown
<1>1. LInv => FatalSparesShutdown
  BY DEF LInv, Ended
<1>2. QED
  BY <1>1, LifecycleInvariance, PTL
=============================================================================
