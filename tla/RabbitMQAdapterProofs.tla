----------------------- MODULE RabbitMQAdapterProofs -----------------------
(***************************************************************************)
(* Proofs about RabbitMQAdapter.  The first inductive invariant says who   *)
(* holds which lock and what each call of Publish has done so far; it      *)
(* carries the counters and the contract of Publish.  The second relates   *)
(* the adapter's fields to the connections of the library, for an owner    *)
(* that connects once, as the service does.                                *)
(***************************************************************************)
EXTENDS RabbitMQAdapter, RWMutexProofs, FiniteSetTheorems, TLAPS
-----------------------------------------------------------------------------
\* Who holds stats.mu; a call past the lock has no reader beside it.
StatsMuHeld ==
    /\ statsMu.writer \subseteq Calls
    /\ \A p, q \in statsMu.writer : p = q
    /\ \A c \in Calls : c \in statsMu.writer <=> callPc[c] \in {"counting", "storing"}
    /\ \A h \in Probes : h \in statsMu.readers <=> probePc[h] \in {"inStats", "counted"}
    /\ \A c \in Calls : callPc[c] = "storing" => statsMu.readers = {}

\* The answer of a call and where it is; a message is on the wire exactly if
\* the answer is, or will be, nil.
CallProgress ==
    \A c \in Calls :
        /\ callPc[c] \in {"idle", "called", "check", "ready"} <=> result[c] = "none"
        /\ callPc[c] \in {"stats", "counting", "storing"} => result[c] \in {"ok", "error"}
        /\ c \in handed <=> result[c] = "ok"
        /\ callPc[c] = "ready" => snapshot[c] # Nil

\* A counter loaded is still the counter's value when it is stored.
LoadedCurrent ==
    \A c \in Calls :
        callPc[c] = "storing" =>
            loaded[c] = IF result[c] = "ok" THEN published ELSE failed

IInv ==
    /\ TypeOK
    /\ StatsMuHeld
    /\ CallProgress
    /\ LoadedCurrent
    /\ CountersExact
    /\ StatsFromOneInstant
-----------------------------------------------------------------------------
\* Closing a connection or a channel keeps the library's state well typed.
LEMMA CloseTypes ==
    ASSUME TypeOK, NEW c
    PROVE  /\ CloseConnection(c) \in [Conns -> ConnStates]
           /\ CloseChannel(c) \in [Conns -> ChanStates]
BY DEF TypeOK, CloseConnection, CloseChannel, ConnStates, ChanStates

\* The initial state is well typed.
LEMMA TypeInit == Init => TypeOK
<1> SUFFICES ASSUME Init PROVE TypeOK
  OBVIOUS
<1>1. Unlocked \in LockValue(Goroutines)
  BY DEF Unlocked, LockValue
<1>2. \A h \in Probes : seen[h] \in Nat \X Nat
  BY DEF Init
<1>3. seen \in [Probes -> Nat \X Nat]
  BY <1>2 DEF Init
<1>4. QED
  BY <1>1, <1>3 DEF Init, TypeOK, ConnStates, ChanStates, MainPcs, CallPcs, Results,
                    ProbePcs, Statuses, WatchPcs

\* What the owner does keeps the state well typed.
LEMMA TypeOwner ==
    ASSUME TypeOK, ConnectCall \/ DisconnectCall \/ OwnerStep
    PROVE  TypeOK'
<1> USE DEF adapter, counters, library, owner, publishing, probing, watching
<1>0. /\ Announce(mu, Main) \in LockValue(Goroutines)
      /\ Unlock(mu) \in LockValue(Goroutines)
  BY LockOperations DEF TypeOK, Goroutines
<1>1. CASE ConnectCall
  BY <1>0, <1>1 DEF TypeOK, ConnectCall, MainPcs
<1>2. CASE ConnectDial
  BY <1>0, <1>2 DEF TypeOK, ConnectDial, MainPcs, ConnStates
<1>3. ASSUME ConnectFailed, UNCHANGED <<counters, statsMu, publishing, probing>>
      PROVE  TypeOK'
  BY <1>0, <1>3, CloseTypes DEF TypeOK, ConnectFailed, MainPcs
<1>4. CASE ConnectChannel
  BY <1>0, <1>4, <1>3 DEF TypeOK, ConnectChannel, MainPcs, ChanStates
<1>5. CASE ConnectDeclare
  BY <1>0, <1>5, <1>3 DEF TypeOK, ConnectDeclare, ConnectDone, MainPcs, WatchPcs
<1>6. CASE DisconnectCall
  BY <1>0, <1>6 DEF TypeOK, DisconnectCall, MainPcs
<1>7. CASE DisconnectCheck
  BY <1>0, <1>7 DEF TypeOK, DisconnectCheck, MainPcs
<1>8. CASE DisconnectChannel
  BY <1>0, <1>8, CloseTypes DEF TypeOK, DisconnectChannel, MainPcs
<1>9. CASE DisconnectConn
  BY <1>0, <1>9, CloseTypes DEF TypeOK, DisconnectConn, MainPcs
<1>10. QED
  BY <1>1, <1>2, <1>4, <1>5, <1>6, <1>7, <1>8, <1>9 DEF OwnerStep

\* What a call of Publish does keeps the state well typed.
LEMMA TypePublish ==
    ASSUME TypeOK, NEW c \in Calls, PublishCall(c) \/ PublishStep(c)
    PROVE  TypeOK'
<1> USE DEF adapter, counters, library, owner, publishing, probing, watching
<1>0. /\ RLock(mu, c) \in LockValue(Goroutines)
      /\ RUnlock(mu, c) \in LockValue(Goroutines)
      /\ Announce(statsMu, c) \in LockValue(Goroutines)
      /\ Unlock(statsMu) \in LockValue(Goroutines)
  BY LockOperations DEF TypeOK, Goroutines
<1>1. CASE PublishCall(c)
  BY <1>1 DEF TypeOK, PublishCall, CallPcs
<1>2. CASE PublishRLock(c)
  BY <1>0, <1>2 DEF TypeOK, PublishRLock, CallPcs
<1>3. CASE PublishCheck(c)
  BY <1>0, <1>3 DEF TypeOK, PublishCheck, Answer, CallPcs, Results
<1>4. CASE PublishReject(c)
  BY <1>4 DEF TypeOK, PublishReject, Answer, CallPcs, Results
<1>5. CASE PublishSend(c)
  BY <1>5 DEF TypeOK, PublishSend, Answer, CallPcs, Results
<1>6. CASE UpdateStatsLock(c)
  BY <1>0, <1>6 DEF TypeOK, UpdateStatsLock, CallPcs
<1>7. CASE UpdateStatsLoad(c)
  BY <1>7 DEF TypeOK, UpdateStatsLoad, CallPcs
<1>8. CASE UpdateStatsStore(c)
  BY <1>0, <1>8 DEF TypeOK, UpdateStatsStore, CallPcs
<1>9. QED
  BY <1>1, <1>2, <1>3, <1>4, <1>5, <1>6, <1>7, <1>8 DEF PublishStep

\* What a health or stats request does keeps the state well typed.
LEMMA TypeProbe ==
    ASSUME TypeOK, NEW h \in Probes, HealthCall(h) \/ StatsCall(h) \/ ProbeStep(h)
    PROVE  TypeOK'
<1> USE DEF adapter, counters, library, owner, publishing, probing, watching
<1>0. /\ RLock(statsMu, h) \in LockValue(Goroutines)
      /\ RUnlock(statsMu, h) \in LockValue(Goroutines)
  BY LockOperations DEF TypeOK, Goroutines
<1>1. CASE HealthCall(h)
  BY <1>1 DEF TypeOK, HealthCall, ProbePcs
<1>2. CASE StatsCall(h)
  BY <1>2 DEF TypeOK, StatsCall, ProbePcs
<1>3. CASE HealthStatus(h)
  BY <1>3 DEF TypeOK, HealthStatus, ProbePcs, Statuses
<1>4. CASE GetStatsLock(h)
  BY <1>0, <1>4 DEF TypeOK, GetStatsLock, ProbePcs
<1>5. CASE GetStatsCounters(h)
  BY <1>5 DEF TypeOK, GetStatsCounters, ProbePcs
<1>6. CASE GetStats(h)
  <2>1. IsHealthy \in BOOLEAN
    BY DEF TypeOK, IsHealthy
  <2>2. QED
    BY <1>0, <1>6, <2>1 DEF TypeOK, GetStats, ProbePcs
<1>7. QED
  BY <1>1, <1>2, <1>3, <1>4, <1>5, <1>6 DEF ProbeStep

\* What a watcher does keeps the state well typed.
LEMMA TypeWatch ==
    ASSUME TypeOK, NEW w \in Conns, WatchStep(w)
    PROVE  TypeOK'
<1> USE DEF adapter, counters, library, owner, publishing, probing, watching
<1>0. /\ Announce(mu, w) \in LockValue(Goroutines)
      /\ Unlock(mu) \in LockValue(Goroutines)
  BY LockOperations DEF TypeOK, Goroutines
<1>1. CASE WatchRegister(w)
  BY <1>1 DEF TypeOK, WatchRegister, WatchPcs
<1>2. CASE WatchClosed(w)
  BY <1>2 DEF TypeOK, WatchClosed, WatchPcs
<1>3. CASE WatchLost(w)
  BY <1>0, <1>3 DEF TypeOK, WatchLost, WatchPcs
<1>4. CASE WatchClear(w)
  BY <1>0, <1>4 DEF TypeOK, WatchClear, WatchPcs
<1>5. QED
  BY <1>1, <1>2, <1>3, <1>4 DEF WatchStep

\* Losing a connection or a channel keeps the state well typed.
LEMMA TypeLoss ==
    ASSUME TypeOK, NEW c \in Conns, ConnectionLost(c) \/ ChannelLost(c)
    PROVE  TypeOK'
<1> USE DEF adapter, counters, library, owner, publishing, probing, watching
<1>1. CASE ConnectionLost(c)
  BY <1>1, CloseTypes DEF TypeOK, ConnectionLost, ConnStates
<1>2. CASE ChannelLost(c)
  BY <1>2, CloseTypes DEF TypeOK, ChannelLost
<1>3. QED
  BY <1>1, <1>2

\* Every step keeps the state well typed.
LEMMA TypeStep ==
    ASSUME TypeOK, [Next]_vars
    PROVE  TypeOK'
<1>1. CASE Next
  BY <1>1, TypeOwner, TypePublish, TypeProbe, TypeWatch, TypeLoss DEF Next
<1>2. CASE UNCHANGED vars
  BY <1>2 DEF TypeOK, vars, adapter, counters, library, owner, publishing, probing, watching
<1>3. QED
  BY <1>1, <1>2

\* Type correctness: every variable of the adapter keeps its type, whatever
\* the number of calls, probes and connections.
THEOREM TypeCorrect == Spec => []TypeOK
<1>1. QED
  BY TypeInit, TypeStep, PTL DEF Spec

-----------------------------------------------------------------------------
\* The part of the state the counters and the contract are about.
accounting == <<counters, statsMu, publishing, probing>>

\* The owner, the watchers and the losses leave it alone.
LEMMA OthersFrame ==
    ASSUME \/ ConnectCall \/ DisconnectCall \/ OwnerStep
           \/ \E w \in Conns : WatchStep(w)
           \/ \E c \in Conns : ConnectionLost(c) \/ ChannelLost(c)
    PROVE  UNCHANGED accounting
<1> USE DEF accounting, counters, publishing, probing
<1>1. CASE ConnectCall \/ DisconnectCall
  BY <1>1 DEF ConnectCall, DisconnectCall
<1>2. CASE OwnerStep
  BY <1>2 DEF OwnerStep, ConnectDial, ConnectChannel, ConnectDeclare,
              DisconnectCheck, DisconnectChannel, DisconnectConn
<1>3. ASSUME NEW w \in Conns, WatchStep(w) PROVE UNCHANGED accounting
  BY <1>3 DEF WatchStep, WatchRegister, WatchClosed, WatchLost, WatchClear
<1>4. ASSUME NEW c \in Conns, ConnectionLost(c) \/ ChannelLost(c)
      PROVE  UNCHANGED accounting
  BY <1>4 DEF ConnectionLost, ChannelLost
<1>5. QED
  BY <1>1, <1>2, <1>3, <1>4

\* A step is one of a publish, one of a probe, or leaves the accounting alone.
LEMMA StepKinds ==
    ASSUME [Next]_vars
    PROVE  \/ \E c \in Calls : PublishCall(c) \/ PublishStep(c)
           \/ \E h \in Probes : HealthCall(h) \/ StatsCall(h) \/ ProbeStep(h)
           \/ UNCHANGED accounting
<1>1. CASE Next
  BY <1>1, OthersFrame DEF Next
<1>2. CASE UNCHANGED vars
  BY <1>2 DEF vars, accounting
<1>3. QED
  BY <1>1, <1>2

\* A probe does not touch the counters or the calls.
LEMMA ProbeFrame ==
    ASSUME NEW h \in Probes, HealthCall(h) \/ StatsCall(h) \/ ProbeStep(h)
    PROVE  UNCHANGED <<counters, publishing>>
BY DEF counters, publishing, HealthCall, StatsCall, ProbeStep, HealthStatus,
       GetStatsLock, GetStatsCounters, GetStats

\* A call does not touch the probes.
LEMMA PublishFrame ==
    ASSUME NEW c \in Calls, PublishCall(c) \/ PublishStep(c)
    PROVE  UNCHANGED probing
BY DEF probing, PublishCall, PublishStep, PublishRLock, PublishCheck, PublishReject,
       PublishSend, UpdateStatsLock, UpdateStatsLoad, UpdateStatsStore
-----------------------------------------------------------------------------
\* The calls and probes that hold stats.mu are those that say so.
LEMMA StatsMuStep ==
    ASSUME TypeOK, StatsMuHeld, [Next]_vars
    PROVE  StatsMuHeld'
<1>0. statsMu \in [readers : SUBSET Goroutines, writer : SUBSET Goroutines]
  BY DEF TypeOK, LockValue
<1>1. ASSUME NEW c \in Calls, PublishCall(c) \/ PublishStep(c)
      PROVE  StatsMuHeld'
  <2>0. /\ callPc \in [Calls -> CallPcs] /\ UNCHANGED probePc
        /\ \A d \in Calls : c # d => callPc'[d] = callPc[d]
    BY <1>1, PublishFrame
       DEF TypeOK, probing, PublishCall, PublishStep, PublishRLock, PublishCheck,
           PublishReject, PublishSend, UpdateStatsLock, UpdateStatsLoad,
           UpdateStatsStore, Answer
  <2>1. CASE PublishCall(c) \/ PublishRLock(c) \/ PublishCheck(c) \/ PublishReject(c)
             \/ PublishSend(c)
    <3>1. UNCHANGED statsMu
      BY <2>1 DEF PublishCall, PublishRLock, PublishCheck, PublishReject, PublishSend
    <3>2. callPc[c] \notin {"counting", "storing"} /\ callPc'[c] \notin {"counting", "storing"}
      BY <2>0, <2>1 DEF PublishCall, PublishRLock, PublishCheck, PublishReject,
                        PublishSend, Answer
    <3>3. QED
      BY <2>0, <3>1, <3>2 DEF StatsMuHeld
  <2>2. CASE UpdateStatsLock(c)
    <3>1. /\ statsMu.writer = {} /\ statsMu'.writer = {c}
          /\ statsMu'.readers = statsMu.readers
      BY <1>0, <2>2 DEF UpdateStatsLock, CanAnnounce, Announce
    <3>2. callPc'[c] = "counting"
      BY <2>0, <2>2 DEF UpdateStatsLock
    <3>3. QED
      BY <2>0, <3>1, <3>2 DEF StatsMuHeld
  <2>3. CASE UpdateStatsLoad(c)
    <3>1. /\ statsMu.writer = {c} /\ statsMu.readers = {} /\ UNCHANGED statsMu
      BY <2>3 DEF UpdateStatsLoad, CanEnter
    <3>2. callPc[c] = "counting" /\ callPc'[c] = "storing"
      BY <2>0, <2>3 DEF UpdateStatsLoad
    <3>3. QED
      BY <2>0, <3>1, <3>2 DEF StatsMuHeld
  <2>4. CASE UpdateStatsStore(c)
    <3>1. statsMu'.writer = {} /\ statsMu'.readers = statsMu.readers
      BY <1>0, <2>4 DEF UpdateStatsStore, Unlock
    <3>2. callPc[c] = "storing" /\ callPc'[c] = "done"
      BY <2>0, <2>4 DEF UpdateStatsStore
    <3>3. c \in statsMu.writer
      BY <3>2 DEF StatsMuHeld
    <3>4. QED
      BY <2>0, <3>1, <3>2, <3>3 DEF StatsMuHeld
  <2>5. QED
    BY <1>1, <2>1, <2>2, <2>3, <2>4 DEF PublishStep
<1>2. ASSUME NEW h \in Probes, HealthCall(h) \/ StatsCall(h) \/ ProbeStep(h)
      PROVE  StatsMuHeld'
  <2>0. /\ probePc \in [Probes -> ProbePcs] /\ UNCHANGED callPc
        /\ \A g \in Probes : g # h => probePc'[g] = probePc[g]
    BY <1>2, ProbeFrame
       DEF TypeOK, publishing, HealthCall, StatsCall, ProbeStep, HealthStatus,
           GetStatsLock, GetStatsCounters, GetStats
  <2>1. CASE HealthCall(h) \/ StatsCall(h) \/ HealthStatus(h) \/ GetStatsCounters(h)
    <3>1. UNCHANGED statsMu
      BY <2>1 DEF HealthCall, StatsCall, HealthStatus, GetStatsCounters
    <3>2. probePc[h] \in {"inStats", "counted"} <=> probePc'[h] \in {"inStats", "counted"}
      BY <2>0, <2>1 DEF HealthCall, StatsCall, HealthStatus, GetStatsCounters
    <3>3. QED
      BY <2>0, <3>1, <3>2 DEF StatsMuHeld
  <2>2. CASE GetStatsLock(h)
    <3>1. /\ statsMu.writer = {} /\ statsMu'.writer = {}
          /\ statsMu'.readers = statsMu.readers \cup {h}
      BY <1>0, <2>2 DEF GetStatsLock, CanRLock, RLock
    <3>2. probePc'[h] = "inStats"
      BY <2>0, <2>2 DEF GetStatsLock
    <3>3. QED
      BY <2>0, <3>1, <3>2 DEF StatsMuHeld
  <2>3. CASE GetStats(h)
    <3>1. statsMu'.writer = statsMu.writer /\ statsMu'.readers = statsMu.readers \ {h}
      BY <1>0, <2>3 DEF GetStats, RUnlock
    <3>2. probePc'[h] = "done"
      BY <2>0, <2>3 DEF GetStats
    <3>3. QED
      BY <2>0, <3>1, <3>2 DEF StatsMuHeld
  <2>4. QED
    BY <1>2, <2>1, <2>2, <2>3 DEF ProbeStep
<1>3. CASE UNCHANGED accounting
  BY <1>3 DEF accounting, publishing, probing, StatsMuHeld
<1>4. QED
  BY <1>1, <1>2, <1>3, StepKinds

\* The answer of a call follows its progress through Publish.
LEMMA ProgressStep ==
    ASSUME TypeOK, CallProgress, [Next]_vars
    PROVE  CallProgress'
<1>1. ASSUME NEW c \in Calls, PublishCall(c) \/ PublishStep(c)
      PROVE  CallProgress'
  <2> USE <1>1 DEF TypeOK, CallProgress, Answer
  <2>1. CASE PublishCall(c)
    BY <2>1 DEF PublishCall
  <2>2. CASE PublishRLock(c)
    BY <2>2 DEF PublishRLock
  <2>3. CASE PublishCheck(c)
    BY <2>3 DEF PublishCheck
  <2>4. CASE PublishReject(c)
    BY <2>4 DEF PublishReject
  <2>5. CASE PublishSend(c)
    BY <2>5 DEF PublishSend
  <2>6. CASE UpdateStatsLock(c)
    BY <2>6 DEF UpdateStatsLock
  <2>7. CASE UpdateStatsLoad(c)
    BY <2>7 DEF UpdateStatsLoad
  <2>8. CASE UpdateStatsStore(c)
    BY <2>8 DEF UpdateStatsStore
  <2>9. QED
    BY <1>1, <2>1, <2>2, <2>3, <2>4, <2>5, <2>6, <2>7, <2>8 DEF PublishStep
<1>2. CASE UNCHANGED publishing
  BY <1>2 DEF publishing, CallProgress
<1>3. QED
  BY <1>1, <1>2, StepKinds, ProbeFrame DEF accounting

\* Between the load and the store of one call no other call stores.
LEMMA LoadedStep ==
    ASSUME TypeOK, StatsMuHeld, CallProgress, LoadedCurrent, [Next]_vars
    PROVE  LoadedCurrent'
<1>1. ASSUME NEW c \in Calls, PublishCall(c) \/ PublishStep(c)
      PROVE  LoadedCurrent'
  <2> USE <1>1 DEF TypeOK, CallProgress, LoadedCurrent, counters, Answer
  <2>1. CASE PublishCall(c)
    BY <2>1 DEF PublishCall
  <2>2. CASE PublishRLock(c)
    BY <2>2 DEF PublishRLock
  <2>3. CASE PublishCheck(c)
    BY <2>3 DEF PublishCheck
  <2>4. CASE PublishReject(c)
    BY <2>4 DEF PublishReject
  <2>5. CASE PublishSend(c)
    BY <2>5 DEF PublishSend
  <2>6. CASE UpdateStatsLock(c)
    BY <2>6 DEF UpdateStatsLock
  <2>7. CASE UpdateStatsLoad(c)
    BY <2>7 DEF UpdateStatsLoad
  <2>8. CASE UpdateStatsStore(c)
    <3>1. ASSUME NEW d \in Calls, d # c PROVE callPc'[d] # "storing"
      <4>1. callPc[d] # "storing"
        BY <2>8, <3>1 DEF UpdateStatsStore, StatsMuHeld
      <4>2. QED
        BY <2>8, <3>1, <4>1 DEF UpdateStatsStore
    <3>2. callPc'[c] = "done"
      BY <2>8 DEF UpdateStatsStore
    <3>3. QED
      BY <3>1, <3>2
  <2>9. QED
    BY <1>1, <2>1, <2>2, <2>3, <2>4, <2>5, <2>6, <2>7, <2>8 DEF PublishStep
<1>2. CASE UNCHANGED <<counters, publishing>>
  BY <1>2 DEF counters, publishing, LoadedCurrent
<1>3. QED
  BY <1>1, <1>2, StepKinds, ProbeFrame DEF accounting

\* No store happens while a probe holds stats.mu with the counters it read.
LEMMA OneInstantStep ==
    ASSUME TypeOK, StatsMuHeld, StatsFromOneInstant, [Next]_vars
    PROVE  StatsFromOneInstant'
<1>1. ASSUME NEW c \in Calls, PublishCall(c) \/ PublishStep(c)
      PROVE  StatsFromOneInstant'
  <2>1. CASE UpdateStatsStore(c)
    <3>1. callPc[c] = "storing"
      BY <2>1 DEF UpdateStatsStore
    <3>2. \A h \in Probes : probePc[h] # "counted"
      BY <3>1 DEF StatsMuHeld
    <3>3. QED
      BY <1>1, <3>2, PublishFrame DEF probing, StatsFromOneInstant
  <2>2. CASE UNCHANGED counters
    BY <1>1, <2>2, PublishFrame DEF probing, StatsFromOneInstant
  <2>3. QED
    BY <1>1, <2>1, <2>2
       DEF PublishCall, PublishStep, PublishRLock, PublishCheck, PublishReject,
           PublishSend, UpdateStatsLock, UpdateStatsLoad
<1>2. ASSUME NEW h \in Probes, HealthCall(h) \/ StatsCall(h) \/ ProbeStep(h)
      PROVE  StatsFromOneInstant'
  <2> USE DEF TypeOK, StatsFromOneInstant
  <2>0. UNCHANGED counters
    BY <1>2, ProbeFrame
  <2>1. CASE HealthCall(h)
    BY <2>0, <2>1 DEF HealthCall
  <2>2. CASE StatsCall(h)
    BY <2>0, <2>2 DEF StatsCall
  <2>3. CASE HealthStatus(h)
    BY <2>0, <2>3 DEF HealthStatus
  <2>4. CASE GetStatsLock(h)
    BY <2>0, <2>4 DEF GetStatsLock
  <2>5. CASE GetStatsCounters(h)
    BY <2>0, <2>5 DEF GetStatsCounters
  <2>6. CASE GetStats(h)
    BY <2>0, <2>6 DEF GetStats
  <2>7. QED
    BY <1>2, <2>1, <2>2, <2>3, <2>4, <2>5, <2>6 DEF ProbeStep
<1>3. CASE UNCHANGED accounting
  BY <1>3 DEF accounting, probing, StatsFromOneInstant
<1>4. QED
  BY <1>1, <1>2, <1>3, StepKinds

\* The calls that have returned with answer r.
Returned(r) == {c \in Calls : callPc[c] = "done" /\ result[c] = r}

\* Every store adds one to the counter of the answer and one call to those
\* that have returned with it.
LEMMA CountersStep ==
    ASSUME TypeOK, CallProgress, LoadedCurrent, CountersExact, [Next]_vars
    PROVE  CountersExact'
<1>0. /\ published = Cardinality(Returned("ok"))
      /\ failed = Cardinality(Returned("error"))
  BY DEF CountersExact, Returned
<1>1. ASSUME NEW c \in Calls, PublishCall(c) \/ PublishStep(c)
      PROVE  CountersExact'
  <2>1. CASE UpdateStatsStore(c)
    <3>1. ASSUME NEW r \in {"ok", "error"}
          PROVE  /\ r = result[c] => /\ Returned(r)' = Returned(r) \cup {c}
                                     /\ c \notin Returned(r)
                 /\ r # result[c] => Returned(r)' = Returned(r)
      BY <2>1 DEF TypeOK, UpdateStatsStore, Returned
    <3>2. \A r : IsFiniteSet(Returned(r))
      BY FiniteCalls, FS_Subset DEF Returned
    <3>3. \A r \in {"ok", "error"} :
             r = result[c] => Cardinality(Returned(r)') = Cardinality(Returned(r)) + 1
      BY <3>1, <3>2, FS_AddElement
    <3>4. loaded[c] = IF result[c] = "ok" THEN published ELSE failed
      BY <2>1 DEF UpdateStatsStore, LoadedCurrent
    <3>5. /\ published' = Cardinality(Returned("ok")')
          /\ failed' = Cardinality(Returned("error")')
      <4>1. CASE result[c] = "ok"
        BY <1>0, <2>1, <3>1, <3>3, <3>4, <4>1 DEF UpdateStatsStore
      <4>2. CASE result[c] = "error"
        BY <1>0, <2>1, <3>1, <3>3, <3>4, <4>2 DEF UpdateStatsStore
      <4>3. QED
        BY <2>1, <4>1, <4>2 DEF UpdateStatsStore
    <3>6. QED
      BY <3>5 DEF CountersExact, Returned
  <2>2. CASE UNCHANGED counters /\ Returned("ok")' = Returned("ok")
             /\ Returned("error")' = Returned("error")
    BY <1>0, <2>2 DEF CountersExact, Returned, counters
  <2>3. CASE PublishCall(c) \/ PublishRLock(c) \/ PublishCheck(c) \/ PublishReject(c)
             \/ PublishSend(c) \/ UpdateStatsLock(c) \/ UpdateStatsLoad(c)
    <3>1. /\ UNCHANGED counters
          /\ \A d \in Calls : d # c => callPc'[d] = callPc[d] /\ result'[d] = result[d]
          /\ callPc[c] # "done"
          /\ callPc'[c] # "done" \/ result'[c] = "refused"
      BY <2>3 DEF TypeOK, PublishCall, PublishRLock, PublishCheck, PublishReject,
                  PublishSend, UpdateStatsLock, UpdateStatsLoad, Answer
    <3>2. Returned("ok")' = Returned("ok") /\ Returned("error")' = Returned("error")
      BY <3>1 DEF Returned
    <3>3. QED
      BY <3>1, <3>2, <2>2
  <2>4. QED
    BY <1>1, <2>1, <2>3 DEF PublishStep
<1>2. CASE UNCHANGED <<counters, publishing>>
  BY <1>2 DEF counters, publishing, CountersExact
<1>3. QED
  BY <1>1, <1>2, StepKinds, ProbeFrame DEF accounting
-----------------------------------------------------------------------------
\* The invariant holds initially: nothing has been called or locked.
LEMMA IInvInit == Init => IInv
<1> SUFFICES ASSUME Init PROVE IInv
  OBVIOUS
<1>1. TypeOK
  BY TypeInit
<1>2. StatsMuHeld /\ CallProgress /\ LoadedCurrent /\ StatsFromOneInstant
  BY DEF Init, Unlocked, StatsMuHeld, CallProgress, LoadedCurrent, StatsFromOneInstant
<1>3. CountersExact
  <2>1. /\ {c \in Calls : callPc[c] = "done" /\ result[c] = "ok"} = {}
        /\ {c \in Calls : callPc[c] = "done" /\ result[c] = "error"} = {}
    BY DEF Init
  <2>2. QED
    BY <2>1, FS_EmptySet DEF Init, CountersExact
<1>4. QED
  BY <1>1, <1>2, <1>3 DEF IInv

\* Every step preserves it.
LEMMA IInvStep == IInv /\ [Next]_vars => IInv'
BY TypeStep, StatsMuStep, ProgressStep, LoadedStep, OneInstantStep, CountersStep DEF IInv

\* The inductive invariant of the calls and the counters.
THEOREM Invariance == Spec => []IInv
BY IInvInit, IInvStep, PTL DEF Spec

\* MessagesPublished and MessagesFailed count exactly the calls that returned
\* nil and an error of the broker, for any number of concurrent calls.
THEOREM CountersAreExact == Spec => []CountersExact
<1>1. IInv => CountersExact
  BY DEF IInv
<1>2. QED
  BY Invariance, <1>1, PTL

\* The counters of a stats answer are current when the answer is complete.
THEOREM StatsAreFromOneInstant == Spec => []StatsFromOneInstant
<1>1. IInv => StatsFromOneInstant
  BY DEF IInv
<1>2. QED
  BY Invariance, <1>1, PTL
-----------------------------------------------------------------------------
\* What a call has returned, as the contract sees it.
outcomes == [c \in Calls |-> Outcome(c)]

\* A step that changes neither the progress nor the answers stutters.
LEMMA OutcomeFrame ==
    ASSUME UNCHANGED publishing
    PROVE  UNCHANGED <<outcomes, handed>>
BY DEF publishing, outcomes, Outcome

\* One call moves: its outcome changes as its own progress says.
LEMMA OutcomeOf ==
    ASSUME NEW c \in Calls,
           \A d \in Calls : d # c => callPc'[d] = callPc[d] /\ result'[d] = result[d]
    PROVE  outcomes' = [outcomes EXCEPT ![c] = Outcome(c)']
BY DEF outcomes, Outcome

\* Every step of a call is a step of the contract, or stutters.
LEMMA PublishRefines ==
    ASSUME IInv, NEW c \in Calls, PublishCall(c) \/ PublishStep(c)
    PROVE  Contract!Next \/ UNCHANGED <<outcomes, handed>>
<1>0. /\ \A d \in Calls : d # c => callPc'[d] = callPc[d] /\ result'[d] = result[d]
      /\ outcomes[c] = Outcome(c)
      /\ callPc \in [Calls -> CallPcs] /\ result \in [Calls -> Results]
  BY DEF IInv, TypeOK, PublishCall, PublishStep, PublishRLock, PublishCheck, PublishReject,
         PublishSend, UpdateStatsLock, UpdateStatsLoad, UpdateStatsStore, Answer, outcomes
<1>a. outcomes' = [outcomes EXCEPT ![c] = Outcome(c)']
  BY <1>0, OutcomeOf
<1>b. Outcome(c)' = Outcome(c) => UNCHANGED outcomes
  BY <1>0, <1>a DEF outcomes
<1> USE DEF Outcome, Answer
<1>1. CASE PublishCall(c)
  <2>1. outcomes[c] = "idle" /\ Outcome(c)' = "pending" /\ UNCHANGED handed
    BY <1>0, <1>1 DEF PublishCall
  <2>2. Contract!Call(c)
    BY <1>a, <2>1 DEF Contract!Call, outcomes
  <2>3. QED
    BY <2>2 DEF Contract!Next
<1>2. CASE PublishRLock(c) \/ PublishReject(c) \/ UpdateStatsLock(c) \/ UpdateStatsLoad(c)
  <2>1. Outcome(c)' = Outcome(c) /\ UNCHANGED handed
    BY <1>0, <1>2 DEF PublishRLock, PublishReject, UpdateStatsLock, UpdateStatsLoad
  <2>2. QED
    BY <1>b, <2>1
<1>3. CASE PublishCheck(c)
  <2>1. CASE Outcome(c)' = "refused"
    <3>1. outcomes[c] = "pending" /\ UNCHANGED handed
      BY <1>0, <1>3 DEF PublishCheck
    <3>2. c \notin handed
      BY <1>3 DEF IInv, CallProgress, PublishCheck
    <3>3. Contract!Refuse(c)
      BY <1>a, <2>1, <3>1, <3>2 DEF Contract!Refuse, outcomes
    <3>4. QED
      BY <3>3 DEF Contract!Next
  <2>2. CASE Outcome(c)' = Outcome(c)
    BY <1>b, <1>3, <2>2 DEF PublishCheck
  <2>3. QED
    BY <1>0, <1>3, <2>1, <2>2 DEF PublishCheck
<1>4. CASE PublishSend(c)
  <2>1. Outcome(c)' = Outcome(c) /\ outcomes[c] = "pending"
    BY <1>0, <1>4 DEF PublishSend
  <2>2. CASE UNCHANGED handed
    BY <1>b, <2>1, <2>2
  <2>3. CASE handed' = handed \cup {c}
    <3>1. Contract!HandOver(c)
      BY <1>b, <2>1, <2>3 DEF Contract!HandOver, outcomes
    <3>2. QED
      BY <3>1 DEF Contract!Next
  <2>4. QED
    BY <1>4, <2>2, <2>3 DEF PublishSend
<1>5. CASE UpdateStatsStore(c)
  <2>1. outcomes[c] = "pending" /\ UNCHANGED handed
    BY <1>0, <1>5 DEF UpdateStatsStore
  <2>2. CASE result[c] = "ok"
    <3>1. Outcome(c)' = "ok" /\ c \in handed
      BY <1>0, <1>5, <2>2 DEF UpdateStatsStore, IInv, CallProgress
    <3>2. Contract!ReturnOk(c)
      BY <1>a, <2>1, <3>1 DEF Contract!ReturnOk, outcomes
    <3>3. QED
      BY <3>2 DEF Contract!Next
  <2>3. CASE result[c] = "error"
    <3>1. Outcome(c)' = "error"
      BY <1>0, <1>5, <2>3 DEF UpdateStatsStore
    <3>2. Contract!ReturnError(c)
      BY <1>a, <2>1, <3>1 DEF Contract!ReturnError, outcomes
    <3>3. QED
      BY <3>2 DEF Contract!Next
  <2>4. QED
    BY <1>5, <2>2, <2>3 DEF UpdateStatsStore
<1>6. QED
  BY <1>1, <1>2, <1>3, <1>4, <1>5 DEF PublishStep

\* The RabbitMQ adapter keeps the promise of Broker.Publish: nil only for a
\* message written to a channel, "not connected" only for one that never is.
THEOREM KeepsPublishContract == Spec => PublishContractHolds
<1>1. Init => Contract!Init
  BY DEF Init, Contract!Init, Outcome
<1>2. IInv /\ [Next]_vars => [Contract!Next]_(Contract!vars)
  <2> SUFFICES ASSUME IInv, [Next]_vars
               PROVE  Contract!Next \/ UNCHANGED Contract!vars
    OBVIOUS
  <2>1. CASE \E c \in Calls : PublishCall(c) \/ PublishStep(c)
    BY <2>1, PublishRefines DEF Contract!vars, outcomes
  <2>2. CASE UNCHANGED publishing
    BY <2>2, OutcomeFrame DEF Contract!vars, outcomes
  <2>3. QED
    BY <2>1, <2>2, StepKinds, ProbeFrame DEF accounting
<1>3. QED
  BY Invariance, <1>1, <1>2, PTL DEF Spec, PublishContractHolds, Contract!Spec
-----------------------------------------------------------------------------
(***************************************************************************)
(* The adapter and its connection, for an owner that does not reconnect.   *)
(***************************************************************************)

\* Who has called mu.Lock: the owner inside Connect and Disconnect, a watcher
\* between its announcement and its store.
MuHeld ==
    /\ mu.writer \subseteq Conns \cup {Main}
    /\ \A p, q \in mu.writer : p = q
    /\ Main \in mu.writer <=> mainPc # "idle"
    /\ \A w \in Conns : w \in mu.writer <=> watchPc[w] = "locking"

\* The fields are set together, once, by the Connect that succeeds.
FieldsSetOnce ==
    /\ channel = conn
    /\ connected => conn # Nil
    /\ conn # Nil => dialled = Nil /\ mainPc # "connect"
    /\ dialled # Nil <=> mainPc \in {"channel", "declare"}
    /\ mainPc \in {"closeChannel", "closeConn"} => connected
    /\ mainPc = "closeConn" => chanState[conn] # "open"

\* Nothing is open that the adapter does not hold.
NothingElseOpen ==
    /\ NoOrphanConnection
    /\ \A c \in Conns : chanState[c] = "open" => connState[c] = "open"

\* There is one watcher, it watches the adapter's connection, and it goes for
\* the lock only once that connection is lost.
OneWatcher ==
    \A w \in Conns :
        /\ watchPc[w] # "none" => conn = w
        /\ watchPc[w] \in {"watching", "locking"} => watched[w] = conn
        /\ watchPc[w] = "locking" => connState[w] = "lost"

CInv == TypeOK /\ MuHeld /\ FieldsSetOnce /\ NothingElseOpen /\ OneWatcher

\* What CInv is about, the lock's readers aside.
connecting == <<adapter, library, owner, watching>>

\* Publishes and probes only read it: of mu they take the read side.
LEMMA ReadersFrame ==
    ASSUME TypeOK,
           \/ \E c \in Calls : PublishCall(c) \/ PublishStep(c)
           \/ \E h \in Probes : HealthCall(h) \/ StatsCall(h) \/ ProbeStep(h)
    PROVE  UNCHANGED connecting /\ mu'.writer = mu.writer
<1>0. mu \in [readers : SUBSET Goroutines, writer : SUBSET Goroutines]
  BY DEF TypeOK, LockValue
<1>1. ASSUME NEW c \in Calls, PublishCall(c) \/ PublishStep(c)
      PROVE  UNCHANGED connecting /\ mu'.writer = mu.writer
  BY <1>0, <1>1 DEF connecting, RLock, RUnlock, PublishCall, PublishStep, PublishRLock,
     PublishCheck, PublishReject, PublishSend, UpdateStatsLock, UpdateStatsLoad,
     UpdateStatsStore
<1>2. ASSUME NEW h \in Probes, HealthCall(h) \/ StatsCall(h) \/ ProbeStep(h)
      PROVE  UNCHANGED connecting /\ mu'.writer = mu.writer
  BY <1>2 DEF connecting, HealthCall, StatsCall, ProbeStep, HealthStatus, GetStatsLock,
     GetStatsCounters, GetStats
<1>3. QED
  BY <1>1, <1>2
-----------------------------------------------------------------------------
\* Both halves of CInv survive what the owner does.
LEMMA ConnOwner ==
    ASSUME ~Reconnects, CInv, ConnectCall \/ DisconnectCall \/ OwnerStep
    PROVE  CInv'
<1>0. /\ TypeOK /\ TypeOK'
      /\ mu \in [readers : SUBSET Goroutines, writer : SUBSET Goroutines]
      /\ Nil \notin Conns /\ Main \notin Conns
      /\ UNCHANGED watched
  BY TypeOwner, DistinctNames
     DEF CInv, TypeOK, LockValue, Goroutines, watching, OwnerStep, ConnectCall, ConnectDial,
         ConnectChannel, ConnectDeclare, ConnectDone, ConnectFailed, DisconnectCall,
         DisconnectCheck, DisconnectChannel, DisconnectConn
<1> USE DEF adapter, library, owner, watching
<1>1. CASE ConnectCall
  <2>1. MuHeld'
    BY <1>0, <1>1 DEF CInv, MuHeld, ConnectCall, CanAnnounce, Announce
  <2>2. FieldsSetOnce' /\ NothingElseOpen' /\ OneWatcher'
    BY <1>0, <1>1 DEF CInv, ConnectCall, FieldsSetOnce, NothingElseOpen, OneWatcher,
                      NoOrphanConnection
  <2>3. QED
    BY <1>0, <2>1, <2>2 DEF CInv
<1>2. CASE ConnectDial
  <2>1. MuHeld'
    BY <1>0, <1>2 DEF CInv, MuHeld, ConnectDial, CanEnter, Unlock
  <2>2. FieldsSetOnce' /\ NothingElseOpen' /\ OneWatcher'
    BY <1>0, <1>2 DEF CInv, TypeOK, ConnectDial, FieldsSetOnce, NothingElseOpen, OneWatcher,
                      NoOrphanConnection
  <2>3. QED
    BY <1>0, <2>1, <2>2 DEF CInv
<1>3. ASSUME ConnectFailed, mainPc \in {"channel", "declare"}
      PROVE  CInv'
  <2>1. MuHeld'
    BY <1>0, <1>3 DEF CInv, MuHeld, ConnectFailed, Unlock
  <2>2. FieldsSetOnce' /\ NothingElseOpen' /\ OneWatcher'
    BY <1>0, <1>3 DEF CInv, TypeOK, ConnectFailed, CloseConnection, CloseChannel,
                      FieldsSetOnce, NothingElseOpen, OneWatcher, NoOrphanConnection
  <2>3. QED
    BY <1>0, <2>1, <2>2 DEF CInv
<1>4. CASE ConnectChannel
  <2>1. CASE chanState' = [chanState EXCEPT ![dialled] = "open"] /\ connState[dialled] = "open"
             /\ mainPc' = "declare" /\ UNCHANGED <<adapter, mu, connState, dialled, watching>>
    <3>1. MuHeld'
      BY <1>0, <1>4, <2>1 DEF CInv, MuHeld, ConnectChannel
    <3>2. FieldsSetOnce' /\ NothingElseOpen' /\ OneWatcher'
      BY <1>0, <1>4, <2>1 DEF CInv, TypeOK, ConnectChannel, FieldsSetOnce, NothingElseOpen,
                              OneWatcher, NoOrphanConnection
    <3>3. QED
      BY <1>0, <3>1, <3>2 DEF CInv
  <2>2. QED
    BY <1>3, <1>4, <2>1 DEF ConnectChannel
<1>5. CASE ConnectDeclare
  <2>1. CASE ConnectDone
    <3>1. MuHeld'
      BY <1>0, <1>5, <2>1
         DEF CInv, TypeOK, MuHeld, FieldsSetOnce, OneWatcher, ConnectDeclare, ConnectDone, Unlock
    <3>2. FieldsSetOnce' /\ NothingElseOpen' /\ OneWatcher'
      BY <1>0, <1>5, <2>1
         DEF CInv, TypeOK, ConnectDeclare, ConnectDone, FieldsSetOnce, NothingElseOpen,
             OneWatcher, NoOrphanConnection
    <3>3. QED
      BY <1>0, <3>1, <3>2 DEF CInv
  <2>2. QED
    BY <1>3, <1>5, <2>1 DEF ConnectDeclare
<1>6. CASE DisconnectCall
  <2>1. MuHeld'
    BY <1>0, <1>6 DEF CInv, MuHeld, DisconnectCall, CanAnnounce, Announce
  <2>2. FieldsSetOnce' /\ NothingElseOpen' /\ OneWatcher'
    BY <1>0, <1>6 DEF CInv, DisconnectCall, FieldsSetOnce, NothingElseOpen, OneWatcher,
                      NoOrphanConnection
  <2>3. QED
    BY <1>0, <2>1, <2>2 DEF CInv
<1>7. CASE DisconnectCheck
  <2>1. MuHeld'
    BY <1>0, <1>7 DEF CInv, MuHeld, DisconnectCheck, CanEnter, Unlock
  <2>2. FieldsSetOnce' /\ NothingElseOpen' /\ OneWatcher'
    BY <1>0, <1>7 DEF CInv, DisconnectCheck, FieldsSetOnce, NothingElseOpen, OneWatcher,
                      NoOrphanConnection
  <2>3. QED
    BY <1>0, <2>1, <2>2 DEF CInv
<1>8. CASE DisconnectChannel
  <2>1. MuHeld'
    BY <1>0, <1>8 DEF CInv, MuHeld, DisconnectChannel
  <2>2. FieldsSetOnce' /\ NothingElseOpen' /\ OneWatcher'
    BY <1>0, <1>8 DEF CInv, TypeOK, DisconnectChannel, CloseChannel, FieldsSetOnce,
                      NothingElseOpen, OneWatcher, NoOrphanConnection
  <2>3. QED
    BY <1>0, <2>1, <2>2 DEF CInv
<1>9. CASE DisconnectConn
  <2>1. MuHeld'
    BY <1>0, <1>9 DEF CInv, MuHeld, DisconnectConn, Unlock
  <2>2. FieldsSetOnce' /\ NothingElseOpen' /\ OneWatcher'
    BY <1>0, <1>9 DEF CInv, TypeOK, DisconnectConn, CloseConnection, FieldsSetOnce,
                      NothingElseOpen, OneWatcher, NoOrphanConnection
  <2>3. QED
    BY <1>0, <2>1, <2>2 DEF CInv
<1>10. QED
  BY <1>1, <1>2, <1>4, <1>5, <1>6, <1>7, <1>8, <1>9 DEF OwnerStep

\* ... what the watcher does ...
LEMMA ConnWatch ==
    ASSUME CInv, NEW w \in Conns, WatchStep(w)
    PROVE  CInv'
<1>0. /\ TypeOK /\ TypeOK'
      /\ mu \in [readers : SUBSET Goroutines, writer : SUBSET Goroutines]
      /\ Nil \notin Conns /\ Main \notin Conns
  BY TypeWatch, DistinctNames DEF CInv, TypeOK, LockValue, Goroutines
<1> USE DEF adapter, library, owner, watching
<1>1. CASE WatchRegister(w)
  <2>1. MuHeld'
    BY <1>0, <1>1 DEF CInv, TypeOK, MuHeld, WatchRegister
  <2>2. FieldsSetOnce' /\ NothingElseOpen' /\ OneWatcher'
    BY <1>0, <1>1 DEF CInv, TypeOK, WatchRegister, FieldsSetOnce, NothingElseOpen,
                      OneWatcher, NoOrphanConnection
  <2>3. QED
    BY <1>0, <2>1, <2>2 DEF CInv
<1>2. CASE WatchClosed(w)
  <2>1. MuHeld'
    BY <1>0, <1>2 DEF CInv, TypeOK, MuHeld, WatchClosed
  <2>2. FieldsSetOnce' /\ NothingElseOpen' /\ OneWatcher'
    BY <1>0, <1>2 DEF CInv, TypeOK, WatchClosed, FieldsSetOnce, NothingElseOpen,
                      OneWatcher, NoOrphanConnection
  <2>3. QED
    BY <1>0, <2>1, <2>2 DEF CInv
<1>3. CASE WatchLost(w)
  <2>1. MuHeld'
    BY <1>0, <1>3 DEF CInv, TypeOK, MuHeld, WatchLost, CanAnnounce, Announce
  <2>2. FieldsSetOnce' /\ NothingElseOpen' /\ OneWatcher'
    BY <1>0, <1>3 DEF CInv, TypeOK, WatchLost, FieldsSetOnce, NothingElseOpen,
                      OneWatcher, NoOrphanConnection
  <2>3. QED
    BY <1>0, <2>1, <2>2 DEF CInv
<1>4. CASE WatchClear(w)
  <2>0. mainPc = "idle" /\ connState[conn] = "lost" /\ conn = w
    BY <1>0, <1>4 DEF CInv, MuHeld, OneWatcher, WatchClear, CanEnter
  <2>1. MuHeld'
    BY <1>0, <1>4 DEF CInv, TypeOK, MuHeld, WatchClear, CanEnter, Unlock
  <2>2. FieldsSetOnce' /\ NothingElseOpen' /\ OneWatcher'
    BY <1>0, <1>4, <2>0 DEF CInv, TypeOK, WatchClear, FieldsSetOnce, NothingElseOpen,
                            OneWatcher, NoOrphanConnection
  <2>3. QED
    BY <1>0, <2>1, <2>2 DEF CInv
<1>5. QED
  BY <1>1, <1>2, <1>3, <1>4 DEF WatchStep

\* ... and the losses.
LEMMA ConnLoss ==
    ASSUME CInv, NEW c \in Conns, ConnectionLost(c) \/ ChannelLost(c)
    PROVE  CInv'
<1>0. TypeOK /\ TypeOK'
  BY TypeLoss DEF CInv
<1> USE DEF adapter, owner, watching
<1>1. MuHeld'
  BY DEF CInv, MuHeld, ConnectionLost, ChannelLost
<1>2. CASE ConnectionLost(c)
  BY <1>0, <1>1, <1>2 DEF CInv, TypeOK, ConnectionLost, CloseChannel, FieldsSetOnce,
                          NothingElseOpen, OneWatcher, NoOrphanConnection
<1>3. CASE ChannelLost(c)
  BY <1>0, <1>1, <1>3 DEF CInv, TypeOK, ChannelLost, CloseChannel, FieldsSetOnce,
                          NothingElseOpen, OneWatcher, NoOrphanConnection
<1>4. QED
  BY <1>2, <1>3

\* The second invariant holds initially.
LEMMA CInvInit == Init => CInv
BY TypeInit, DistinctNames
   DEF Init, CInv, Unlocked, MuHeld, FieldsSetOnce, NothingElseOpen, OneWatcher,
       NoOrphanConnection, Goroutines

\* Every step preserves it.
LEMMA CInvStep ==
    ASSUME ~Reconnects, CInv, [Next]_vars
    PROVE  CInv'
<1>0. TypeOK /\ TypeOK'
  BY TypeStep DEF CInv
<1>1. CASE \/ \E c \in Calls : PublishCall(c) \/ PublishStep(c)
           \/ \E h \in Probes : HealthCall(h) \/ StatsCall(h) \/ ProbeStep(h)
  <2>1. UNCHANGED connecting /\ mu'.writer = mu.writer
    BY <1>0, <1>1, ReadersFrame
  <2>2. QED
    BY <1>0, <2>1
       DEF CInv, connecting, adapter, library, owner, watching, MuHeld, FieldsSetOnce,
           NothingElseOpen, OneWatcher, NoOrphanConnection
<1>2. CASE UNCHANGED vars
  BY <1>0, <1>2
     DEF vars, CInv, adapter, library, owner, watching, MuHeld, FieldsSetOnce,
         NothingElseOpen, OneWatcher, NoOrphanConnection
<1>3. QED
  BY <1>1, <1>2, ConnOwner, ConnWatch, ConnLoss DEF Next

\* As long as the owner connects only once, which is what the service does,
\* every open connection is one that Disconnect will close.
THEOREM NoConnectionOrphaned ==
    ASSUME ~Reconnects
    PROVE  Spec => []NoOrphanConnection
<1>1. CInv /\ [Next]_vars => CInv'
  BY CInvStep
<1>2. CInv => NoOrphanConnection
  BY DEF CInv, NothingElseOpen
<1>3. QED
  BY CInvInit, <1>1, <1>2, PTL DEF Spec

\* Once Disconnect has returned nothing goes out, not even from a request
\* that holds a copy of the channel.
THEOREM NothingSentAfterDisconnect ==
    ASSUME ~Reconnects
    PROVE  Spec => SilentWhenDisconnected
<1>1. CInv /\ [Next]_vars => CInv'
  BY CInvStep
<1>2. IInv /\ CInv /\ [Next]_vars =>
          [(mainPc = "idle" /\ ~connected) => handed' = handed]_vars
  <2> SUFFICES ASSUME IInv, CInv, [Next]_vars, mainPc = "idle", ~connected
               PROVE  handed' = handed
    OBVIOUS
  <2>1. \A c \in Conns : chanState[c] # "open"
    BY DistinctNames DEF CInv, FieldsSetOnce, NothingElseOpen, NoOrphanConnection, Goroutines
  <2>2. ASSUME NEW c \in Calls, PublishSend(c) PROVE handed' = handed
    <3>1. snapshot[c] \in Conns
      BY <2>2 DEF IInv, TypeOK, CallProgress, PublishSend
    <3>2. QED
      BY <2>1, <2>2, <3>1 DEF PublishSend
  <2>3. ASSUME NEW c \in Calls, PublishCall(c) \/ PublishStep(c) PROVE handed' = handed
    BY <2>2, <2>3 DEF PublishCall, PublishStep, PublishRLock, PublishCheck, PublishReject,
                      UpdateStatsLock, UpdateStatsLoad, UpdateStatsStore
  <2>4. QED
    BY <2>3, StepKinds, ProbeFrame DEF accounting, publishing
<1>3. QED
  BY CInvInit, Invariance, <1>1, <1>2, PTL DEF Spec, SilentWhenDisconnected
-----------------------------------------------------------------------------
(***************************************************************************)
(* The order of the locks, for any owner.                                  *)
(***************************************************************************)

\* Only publishes that are between RLock and RUnlock read-hold mu, only probes
\* stats.mu.
ReadersKnown ==
    /\ mu.readers \subseteq Calls /\ statsMu.readers \subseteq Probes
    /\ \A c \in Calls : c \in mu.readers <=> callPc[c] = "check"

LockInv == TypeOK /\ StatsMuHeld /\ MuHeld /\ ReadersKnown

\* The owner and the watchers announce themselves one at a time.
LEMMA MuHeldStep ==
    ASSUME TypeOK, MuHeld, [Next]_vars
    PROVE  MuHeld'
<1>0. /\ mu \in [readers : SUBSET Goroutines, writer : SUBSET Goroutines]
      /\ Main \notin Conns /\ watchPc \in [Conns -> WatchPcs]
  BY DistinctNames DEF TypeOK, LockValue
<1>1. CASE \/ \E c \in Calls : PublishCall(c) \/ PublishStep(c)
           \/ \E h \in Probes : HealthCall(h) \/ StatsCall(h) \/ ProbeStep(h)
  <2>1. UNCHANGED connecting /\ mu'.writer = mu.writer
    BY <1>1, ReadersFrame
  <2>2. QED
    BY <2>1 DEF connecting, owner, watching, MuHeld
<1>2. CASE ConnectCall \/ DisconnectCall
  <2>1. mu.writer = {} /\ mu'.writer = {Main} /\ mainPc' # "idle" /\ UNCHANGED watchPc
    BY <1>0, <1>2 DEF ConnectCall, DisconnectCall, CanAnnounce, Announce, watching
  <2>2. QED
    BY <1>0, <2>1 DEF MuHeld
<1>3. CASE OwnerStep
  <2>1. Main \in mu.writer /\ \A w \in Conns : watchPc[w] # "locking"
    <3>1. mainPc # "idle"
      BY <1>3 DEF OwnerStep, ConnectDial, ConnectChannel, ConnectDeclare, DisconnectCheck,
                  DisconnectChannel, DisconnectConn
    <3>2. Main \in mu.writer
      BY <3>1 DEF MuHeld
    <3>3. \A w \in Conns : w \notin mu.writer
      BY <1>0, <3>2 DEF MuHeld
    <3>4. QED
      BY <3>2, <3>3 DEF MuHeld
  <2>2. \/ UNCHANGED mu /\ mainPc' # "idle"
        \/ mu' = Unlock(mu) /\ mainPc' = "idle"
    BY <1>3 DEF OwnerStep, ConnectDial, ConnectChannel, ConnectDeclare, ConnectDone, ConnectFailed,
                DisconnectCheck, DisconnectChannel, DisconnectConn
  <2>3. \A w \in Conns : watchPc'[w] # "locking"
    <3>1. UNCHANGED watchPc \/ watchPc' = [watchPc EXCEPT ![dialled] = "spawned"]
      BY <1>3 DEF OwnerStep, ConnectDial, ConnectChannel, ConnectDeclare, ConnectDone,
                  ConnectFailed, DisconnectCheck, DisconnectChannel, DisconnectConn, watching
    <3>2. QED
      BY <1>0, <2>1, <3>1
  <2>4. \/ mu'.writer = mu.writer /\ mainPc' # "idle"
        \/ mu'.writer = {} /\ mainPc' = "idle"
    BY <1>0, <2>2 DEF Unlock
  <2>5. QED
    BY <1>0, <2>1, <2>3, <2>4 DEF MuHeld
<1>4. ASSUME NEW w \in Conns, WatchStep(w) PROVE MuHeld'
  <2>0. UNCHANGED mainPc /\ \A v \in Conns : v # w => watchPc'[v] = watchPc[v]
    BY <1>0, <1>4 DEF WatchStep, WatchRegister, WatchClosed, WatchLost, WatchClear, owner
  <2>1. CASE WatchRegister(w) \/ WatchClosed(w)
    <3>1. UNCHANGED mu /\ watchPc[w] # "locking" /\ watchPc'[w] # "locking"
      BY <1>0, <2>1 DEF WatchRegister, WatchClosed
    <3>2. QED
      BY <2>0, <3>1 DEF MuHeld
  <2>2. CASE WatchLost(w)
    <3>1. mu.writer = {} /\ mu'.writer = {w} /\ watchPc'[w] = "locking"
      BY <1>0, <2>2 DEF WatchLost, CanAnnounce, Announce
    <3>2. QED
      BY <1>0, <2>0, <3>1 DEF MuHeld
  <2>3. CASE WatchClear(w)
    <3>1. mu.writer = {w} /\ mu'.writer = {} /\ watchPc'[w] = "done"
      BY <1>0, <2>3 DEF WatchClear, CanEnter, Unlock
    <3>2. QED
      BY <1>0, <2>0, <3>1 DEF MuHeld
  <2>4. QED
    BY <1>4, <2>1, <2>2, <2>3 DEF WatchStep
<1>5. CASE UNCHANGED vars \/ \E c \in Conns : ConnectionLost(c) \/ ChannelLost(c)
  BY <1>5 DEF vars, owner, watching, ConnectionLost, ChannelLost, MuHeld
<1>6. QED
  BY <1>1, <1>2, <1>3, <1>4, <1>5 DEF Next

\* The read sides are held by those who say so.
LEMMA ReadersStep ==
    ASSUME TypeOK, ReadersKnown, [Next]_vars
    PROVE  ReadersKnown'
<1>0. /\ mu \in [readers : SUBSET Goroutines, writer : SUBSET Goroutines]
      /\ statsMu \in [readers : SUBSET Goroutines, writer : SUBSET Goroutines]
      /\ callPc \in [Calls -> CallPcs]
  BY DEF TypeOK, LockValue
<1>1. ASSUME NEW c \in Calls, PublishCall(c) \/ PublishStep(c) PROVE ReadersKnown'
  <2>0. /\ \A d \in Calls : c # d => callPc'[d] = callPc[d]
        /\ statsMu'.readers = statsMu.readers
    BY <1>0, <1>1
       DEF PublishCall, PublishStep, PublishRLock, PublishCheck, PublishReject, PublishSend,
           UpdateStatsLock, UpdateStatsLoad, UpdateStatsStore, Answer, Announce, Unlock
  <2>1. CASE PublishRLock(c)
    <3>1. mu'.readers = mu.readers \cup {c} /\ callPc'[c] = "check"
      BY <1>0, <2>1 DEF PublishRLock, RLock
    <3>2. QED
      BY <2>0, <3>1 DEF ReadersKnown
  <2>2. CASE PublishCheck(c)
    <3>1. mu'.readers = mu.readers \ {c} /\ callPc'[c] # "check"
      BY <1>0, <2>2 DEF PublishCheck, RUnlock, Answer
    <3>2. QED
      BY <2>0, <3>1 DEF ReadersKnown
  <2>3. CASE ~PublishRLock(c) /\ ~PublishCheck(c)
    <3>1. UNCHANGED mu /\ callPc[c] # "check" /\ callPc'[c] # "check"
      BY <1>0, <1>1, <2>3
         DEF PublishCall, PublishStep, PublishReject, PublishSend, UpdateStatsLock,
             UpdateStatsLoad, UpdateStatsStore, Answer
    <3>2. QED
      BY <2>0, <3>1 DEF ReadersKnown
  <2>4. QED
    BY <2>1, <2>2, <2>3
<1>2. ASSUME NEW h \in Probes, HealthCall(h) \/ StatsCall(h) \/ ProbeStep(h) PROVE ReadersKnown'
  <2>1. UNCHANGED <<mu, callPc>>
    BY <1>2 DEF HealthCall, StatsCall, ProbeStep, HealthStatus, GetStatsLock, GetStatsCounters,
                GetStats, publishing
  <2>2. statsMu'.readers \subseteq statsMu.readers \cup {h}
    BY <1>0, <1>2 DEF HealthCall, StatsCall, ProbeStep, HealthStatus, GetStatsLock,
                      GetStatsCounters, GetStats, RLock, RUnlock
  <2>3. QED
    BY <2>1, <2>2 DEF ReadersKnown
<1>3. CASE \/ ConnectCall \/ DisconnectCall \/ OwnerStep
           \/ \E w \in Conns : WatchStep(w)
           \/ \E c \in Conns : ConnectionLost(c) \/ ChannelLost(c)
  <2>1. UNCHANGED accounting
    BY <1>3, OthersFrame
  <2>2. mu'.readers = mu.readers
    <3>1. CASE ConnectCall \/ DisconnectCall \/ OwnerStep
      BY <1>0, <3>1
         DEF ConnectCall, DisconnectCall, OwnerStep, ConnectDial, ConnectChannel, ConnectDeclare,
             ConnectDone, ConnectFailed, DisconnectCheck, DisconnectChannel, DisconnectConn,
             Announce, Unlock
    <3>2. ASSUME NEW w \in Conns, WatchStep(w) PROVE mu'.readers = mu.readers
      BY <1>0, <3>2 DEF WatchStep, WatchRegister, WatchClosed, WatchLost, WatchClear, Announce,
                        Unlock
    <3>3. ASSUME NEW c \in Conns, ConnectionLost(c) \/ ChannelLost(c) PROVE UNCHANGED mu
      BY <3>3 DEF ConnectionLost, ChannelLost
    <3>4. QED
      BY <1>3, <3>1, <3>2, <3>3
  <2>3. QED
    BY <2>1, <2>2 DEF accounting, publishing, ReadersKnown
<1>4. CASE UNCHANGED vars
  BY <1>4 DEF vars, publishing, ReadersKnown
<1>5. QED
  BY <1>1, <1>2, <1>3, <1>4 DEF Next

\* One of those who hold mu, or have announced themselves, can go on.
MuHolderMoves ==
    \/ \E c \in mu.readers \cap Calls : callPc[c] = "check"
    \/ CanEnter(mu, Main) /\ mainPc # "idle"
    \/ \E w \in Conns : CanEnter(mu, w) /\ watchPc[w] = "locking"

\* One of those who hold stats.mu can go on, or waits for mu.
StatsHolderMoves ==
    \/ \E c \in Calls : CanEnter(statsMu, c) /\ callPc[c] \in {"counting", "storing"}
    \/ \E h \in statsMu.readers \cap Probes :
          \/ probePc[h] = "inStats"
          \/ probePc[h] = "counted" /\ (CanRLock(mu) \/ MuHolderMoves)

NoLockCycle ==
    /\ mu # Unlocked => MuHolderMoves
    /\ statsMu # Unlocked => StatsHolderMoves

\* The two locks never make everyone wait on everyone, although GetStats takes mu
\* inside stats.mu and a writer that waits keeps new readers out: with any number
\* of publishes, probes and watchers, and an owner that reconnects or does not,
\* someone of those who hold a lock can always go on (rabbitmq.go, every use of
\* mu and stats.mu).
THEOREM LocksNeverCycle == Spec => []NoLockCycle
<1>1. Init => LockInv
  <2>1. Init => MuHeld /\ ReadersKnown /\ StatsMuHeld
    BY DEF Init, Unlocked, MuHeld, ReadersKnown, StatsMuHeld
  <2>2. QED
    BY <2>1, TypeInit DEF LockInv
<1>2. LockInv /\ [Next]_vars => LockInv'
  BY TypeStep, StatsMuStep, MuHeldStep, ReadersStep DEF LockInv
<1>3. LockInv => NoLockCycle
  <2> SUFFICES ASSUME LockInv PROVE NoLockCycle
    OBVIOUS
  <2>0. /\ mu \in [readers : SUBSET Goroutines, writer : SUBSET Goroutines]
        /\ statsMu \in [readers : SUBSET Goroutines, writer : SUBSET Goroutines]
    BY DEF LockInv, TypeOK, LockValue
  <2>1. ASSUME mu # Unlocked PROVE MuHolderMoves
    <3>1. CASE mu.readers # {}
      BY <3>1 DEF LockInv, ReadersKnown, MuHolderMoves
    <3>2. CASE mu.readers = {}
      <4>1. mu.writer # {}
        BY <2>0, <2>1, <3>2 DEF Unlocked
      <4>2. PICK p \in mu.writer : mu.writer = {p}
        BY <4>1 DEF LockInv, MuHeld
      <4>3. CanEnter(mu, p) /\ p \in Conns \cup {Main}
        BY <3>2, <4>2 DEF LockInv, MuHeld, CanEnter
      <4>4. QED
        BY <4>2, <4>3 DEF LockInv, MuHeld, MuHolderMoves
    <3>3. QED
      BY <3>1, <3>2
  <2>2. ASSUME statsMu # Unlocked PROVE StatsHolderMoves
    <3>1. CanRLock(mu) \/ MuHolderMoves
      BY <2>1 DEF CanRLock, Unlocked
    <3>2. CASE statsMu.readers # {}
      BY <3>1, <3>2 DEF LockInv, ReadersKnown, StatsMuHeld, StatsHolderMoves
    <3>3. CASE statsMu.readers = {}
      <4>1. statsMu.writer # {}
        BY <2>0, <2>2, <3>3 DEF Unlocked
      <4>2. PICK p \in statsMu.writer : statsMu.writer = {p}
        BY <4>1 DEF LockInv, StatsMuHeld
      <4>3. CanEnter(statsMu, p) /\ p \in Calls
        BY <3>3, <4>2 DEF LockInv, StatsMuHeld, CanEnter
      <4>4. QED
        BY <4>2, <4>3 DEF LockInv, StatsMuHeld, StatsHolderMoves
    <3>4. QED
      BY <3>2, <3>3
  <2>3. QED
    BY <2>1, <2>2 DEF NoLockCycle
<1>4. QED
  BY <1>1, <1>2, <1>3, PTL DEF Spec
=============================================================================
