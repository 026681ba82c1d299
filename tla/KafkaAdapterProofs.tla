------------------------- MODULE KafkaAdapterProofs -------------------------
(***************************************************************************)
(* Proofs about KafkaAdapter.  The invariant follows a message from the    *)
(* call of Publish through the writer to the topic; it carries the         *)
(* counters and the contract of Publish.  A second one says which writer a *)
(* call holds, for an owner that connects once, as the service does; a     *)
(* third who holds the two locks.                                          *)
(***************************************************************************)
EXTENDS KafkaAdapter, RWMutexProofs, FiniteSetTheorems, TLAPS
-----------------------------------------------------------------------------
\* How far a call is, what the writer has made of its message and how often
\* the topic holds it.
MessageProgress ==
    \A c \in Calls :
        /\ callPc[c] \in {"idle", "called", "ready"} => result[c] = "none" /\ batch[c] = "none"
        /\ callPc[c] \in {"stats", "counting"} => result[c] \in {"ok", "error"}
        /\ callPc[c] = "writing" => result[c] = "none"
        /\ callPc[c] = "done" => result[c] # "none"
        /\ batch[c] = "none" => attempts[c] = 0
        /\ batch[c] = "queued" => attempts[c] < MaxAttempts
        /\ copies[c] <= attempts[c]
        /\ batch[c] = "stored" => copies[c] > 0
        /\ result[c] = "ok" => batch[c] = "stored"
        /\ result[c] = "refused" => batch[c] = "none"

KInv == TypeOK /\ MessageProgress /\ CountersExact

USE MaxAttemptsIsPositive
-----------------------------------------------------------------------------
\* The initial state satisfies the invariant: nothing has been called.
LEMMA KInvInit == Init => KInv
<1> SUFFICES ASSUME Init PROVE KInv
  OBVIOUS
<1>1. TypeOK
  <2>1. Unlocked \in LockValue(Goroutines) /\ 0 \in 0..MaxAttempts
    BY DEF Unlocked, LockValue
  <2>2. QED
    BY <2>1 DEF Init, TypeOK, MainPcs, CallPcs, Results, ProbePcs, WriterStates, Batches
<1>2. MessageProgress
  BY DEF Init, MessageProgress
<1>3. /\ {c \in Calls : callPc[c] = "done" /\ result[c] = "ok"} = {}
      /\ {c \in Calls : callPc[c] = "done" /\ result[c] = "error"} = {}
  BY DEF Init
<1>4. CountersExact
  BY <1>3, FS_EmptySet DEF Init, CountersExact
<1>5. QED
  BY <1>1, <1>2, <1>4 DEF KInv
-----------------------------------------------------------------------------
\* What the owner does keeps the state well typed.
LEMMA TypeOwner ==
    ASSUME TypeOK, ConnectCall \/ DisconnectCall \/ OwnerStep
    PROVE  TypeOK'
<1> USE DEF TypeOK, MainPcs, WriterStates, adapter, onlyMain, counters, publishing, cluster
<1>0. /\ Announce(mu, Main) \in LockValue(Goroutines)
      /\ Unlock(mu) \in LockValue(Goroutines)
  BY LockOperations DEF Goroutines
<1>1. CASE ConnectCall
  BY <1>0, <1>1 DEF ConnectCall
<1>2. CASE ConnectWriter
  BY <1>2 DEF ConnectWriter
<1>3. CASE ConnectDial
  BY <1>0, <1>3 DEF ConnectDial
<1>4. CASE DisconnectCall
  BY <1>0, <1>4 DEF DisconnectCall
<1>5. CASE DisconnectCheck
  BY <1>0, <1>5 DEF DisconnectCheck
<1>6. CASE DisconnectWriter
  BY <1>0, <1>6 DEF DisconnectWriter
<1>7. QED
  BY <1>1, <1>2, <1>3, <1>4, <1>5, <1>6 DEF OwnerStep

\* What a call of Publish does keeps the state well typed.
LEMMA TypePublish ==
    ASSUME TypeOK, NEW c \in Calls, PublishCall(c) \/ PublishStep(c) \/ PublishContextEnds(c)
    PROVE  TypeOK'
<1> USE DEF TypeOK, CallPcs, Results, Answer, adapter, onlyCall, counters, cluster
<1>0. /\ Announce(statsMu, c) \in LockValue(Goroutines)
      /\ Unlock(statsMu) \in LockValue(Goroutines)
  BY LockOperations DEF Goroutines
<1>1. CASE PublishCall(c)
  BY <1>1 DEF PublishCall
<1>2. CASE PublishCheck(c)
  BY <1>2 DEF PublishCheck
<1>3. CASE PublishReject(c)
  BY <1>3 DEF PublishReject
<1>4. CASE PublishWrite(c)
  BY <1>4 DEF PublishWrite, Batches
<1>5. CASE PublishReturned(c)
  BY <1>5 DEF PublishReturned
<1>6. CASE PublishContextEnds(c)
  BY <1>6 DEF PublishContextEnds
<1>7. CASE UpdateStatsLock(c)
  BY <1>0, <1>7 DEF UpdateStatsLock
<1>8. CASE UpdateStats(c)
  BY <1>0, <1>8 DEF UpdateStats
<1>9. QED
  BY <1>1, <1>2, <1>3, <1>4, <1>5, <1>6, <1>7, <1>8 DEF PublishStep

\* What a stats request does keeps the state well typed.
LEMMA TypeProbe ==
    ASSUME TypeOK, NEW h \in Probes, StatsCall(h) \/ ProbeStep(h)
    PROVE  TypeOK'
<1> USE DEF TypeOK, ProbePcs, adapter, onlyProbe, counters, publishing, library, cluster
<1>0. /\ RLock(statsMu, h) \in LockValue(Goroutines)
      /\ RUnlock(statsMu, h) \in LockValue(Goroutines)
  BY LockOperations DEF Goroutines
<1>1. CASE StatsCall(h)
  BY <1>1 DEF StatsCall
<1>2. CASE GetStatsLock(h)
  BY <1>0, <1>2 DEF GetStatsLock
<1>3. CASE GetStats(h)
  BY <1>0, <1>3 DEF GetStats
<1>4. QED
  BY <1>1, <1>2, <1>3 DEF ProbeStep

\* A writer never tries more often than it may, and no message is stored more
\* often than it was tried.
LEMMA TypeCluster ==
    ASSUME TypeOK, MessageProgress,
           ClusterChanges \/ \E c \in Calls : WriterAttempt(c)
    PROVE  TypeOK'
<1> USE DEF TypeOK, adapter, onlyLibrary, counters, publishing, cluster
<1>1. ASSUME NEW c \in Calls, WriterAttempt(c) PROVE TypeOK'
  <2>1. attempts[c] + 1 \in 0..MaxAttempts /\ copies[c] + 1 \in 0..MaxAttempts
    BY <1>1 DEF MessageProgress, WriterAttempt
  <2>2. AfterError(c) \subseteq Batches /\ "stored" \in Batches
    BY DEF AfterError, Batches
  <2>3. QED
    BY <1>1, <2>1, <2>2 DEF WriterAttempt
<1>2. CASE ClusterChanges
  BY <1>2 DEF ClusterChanges
<1>3. QED
  BY <1>1, <1>2

\* Every step keeps the state well typed.
LEMMA TypeStep ==
    ASSUME TypeOK, MessageProgress, [Next]_vars
    PROVE  TypeOK'
<1>1. CASE Next
  BY <1>1, TypeOwner, TypePublish, TypeProbe, TypeCluster DEF Next
<1>2. CASE UNCHANGED vars
  BY <1>2 DEF TypeOK, vars, adapter, counters, publishing, library, cluster
<1>3. QED
  BY <1>1, <1>2
-----------------------------------------------------------------------------
\* The owner, the stats requests and the cluster as such touch no message.
LEMMA MessageFrame ==
    ASSUME \/ ConnectCall \/ DisconnectCall \/ OwnerStep \/ ClusterChanges \/ UNCHANGED vars
           \/ \E h \in Probes : StatsCall(h) \/ ProbeStep(h)
    PROVE  UNCHANGED <<publishing, batch, attempts, copies, counters>>
<1> USE DEF publishing, library, cluster, counters
<1>1. CASE ConnectCall \/ DisconnectCall \/ OwnerStep
  BY <1>1 DEF onlyMain, ConnectCall, DisconnectCall, OwnerStep, ConnectWriter, ConnectDial,
              DisconnectCheck, DisconnectWriter
<1>2. CASE ClusterChanges
  BY <1>2 DEF onlyLibrary, ClusterChanges
<1>3. ASSUME NEW h \in Probes, StatsCall(h) \/ ProbeStep(h)
      PROVE  UNCHANGED <<publishing, batch, attempts, copies, counters>>
  BY <1>3 DEF onlyProbe, StatsCall, ProbeStep, GetStatsLock, GetStats
<1>4. CASE UNCHANGED vars
  BY <1>4 DEF vars
<1>5. QED
  BY <1>1, <1>2, <1>3, <1>4

\* A message follows its call.
LEMMA ProgressStep ==
    ASSUME TypeOK, MessageProgress, [Next]_vars
    PROVE  MessageProgress'
<1>1. ASSUME NEW c \in Calls, PublishCall(c) \/ PublishStep(c) \/ PublishContextEnds(c)
      PROVE  MessageProgress'
  <2> USE <1>1 DEF TypeOK, MessageProgress, Answer, onlyCall, cluster
  <2>1. CASE PublishCall(c)
    BY <2>1 DEF PublishCall
  <2>2. CASE PublishCheck(c)
    BY <2>2 DEF PublishCheck
  <2>3. CASE PublishReject(c)
    BY <2>3 DEF PublishReject
  <2>4. CASE PublishWrite(c)
    BY <2>4 DEF PublishWrite
  <2>5. CASE PublishReturned(c)
    BY <2>5 DEF PublishReturned
  <2>6. CASE PublishContextEnds(c)
    BY <2>6 DEF PublishContextEnds
  <2>7. CASE UpdateStatsLock(c)
    BY <2>7 DEF UpdateStatsLock
  <2>8. CASE UpdateStats(c)
    BY <2>8 DEF UpdateStats
  <2>9. QED
    BY <1>1, <2>1, <2>2, <2>3, <2>4, <2>5, <2>6, <2>7, <2>8 DEF PublishStep
<1>2. ASSUME NEW c \in Calls, WriterAttempt(c)
      PROVE  MessageProgress'
  BY <1>2 DEF TypeOK, MessageProgress, WriterAttempt, AfterError, onlyLibrary, publishing
<1>3. CASE UNCHANGED <<publishing, batch, attempts, copies, counters>>
  BY <1>3 DEF publishing, MessageProgress
<1>4. QED
  BY <1>1, <1>2, <1>3, MessageFrame DEF Next

\* The calls that have returned r.
Returned(r) == {c \in Calls : callPc[c] = "done" /\ result[c] = r}

\* A call is counted in the step in which it returns.
LEMMA CountersStep ==
    ASSUME TypeOK, MessageProgress, CountersExact, [Next]_vars
    PROVE  CountersExact'
<1>0. /\ published = Cardinality(Returned("ok"))
      /\ failed = Cardinality(Returned("error"))
  BY DEF CountersExact, Returned
<1>1. CASE UNCHANGED counters /\ Returned("ok")' = Returned("ok")
           /\ Returned("error")' = Returned("error")
  BY <1>0, <1>1 DEF CountersExact, Returned, counters
<1>2. ASSUME NEW c \in Calls, PublishCall(c) \/ PublishStep(c) \/ PublishContextEnds(c)
      PROVE  CountersExact'
  <2>1. CASE UpdateStats(c)
    <3>1. ASSUME NEW r \in {"ok", "error"}
          PROVE  /\ r = result[c] => /\ Returned(r)' = Returned(r) \cup {c}
                                     /\ c \notin Returned(r)
                 /\ r # result[c] => Returned(r)' = Returned(r)
      BY <2>1 DEF TypeOK, UpdateStats, Returned
    <3>2. \A r : IsFiniteSet(Returned(r))
      BY FiniteCalls, FS_Subset DEF Returned
    <3>3. \A r \in {"ok", "error"} :
             r = result[c] => Cardinality(Returned(r)') = Cardinality(Returned(r)) + 1
      BY <3>1, <3>2, FS_AddElement
    <3>4. /\ published' = Cardinality(Returned("ok")')
          /\ failed' = Cardinality(Returned("error")')
      <4>1. CASE result[c] = "ok"
        BY <1>0, <2>1, <3>1, <3>3, <4>1 DEF UpdateStats
      <4>2. CASE result[c] = "error"
        BY <1>0, <2>1, <3>1, <3>3, <4>2 DEF UpdateStats
      <4>3. QED
        BY <2>1, <4>1, <4>2 DEF UpdateStats
    <3>5. QED
      BY <3>4 DEF CountersExact, Returned
  <2>2. CASE ~UpdateStats(c)
    <3>1. /\ UNCHANGED counters
          /\ \A d \in Calls : d # c => callPc'[d] = callPc[d] /\ result'[d] = result[d]
          /\ callPc[c] # "done"
          /\ callPc'[c] # "done" \/ result'[c] = "refused"
      BY <1>2, <2>2 DEF TypeOK, PublishCall, PublishStep, PublishCheck, PublishReject,
                  PublishWrite, PublishReturned, PublishContextEnds, UpdateStatsLock, Answer,
                  counters
    <3>2. Returned("ok")' = Returned("ok") /\ Returned("error")' = Returned("error")
      BY <3>1 DEF Returned
    <3>3. QED
      BY <1>1, <3>1, <3>2
  <2>3. QED
    BY <2>1, <2>2
<1>3. CASE UNCHANGED <<publishing, counters>>
  BY <1>1, <1>3 DEF publishing, Returned
<1>4. ASSUME NEW c \in Calls, WriterAttempt(c) PROVE UNCHANGED <<publishing, counters>>
  BY <1>4 DEF WriterAttempt, onlyLibrary
<1>5. QED
  BY <1>2, <1>3, <1>4, MessageFrame DEF Next
-----------------------------------------------------------------------------
\* The invariant holds throughout.
THEOREM KafkaInvariance == Spec => []KInv
<1>1. KInv /\ [Next]_vars => KInv'
  BY TypeStep, ProgressStep, CountersStep DEF KInv
<1>2. QED
  BY KInvInit, <1>1, PTL DEF Spec

\* Type correctness; in particular no message is tried or stored more than
\* MaxAttempts times.
THEOREM KafkaTypeCorrect == Spec => []TypeOK
<1>1. KInv => TypeOK
  BY DEF KInv
<1>2. QED
  BY <1>1, KafkaInvariance, PTL

\* The counters count the answers, whatever becomes of the messages.
THEOREM KafkaCountersAreExact == Spec => []CountersExact
<1>1. KInv => CountersExact
  BY DEF KInv
<1>2. QED
  BY <1>1, KafkaInvariance, PTL
-----------------------------------------------------------------------------
\* What the contract sees: the answers and the messages that are in the topic.
outcomes == [c \in Calls |-> Outcome(c)]
stored == {c \in Calls : copies[c] > 0}

\* A step that changes neither stutters.
LEMMA OutcomeFrame ==
    ASSUME UNCHANGED <<publishing, copies>>
    PROVE  UNCHANGED <<outcomes, stored>>
BY DEF publishing, outcomes, Outcome, stored

\* One call moves: its outcome changes as its own progress says.
LEMMA OutcomeOf ==
    ASSUME NEW c \in Calls,
           \A d \in Calls : d # c => callPc'[d] = callPc[d] /\ result'[d] = result[d]
    PROVE  outcomes' = [outcomes EXCEPT ![c] = Outcome(c)']
BY DEF outcomes, Outcome

\* Every step of a call is a step of the contract, or stutters.
LEMMA PublishRefines ==
    ASSUME KInv, NEW c \in Calls, PublishCall(c) \/ PublishStep(c) \/ PublishContextEnds(c)
    PROVE  Contract!Next \/ UNCHANGED <<outcomes, stored>>
<1>0. /\ \A d \in Calls : d # c => callPc'[d] = callPc[d] /\ result'[d] = result[d]
      /\ outcomes[c] = Outcome(c) /\ UNCHANGED stored
      /\ callPc \in [Calls -> CallPcs] /\ result \in [Calls -> Results]
  BY DEF KInv, TypeOK, PublishCall, PublishStep, PublishCheck, PublishReject, PublishWrite,
         PublishReturned, PublishContextEnds, UpdateStatsLock, UpdateStats, Answer, outcomes,
         stored, onlyCall, cluster
<1>a. outcomes' = [outcomes EXCEPT ![c] = Outcome(c)']
  BY <1>0, OutcomeOf
<1>b. Outcome(c)' = Outcome(c) => UNCHANGED outcomes
  BY <1>0, <1>a DEF outcomes
<1> USE DEF Outcome, Answer
<1>1. CASE PublishCall(c)
  <2>1. outcomes[c] = "idle" /\ Outcome(c)' = "pending"
    BY <1>0, <1>1 DEF PublishCall
  <2>2. Contract!Call(c)
    BY <1>0, <1>a, <2>1 DEF Contract!Call, outcomes, stored
  <2>3. QED
    BY <2>2 DEF Contract!Next
<1>2. CASE PublishCheck(c)
  <2>1. CASE Outcome(c)' = "refused"
    <3>1. outcomes[c] = "pending" /\ c \notin stored
      BY <1>0, <1>2 DEF PublishCheck, KInv, TypeOK, MessageProgress, stored
    <3>2. Contract!Refuse(c)
      BY <1>0, <1>a, <2>1, <3>1 DEF Contract!Refuse, outcomes, stored
    <3>3. QED
      BY <3>2 DEF Contract!Next
  <2>2. CASE Outcome(c)' = Outcome(c)
    BY <1>0, <1>b, <2>2
  <2>3. QED
    BY <1>0, <1>2, <2>1, <2>2 DEF PublishCheck
<1>3. CASE UpdateStats(c)
  <2>1. outcomes[c] = "pending" /\ Outcome(c)' = result[c]
    BY <1>0, <1>3 DEF UpdateStats
  <2>2. CASE result[c] = "ok"
    <3>1. c \in stored
      BY <2>2 DEF KInv, MessageProgress, stored
    <3>2. Contract!ReturnOk(c)
      BY <1>0, <1>a, <2>1, <2>2, <3>1 DEF Contract!ReturnOk, outcomes, stored
    <3>3. QED
      BY <3>2 DEF Contract!Next
  <2>3. CASE result[c] = "error"
    <3>1. Contract!ReturnError(c)
      BY <1>0, <1>a, <2>1, <2>3 DEF Contract!ReturnError, outcomes, stored
    <3>2. QED
      BY <3>1 DEF Contract!Next
  <2>4. QED
    BY <1>3, <2>2, <2>3 DEF UpdateStats
<1>4. CASE PublishReject(c) \/ PublishWrite(c) \/ PublishReturned(c) \/ PublishContextEnds(c)
           \/ UpdateStatsLock(c)
  <2>1. Outcome(c)' = Outcome(c)
    BY <1>0, <1>4 DEF PublishReject, PublishWrite, PublishReturned, PublishContextEnds,
                      UpdateStatsLock
  <2>2. QED
    BY <1>0, <1>b, <2>1
<1>5. QED
  BY <1>1, <1>2, <1>3, <1>4 DEF PublishStep

\* A writer hands a message over while its call waits or has been told an error.
LEMMA AttemptRefines ==
    ASSUME KInv, NEW c \in Calls, WriterAttempt(c)
    PROVE  Contract!Next \/ UNCHANGED <<outcomes, stored>>
<1>1. UNCHANGED outcomes
  BY DEF WriterAttempt, onlyLibrary, publishing, outcomes, Outcome
<1>2. CASE copies' = copies
  BY <1>1, <1>2 DEF stored
<1>3. CASE copies' = [copies EXCEPT ![c] = @ + 1]
  <2>1. stored' = stored \cup {c}
    BY <1>3 DEF KInv, TypeOK, stored
  <2>2. outcomes[c] \in {"pending", "error"}
    BY DEF WriterAttempt, KInv, TypeOK, Results, MessageProgress, outcomes, Outcome
  <2>3. Contract!HandOver(c)
    BY <1>1, <2>1, <2>2 DEF Contract!HandOver, outcomes, stored
  <2>4. QED
    BY <2>3 DEF Contract!Next
<1>4. QED
  BY <1>2, <1>3 DEF WriterAttempt

\* The Kafka adapter keeps the promise of Broker.Publish: nil only for a message
\* that is in the topic, "not connected" only for one that never is.
THEOREM KafkaKeepsPublishContract == Spec => PublishContractHolds
<1>1. Init => Contract!Init
  BY DEF Init, Contract!Init, Outcome
<1>2. KInv /\ [Next]_vars => [Contract!Next]_(Contract!vars)
  <2> SUFFICES ASSUME KInv, [Next]_vars
               PROVE  Contract!Next \/ UNCHANGED Contract!vars
    OBVIOUS
  <2>1. CASE \E c \in Calls : PublishCall(c) \/ PublishStep(c) \/ PublishContextEnds(c)
    BY <2>1, PublishRefines DEF Contract!vars, outcomes, stored
  <2>2. CASE \E c \in Calls : WriterAttempt(c)
    BY <2>2, AttemptRefines DEF Contract!vars, outcomes, stored
  <2>3. CASE UNCHANGED <<publishing, copies>>
    BY <2>3, OutcomeFrame DEF Contract!vars, outcomes, stored
  <2>4. QED
    BY <2>1, <2>2, <2>3, MessageFrame DEF Next
<1>3. QED
  BY KafkaInvariance, <1>1, <1>2, PTL DEF Spec, PublishContractHolds, Contract!Spec
-----------------------------------------------------------------------------
(***************************************************************************)
(* The writer, for an owner that does not reconnect.                       *)
(***************************************************************************)

\* There is one writer.  A call holds it only if it found the flag up; once the
\* flag is down again the writer has been closed, with nothing left in it.
OneWriter ==
    /\ mainPc \in {"connect", "dial"} => ~connected /\ \A c \in Calls : snapshot[c] = Nil
    /\ (mainPc = "connect" => writer = Nil) /\ (mainPc = "dial" => writer # Nil)
    /\ mainPc = "closeWriter" => connected
    /\ writer = Nil => ~connected /\ \A c \in Calls : snapshot[c] = Nil
    /\ \A c \in Calls : snapshot[c] = Nil =>
          callPc[c] \notin {"ready", "writing"} /\ batch[c] # "queued"
    /\ \A c \in Calls : snapshot[c] # Nil =>
          /\ snapshot[c] = writer
          /\ ~connected => writerState[writer] = "closed"
    /\ \A c \in Calls : batch[c] = "queued" => connected

\* The owner keeps it so.
LEMMA OneWriterOwner ==
    ASSUME TypeOK, OneWriter, ~Reconnects, ConnectCall \/ DisconnectCall \/ OwnerStep
    PROVE  OneWriter'
<1> USE DEF TypeOK, OneWriter, adapter, onlyMain, publishing
<1>1. CASE ConnectCall
  BY <1>1 DEF ConnectCall
<1>2. CASE ConnectWriter
  BY <1>2, DistinctNames DEF ConnectWriter
<1>3. CASE ConnectDial
  BY <1>3 DEF ConnectDial
<1>4. CASE DisconnectCall
  BY <1>4 DEF DisconnectCall
<1>5. CASE DisconnectCheck
  BY <1>5 DEF DisconnectCheck
<1>6. CASE DisconnectWriter
  BY <1>6 DEF DisconnectWriter, Drained
<1>7. QED
  BY <1>1, <1>2, <1>3, <1>4, <1>5, <1>6 DEF OwnerStep

\* Every step keeps it so.
LEMMA OneWriterStep ==
    ASSUME TypeOK, OneWriter, ~Reconnects, [Next]_vars
    PROVE  OneWriter'
<1>1. ASSUME NEW c \in Calls, PublishCall(c) \/ PublishStep(c) \/ PublishContextEnds(c)
      PROVE  OneWriter'
  <2> USE <1>1 DEF TypeOK, OneWriter, Answer, onlyCall, adapter
  <2>1. CASE PublishCall(c)
    BY <2>1 DEF PublishCall
  <2>2. CASE PublishCheck(c)
    BY <2>2 DEF PublishCheck
  <2>3. CASE PublishReject(c)
    BY <2>3 DEF PublishReject
  <2>4. CASE PublishWrite(c)
    BY <2>4 DEF PublishWrite
  <2>5. CASE PublishReturned(c)
    BY <2>5 DEF PublishReturned
  <2>6. CASE PublishContextEnds(c)
    BY <2>6 DEF PublishContextEnds
  <2>7. CASE UpdateStatsLock(c)
    BY <2>7 DEF UpdateStatsLock
  <2>8. CASE UpdateStats(c)
    BY <2>8 DEF UpdateStats
  <2>9. QED
    BY <1>1, <2>1, <2>2, <2>3, <2>4, <2>5, <2>6, <2>7, <2>8 DEF PublishStep
<1>2. ASSUME NEW c \in Calls, WriterAttempt(c)
      PROVE  OneWriter'
  BY <1>2 DEF TypeOK, OneWriter, WriterAttempt, AfterError, onlyLibrary, publishing, adapter
<1>3. CASE \/ ClusterChanges \/ UNCHANGED vars
           \/ \E h \in Probes : StatsCall(h) \/ ProbeStep(h)
  BY <1>3 DEF OneWriter, ClusterChanges, onlyLibrary, vars, StatsCall, ProbeStep, GetStatsLock,
              GetStats, onlyProbe, publishing, library, adapter
<1>4. QED
  BY <1>1, <1>2, <1>3, OneWriterOwner DEF Next

\* Nothing is stored once Disconnect has returned, neither by a publish that had
\* copied the writer nor by a retry (kafka.go, Disconnect against Publish).
THEOREM KafkaSilentAfterDisconnect ==
    ASSUME ~Reconnects
    PROVE  Spec => SilentWhenDisconnected
<1>1. Init => OneWriter
  BY DEF Init, OneWriter
<1>2. KInv /\ OneWriter /\ [Next]_vars => OneWriter'
  BY OneWriterStep DEF KInv
<1>3. KInv /\ OneWriter /\ [Next]_vars
      => [(mainPc = "idle" /\ ~connected) => copies' = copies]_vars
  <2> SUFFICES ASSUME KInv, OneWriter, [Next]_vars, ~connected
               PROVE  copies' = copies
    OBVIOUS
  <2>1. ASSUME NEW c \in Calls, WriterAttempt(c) PROVE FALSE
    BY <2>1 DEF WriterAttempt, OneWriter
  <2>2. ASSUME NEW c \in Calls, PublishCall(c) \/ PublishStep(c) \/ PublishContextEnds(c)
        PROVE  copies' = copies
    BY <2>2 DEF PublishCall, PublishStep, PublishCheck, PublishReject, PublishWrite, PublishReturned,
                PublishContextEnds, UpdateStatsLock, UpdateStats, onlyCall, cluster
  <2>3. QED
    BY <2>1, <2>2, MessageFrame DEF Next
<1>4. QED
  BY KafkaInvariance, <1>1, <1>2, <1>3, PTL DEF Spec, SilentWhenDisconnected
-----------------------------------------------------------------------------
(***************************************************************************)
(* The order of the locks, and what Disconnect waits for, for any owner.   *)
(***************************************************************************)

\* mu is the owner's from its announcement to the end of Connect or Disconnect,
\* and read-held at no point where another goroutine can run.
MuHeld ==
    /\ mu.readers = {}
    /\ mu.writer = IF mainPc = "idle" THEN {} ELSE {Main}
    /\ mainPc = "connect" => \E w \in Writers : writerState[w] = "none"

\* stats.mu: the one call that counts has announced itself, the readers are the
\* stats requests between the two locks.
StatsMuHeld ==
    /\ statsMu.writer \subseteq Calls /\ statsMu.readers \subseteq Probes
    /\ \A c, d \in statsMu.writer : c = d
    /\ \A c \in Calls : c \in statsMu.writer <=> callPc[c] = "counting"
    /\ \A h \in Probes : h \in statsMu.readers <=> probePc[h] = "inStats"

\* A publish that waits in the writer has a message there.
WaitsForItsMessage == \A c \in Calls : callPc[c] = "writing" => batch[c] # "none"

LockInv == MuHeld /\ StatsMuHeld /\ WaitsForItsMessage

\* Only the owner locks mu, and it lets go of it when it returns.
LEMMA MuHeldStep ==
    ASSUME TypeOK, MuHeld, [Next]_vars
    PROVE  MuHeld'
<1>0. mu \in [readers : SUBSET Goroutines, writer : SUBSET Goroutines]
  BY DEF TypeOK, LockValue
<1>1. CASE UNCHANGED <<mu, mainPc, writerState>>
  BY <1>1 DEF MuHeld
<1>2. CASE ConnectCall \/ DisconnectCall
  <2>1. mu'.readers = mu.readers /\ mu'.writer = {Main} /\ mainPc' # "idle"
    BY <1>0, <1>2 DEF ConnectCall, DisconnectCall, Announce
  <2>2. mainPc' = "connect" => \E w \in Writers : writerState'[w] = "none"
    BY <1>2 DEF ConnectCall, DisconnectCall
  <2>3. QED
    BY <2>1, <2>2 DEF MuHeld
<1>3. CASE OwnerStep
  <2>1. mainPc # "idle" /\ mainPc' # "connect"
    BY <1>3 DEF OwnerStep, ConnectWriter, ConnectDial, DisconnectCheck, DisconnectWriter
  <2>2. \/ UNCHANGED mu /\ mainPc' # "idle"
        \/ mu' = Unlock(mu) /\ mainPc' = "idle"
    BY <1>3 DEF OwnerStep, ConnectWriter, ConnectDial, DisconnectCheck, DisconnectWriter
  <2>3. Unlock(mu).readers = mu.readers /\ Unlock(mu).writer = {}
    BY <1>0 DEF Unlock
  <2>4. QED
    BY <2>1, <2>2, <2>3 DEF MuHeld
<1>4. ASSUME NEW c \in Calls,
             PublishCall(c) \/ PublishStep(c) \/ PublishContextEnds(c) \/ WriterAttempt(c)
      PROVE  UNCHANGED <<mu, mainPc, writerState>>
  BY <1>4 DEF PublishCall, PublishStep, PublishCheck, PublishReject, PublishWrite, PublishReturned,
              PublishContextEnds, UpdateStatsLock, UpdateStats, WriterAttempt, onlyCall, onlyLibrary
<1>5. ASSUME NEW h \in Probes, StatsCall(h) \/ ProbeStep(h)
      PROVE  UNCHANGED <<mu, mainPc, writerState>>
  BY <1>5 DEF StatsCall, ProbeStep, GetStatsLock, GetStats, onlyProbe, library
<1>6. ClusterChanges \/ UNCHANGED vars => UNCHANGED <<mu, mainPc, writerState>>
  BY DEF ClusterChanges, onlyLibrary, vars, library
<1>7. QED
  BY <1>1, <1>2, <1>3, <1>4, <1>5, <1>6 DEF Next

\* The calls that count take stats.mu one at a time, the stats requests share it.
LEMMA StatsMuStep ==
    ASSUME TypeOK, StatsMuHeld, [Next]_vars
    PROVE  StatsMuHeld'
<1>0. /\ statsMu \in [readers : SUBSET Goroutines, writer : SUBSET Goroutines]
      /\ callPc \in [Calls -> CallPcs] /\ probePc \in [Probes -> ProbePcs]
  BY DEF TypeOK, LockValue
<1>1. CASE UNCHANGED <<statsMu, callPc, probePc>>
  BY <1>1 DEF StatsMuHeld
<1>2. ASSUME NEW c \in Calls, PublishCall(c) \/ PublishStep(c) \/ PublishContextEnds(c)
      PROVE  StatsMuHeld'
  <2>0. UNCHANGED probePc /\ \A d \in Calls : d # c => callPc'[d] = callPc[d]
    BY <1>0, <1>2 DEF PublishCall, PublishStep, PublishCheck, PublishReject, PublishWrite,
                PublishReturned, PublishContextEnds, UpdateStatsLock, UpdateStats, Answer, onlyCall
  <2>1. CASE UpdateStatsLock(c)
    <3>1. statsMu.writer = {} /\ statsMu'.writer = {c} /\ callPc'[c] = "counting"
          /\ statsMu'.readers = statsMu.readers
      BY <1>0, <2>1 DEF UpdateStatsLock, CanAnnounce, Announce
    <3>2. QED
      BY <2>0, <3>1 DEF StatsMuHeld
  <2>2. CASE UpdateStats(c)
    <3>1. statsMu.writer = {c} /\ statsMu'.writer = {} /\ callPc'[c] = "done"
          /\ statsMu'.readers = statsMu.readers
      BY <1>0, <2>2 DEF UpdateStats, CanEnter, Unlock
    <3>2. QED
      BY <2>0, <3>1 DEF StatsMuHeld
  <2>3. CASE ~UpdateStatsLock(c) /\ ~UpdateStats(c)
    <3>1. UNCHANGED statsMu /\ callPc[c] # "counting" /\ callPc'[c] # "counting"
      BY <1>0, <1>2, <2>3 DEF PublishCall, PublishStep, PublishCheck, PublishReject, PublishWrite,
                              PublishReturned, PublishContextEnds, Answer
    <3>2. QED
      BY <2>0, <3>1 DEF StatsMuHeld
  <2>4. QED
    BY <2>1, <2>2, <2>3
<1>3. ASSUME NEW h \in Probes, StatsCall(h) \/ ProbeStep(h) PROVE StatsMuHeld'
  <2>0. UNCHANGED callPc /\ \A g \in Probes : g # h => probePc'[g] = probePc[g]
    BY <1>0, <1>3 DEF StatsCall, ProbeStep, GetStatsLock, GetStats, onlyProbe, publishing
  <2>1. CASE StatsCall(h)
    <3>1. UNCHANGED statsMu /\ probePc[h] # "inStats" /\ probePc'[h] # "inStats"
      BY <1>0, <2>1 DEF StatsCall
    <3>2. QED
      BY <2>0, <3>1 DEF StatsMuHeld
  <2>2. CASE GetStatsLock(h)
    <3>1. /\ statsMu'.readers = statsMu.readers \cup {h} /\ probePc'[h] = "inStats"
          /\ statsMu'.writer = statsMu.writer
      BY <1>0, <2>2 DEF GetStatsLock, RLock
    <3>2. QED
      BY <2>0, <3>1 DEF StatsMuHeld
  <2>3. CASE GetStats(h)
    <3>1. /\ statsMu'.readers = statsMu.readers \ {h} /\ probePc'[h] = "done"
          /\ statsMu'.writer = statsMu.writer
      BY <1>0, <2>3 DEF GetStats, RUnlock
    <3>2. QED
      BY <2>0, <3>1 DEF StatsMuHeld
  <2>4. QED
    BY <1>3, <2>1, <2>2, <2>3 DEF ProbeStep
<1>4. ConnectCall \/ DisconnectCall \/ OwnerStep => UNCHANGED <<statsMu, callPc, probePc>>
  BY DEF ConnectCall, DisconnectCall, OwnerStep, ConnectWriter, ConnectDial, DisconnectCheck,
         DisconnectWriter, onlyMain, publishing
<1>5. ClusterChanges \/ UNCHANGED vars \/ (\E c \in Calls : WriterAttempt(c))
      => UNCHANGED <<statsMu, callPc, probePc>>
  BY DEF ClusterChanges, WriterAttempt, onlyLibrary, vars, publishing
<1>6. QED
  BY <1>1, <1>2, <1>3, <1>4, <1>5 DEF Next

\* WriteMessages queues the message before it waits, and nothing takes it out
\* unanswered.
LEMMA WaitsStep ==
    ASSUME TypeOK, WaitsForItsMessage, [Next]_vars
    PROVE  WaitsForItsMessage'
<1>1. ASSUME NEW c \in Calls, PublishCall(c) \/ PublishStep(c) \/ PublishContextEnds(c)
      PROVE  WaitsForItsMessage'
  BY <1>1 DEF TypeOK, WaitsForItsMessage, PublishCall, PublishStep, PublishCheck, PublishReject,
              PublishWrite, PublishReturned, PublishContextEnds, UpdateStatsLock, UpdateStats, Answer
<1>2. ASSUME NEW c \in Calls, WriterAttempt(c) PROVE WaitsForItsMessage'
  BY <1>2 DEF TypeOK, WaitsForItsMessage, WriterAttempt, AfterError, onlyLibrary, publishing
<1>3. CASE UNCHANGED <<publishing, batch, attempts, copies, counters>>
  BY <1>3 DEF publishing, WaitsForItsMessage
<1>4. QED
  BY <1>1, <1>2, <1>3, MessageFrame DEF Next

\* Something the owner's writer waits for can happen, and takes no lock: it tries
\* a message again, or a publish returns whose message it has done with.
WriterMoves ==
    \E c \in Calls :
        /\ snapshot[c] = writer
        /\ \/ batch[c] = "queued"
           \/ callPc[c] = "writing" /\ batch[c] \in {"stored", "failed"}

\* The owner can go on, or waits for a writer that can.
OwnerMoves ==
    /\ mainPc # "idle" /\ CanEnter(mu, Main)
    /\ mainPc = "connect" => \E w \in Writers : writerState[w] = "none"
    /\ mainPc = "closeWriter" => Drained(writer) \/ WriterMoves

\* One of those who hold stats.mu can go on, or waits for an owner that can.
StatsHolderMoves ==
    \/ \E c \in Calls :
          callPc[c] = "counting" /\ CanEnter(statsMu, c) /\ result[c] \in {"ok", "error"}
    \/ \E h \in Probes : probePc[h] = "inStats" /\ (CanRLock(mu) \/ OwnerMoves)

NoLockCycle ==
    /\ mu # Unlocked => OwnerMoves
    /\ statsMu # Unlocked => StatsHolderMoves

\* Disconnect waits inside mu for publishes, stats requests wait inside stats.mu
\* for mu, publishes wait for stats.mu once they have left the writer: there is no
\* cycle in it, with any number of publishes, stats requests, writers and retries,
\* and an owner that connects again or does not.  Someone of those who hold a lock,
\* or of those the writer waits for, can always go on (kafka.go, Disconnect,
\* GetStats, updateStats).
THEOREM KafkaLocksNeverCycle == Spec => []NoLockCycle
<1>1. Init => LockInv
  BY DEF Init, LockInv, Unlocked, MuHeld, StatsMuHeld, WaitsForItsMessage
<1>2. KInv /\ LockInv /\ [Next]_vars => LockInv'
  BY MuHeldStep, StatsMuStep, WaitsStep DEF KInv, LockInv
<1>3. KInv /\ LockInv => NoLockCycle
  <2> SUFFICES ASSUME KInv, LockInv PROVE NoLockCycle
    OBVIOUS
  <2>0. /\ mu \in [readers : SUBSET Goroutines, writer : SUBSET Goroutines]
        /\ statsMu \in [readers : SUBSET Goroutines, writer : SUBSET Goroutines]
        /\ batch \in [Calls -> Batches]
    BY DEF KInv, TypeOK, LockValue
  <2>1. Drained(writer) \/ WriterMoves
    BY <2>0 DEF Drained, WriterMoves, LockInv, WaitsForItsMessage, Batches
  <2>2. ASSUME mu # Unlocked PROVE OwnerMoves
    <3>1. mainPc # "idle"
      BY <2>0, <2>2 DEF LockInv, MuHeld, Unlocked
    <3>2. QED
      BY <2>1, <3>1 DEF LockInv, MuHeld, OwnerMoves, CanEnter
  <2>3. CanRLock(mu) \/ OwnerMoves
    BY <2>2 DEF CanRLock, Unlocked
  <2>4. ASSUME statsMu # Unlocked PROVE StatsHolderMoves
    <3>1. CASE statsMu.readers # {}
      BY <2>3, <3>1 DEF LockInv, StatsMuHeld, StatsHolderMoves
    <3>2. CASE statsMu.readers = {}
      <4>1. statsMu.writer # {}
        BY <2>0, <2>4, <3>2 DEF Unlocked
      <4>2. PICK c \in Calls : c \in statsMu.writer /\ statsMu.writer = {c}
        BY <4>1 DEF LockInv, StatsMuHeld
      <4>3. callPc[c] = "counting" /\ result[c] \in {"ok", "error"}
        BY <4>2 DEF LockInv, StatsMuHeld, KInv, MessageProgress
      <4>4. QED
        BY <3>2, <4>2, <4>3 DEF StatsHolderMoves, CanEnter
    <3>3. QED
      BY <3>1, <3>2
  <2>5. QED
    BY <2>2, <2>4 DEF NoLockCycle
<1>4. QED
  BY KafkaInvariance, <1>1, <1>2, <1>3, PTL DEF Spec
=============================================================================
