---------------------------- MODULE KafkaAdapter ----------------------------
(***************************************************************************)
(* The publishing side of the Kafka adapter                                *)
(* (internal/broker/adapters/kafka.go): Connect, Disconnect, Publish,      *)
(* IsHealthy, GetStats.  A publish hands its message to the writer of the  *)
(* client library, which writes it in the background, trying again after   *)
(* an error, while the publish waits; Disconnect closes the writer, which  *)
(* waits for what is under way, and holds mu meanwhile.  Subscribe, which  *)
(* the service does not call, is in KafkaConsumer; here the adapter has no *)
(* reader.                                                                 *)
(***************************************************************************)
EXTENDS Naturals, FiniteSets, RWMutex

CONSTANTS
    Calls,          \* calls of Publish, one message each
    Probes,         \* requests to the stats endpoint
    Writers,        \* writers Connect can make
    Main,           \* the goroutine that owns the adapter
    Nil,            \* Go's nil pointer
    MaxAttempts,    \* how often a writer tries to write a message
    Reconnects      \* may the owner connect again once it has disconnected?

Goroutines == Calls \cup Probes \cup {Main}

ASSUME DistinctNames ==
    /\ Calls \cap Probes = {}
    /\ Main \notin Calls \cup Probes
    /\ Nil \notin Writers

ASSUME FiniteCalls == IsFiniteSet(Calls)

ASSUME MaxAttemptsIsPositive == MaxAttempts \in Nat \ {0}

ASSUME ReconnectsIsBoolean == Reconnects \in BOOLEAN

VARIABLES
    writer, connected, mu,        \* fields of KafkaAdapter
    published, failed, statsMu,   \* fields of its Stats
    mainPc,                       \* the owner
    callPc, snapshot, result,     \* Publish: its copy of the writer, its answer
    probePc,                      \* GetStats
    writerState,                  \* the library's writers
    batch, attempts,              \* what a writer does with the message of a
                                  \*   call, and how often it has tried
    copies,                       \* how many times the topic holds the message
    brokerUp                      \* does the cluster answer?

adapter == <<writer, connected>>
counters == <<published, failed>>
publishing == <<callPc, snapshot, result>>
library == <<writerState, batch, attempts>>
cluster == <<copies, brokerUp>>

vars == <<adapter, mu, counters, statsMu, mainPc, publishing, probePc, library, cluster>>
-----------------------------------------------------------------------------
MainPcs == {"idle", "connect", "dial", "disconnect", "closeWriter"}
CallPcs == {"idle", "called", "ready", "writing", "stats", "counting", "done"}
Results == {"none", "ok", "error", "refused"}
ProbePcs == {"idle", "getStats", "inStats", "done"}
WriterStates == {"none", "open", "closing", "closed"}
Batches == {"none", "queued", "stored", "failed"}

TypeOK ==
    /\ writer \in Writers \cup {Nil} /\ connected \in BOOLEAN
    /\ mu \in LockValue(Goroutines) /\ statsMu \in LockValue(Goroutines)
    /\ published \in Nat /\ failed \in Nat
    /\ mainPc \in MainPcs
    /\ callPc \in [Calls -> CallPcs]
    /\ snapshot \in [Calls -> Writers \cup {Nil}]
    /\ result \in [Calls -> Results]
    /\ probePc \in [Probes -> ProbePcs]
    /\ writerState \in [Writers -> WriterStates]
    /\ batch \in [Calls -> Batches]
    /\ attempts \in [Calls -> 0..MaxAttempts]
    /\ copies \in [Calls -> 0..MaxAttempts]
    /\ brokerUp \in BOOLEAN

\* NewKafkaAdapter: the zero value of every field.
Init ==
    /\ writer = Nil /\ connected = FALSE
    /\ mu = Unlocked /\ statsMu = Unlocked
    /\ published = 0 /\ failed = 0
    /\ mainPc = "idle"
    /\ callPc = [c \in Calls |-> "idle"]
    /\ snapshot = [c \in Calls |-> Nil]
    /\ result = [c \in Calls |-> "none"]
    /\ probePc = [h \in Probes |-> "idle"]
    /\ writerState = [w \in Writers |-> "none"]
    /\ batch = [c \in Calls |-> "none"]
    /\ attempts = [c \in Calls |-> 0]
    /\ copies = [c \in Calls |-> 0]
    /\ brokerUp \in BOOLEAN
-----------------------------------------------------------------------------
(***************************************************************************)
(* Connect and Disconnect hold mu from beginning to end.                   *)
(***************************************************************************)
onlyMain == <<counters, statsMu, publishing, probePc, batch, attempts, cluster>>

\* The service calls Connect once, from server.New.
ConnectCall ==
    /\ mainPc = "idle"
    /\ writer = Nil \/ (Reconnects /\ ~connected)
    /\ \E w \in Writers : writerState[w] = "none"
    /\ CanAnnounce(mu)
    /\ mu' = Announce(mu, Main)
    /\ mainPc' = "connect"
    /\ UNCHANGED <<adapter, writerState, onlyMain>>

\* The writer is made and assigned before the cluster has been asked.
ConnectWriter ==
    /\ mainPc = "connect"
    /\ CanEnter(mu, Main)
    /\ \E w \in Writers :
        /\ writerState[w] = "none"
        /\ writerState' = [writerState EXCEPT ![w] = "open"]
        /\ writer' = w
    /\ mainPc' = "dial"
    /\ UNCHANGED <<connected, mu, onlyMain>>

\* DialLeader fails or succeeds; its connection is closed at once.
ConnectDial ==
    /\ mainPc = "dial"
    /\ \/ brokerUp /\ connected' = TRUE
       \/ UNCHANGED connected
    /\ mainPc' = "idle"
    /\ mu' = Unlock(mu)
    /\ UNCHANGED <<writer, writerState, onlyMain>>

DisconnectCall ==
    /\ mainPc = "idle"
    /\ CanAnnounce(mu)
    /\ mu' = Announce(mu, Main)
    /\ mainPc' = "disconnect"
    /\ UNCHANGED <<adapter, writerState, onlyMain>>

\* Not connected: return.  Otherwise call writer.Close, which first of all keeps
\* new writes out.
DisconnectCheck ==
    /\ mainPc = "disconnect"
    /\ CanEnter(mu, Main)
    /\ \/ /\ ~connected
          /\ mainPc' = "idle"
          /\ mu' = Unlock(mu)
          /\ UNCHANGED writerState
       \/ /\ connected
          /\ writerState' = [writerState EXCEPT ![writer] = "closing"]
          /\ mainPc' = "closeWriter"
          /\ UNCHANGED mu
    /\ UNCHANGED <<adapter, onlyMain>>

\* A writer has nothing to do: no publish waits in it and no message is queued.
Drained(w) ==
    \A c \in Calls : snapshot[c] = w => callPc[c] # "writing" /\ batch[c] # "queued"

\* Mutant: the publishes that wait are not waited for, as if Async were set.
DisconnectWriterAtOnce ==
    /\ mainPc = "closeWriter"
    /\ writerState' = [writerState EXCEPT ![writer] = "closed"]
    /\ connected' = FALSE
    /\ mainPc' = "idle"
    /\ mu' = Unlock(mu)
    /\ UNCHANGED <<writer, onlyMain>>

\* Mutant: Disconnect waits until the publishes have returned.
DisconnectWriterAwaitsCalls ==
    /\ mainPc = "closeWriter"
    /\ \A c \in Calls : callPc[c] \in {"idle", "called", "done"}
    /\ writerState' = [writerState EXCEPT ![writer] = "closed"]
    /\ connected' = FALSE
    /\ mainPc' = "idle"
    /\ mu' = Unlock(mu)
    /\ UNCHANGED <<writer, onlyMain>>

\* writer.Close returns when what is under way has been done.
DisconnectWriter ==
    /\ mainPc = "closeWriter"
    /\ Drained(writer)
    /\ writerState' = [writerState EXCEPT ![writer] = "closed"]
    /\ connected' = FALSE
    /\ mainPc' = "idle"
    /\ mu' = Unlock(mu)
    /\ UNCHANGED <<writer, onlyMain>>
-----------------------------------------------------------------------------
(***************************************************************************)
(* Publish.                                                                *)
(***************************************************************************)
onlyCall == <<adapter, mu, mainPc, probePc, writerState, cluster>>

Answer(c, r, next) ==
    /\ result' = [result EXCEPT ![c] = r]
    /\ callPc' = [callPc EXCEPT ![c] = next]

PublishCall(c) ==
    /\ callPc[c] = "idle"
    /\ callPc' = [callPc EXCEPT ![c] = "called"]
    /\ UNCHANGED <<snapshot, result, batch, attempts, counters, statsMu, onlyCall>>

\* Nothing blocks between the RLock and the RUnlock.
PublishCheck(c) ==
    /\ callPc[c] = "called"
    /\ CanRLock(mu)
    /\ \/ /\ ~connected \/ writer = Nil
          /\ Answer(c, "refused", "done")
          /\ UNCHANGED snapshot
       \/ /\ connected /\ writer # Nil
          /\ snapshot' = [snapshot EXCEPT ![c] = writer]
          /\ callPc' = [callPc EXCEPT ![c] = "ready"]
          /\ UNCHANGED result
    /\ UNCHANGED <<batch, attempts, counters, statsMu, onlyCall>>

\* Validate or ToJSON rejects the message, or WriteMessages returns before it
\* has queued it: the writer is closed, or finds no partition to write to.
PublishReject(c) ==
    /\ callPc[c] = "ready"
    /\ Answer(c, "error", "stats")
    /\ UNCHANGED <<snapshot, batch, attempts, counters, statsMu, onlyCall>>

\* WriteMessages queues the message and waits.
PublishWrite(c) ==
    /\ callPc[c] = "ready"
    /\ writerState[snapshot[c]] = "open"
    /\ batch' = [batch EXCEPT ![c] = "queued"]
    /\ callPc' = [callPc EXCEPT ![c] = "writing"]
    /\ UNCHANGED <<snapshot, result, attempts, counters, statsMu, onlyCall>>

\* WriteMessages returns: the writer has done with the message.
PublishReturned(c) ==
    /\ callPc[c] = "writing"
    /\ \/ batch[c] = "stored" /\ Answer(c, "ok", "stats")
       \/ batch[c] = "failed" /\ Answer(c, "error", "stats")
    /\ UNCHANGED <<snapshot, batch, attempts, counters, statsMu, onlyCall>>

\* Mutant: an ended context counts as a success.
PublishContextEndsWell(c) ==
    /\ callPc[c] = "writing"
    /\ Answer(c, "ok", "stats")
    /\ UNCHANGED <<snapshot, batch, attempts, counters, statsMu, onlyCall>>

\* ctx ends, which it does when the server shuts down and tracing is on:
\* WriteMessages returns and leaves the message to the writer.
PublishContextEnds(c) ==
    /\ callPc[c] = "writing"
    /\ Answer(c, "error", "stats")
    /\ UNCHANGED <<snapshot, batch, attempts, counters, statsMu, onlyCall>>

UpdateStatsLock(c) ==
    /\ callPc[c] = "stats"
    /\ CanAnnounce(statsMu)
    /\ statsMu' = Announce(statsMu, c)
    /\ callPc' = [callPc EXCEPT ![c] = "counting"]
    /\ UNCHANGED <<snapshot, result, batch, attempts, counters, onlyCall>>

\* Mutant: a message that is stored counts as published, whatever was answered.
UpdateStatsCountsStored(c) ==
    /\ callPc[c] = "counting"
    /\ CanEnter(statsMu, c)
    /\ \/ batch[c] = "stored" /\ published' = published + 1 /\ UNCHANGED failed
       \/ batch[c] # "stored" /\ failed' = failed + 1 /\ UNCHANGED published
    /\ statsMu' = Unlock(statsMu)
    /\ callPc' = [callPc EXCEPT ![c] = "done"]
    /\ UNCHANGED <<snapshot, result, batch, attempts, onlyCall>>

\* Under the lock, in one step: the load and the store of the increment are
\* looked at in RabbitMQAdapter.
UpdateStats(c) ==
    /\ callPc[c] = "counting"
    /\ CanEnter(statsMu, c)
    /\ \/ result[c] = "ok" /\ published' = published + 1 /\ UNCHANGED failed
       \/ result[c] = "error" /\ failed' = failed + 1 /\ UNCHANGED published
    /\ statsMu' = Unlock(statsMu)
    /\ callPc' = [callPc EXCEPT ![c] = "done"]
    /\ UNCHANGED <<snapshot, result, batch, attempts, onlyCall>>
-----------------------------------------------------------------------------
(***************************************************************************)
(* GetStats, which asks IsHealthy inside stats.mu.                         *)
(***************************************************************************)
onlyProbe == <<adapter, mu, counters, mainPc, publishing, library, cluster>>

StatsCall(h) ==
    /\ probePc[h] = "idle"
    /\ probePc' = [probePc EXCEPT ![h] = "getStats"]
    /\ UNCHANGED <<statsMu, onlyProbe>>

GetStatsLock(h) ==
    /\ probePc[h] = "getStats"
    /\ CanRLock(statsMu)
    /\ statsMu' = RLock(statsMu, h)
    /\ probePc' = [probePc EXCEPT ![h] = "inStats"]
    /\ UNCHANGED onlyProbe

\* IsHealthy takes the read lock of mu.  What is shown is left out:
\* RabbitMQAdapter has it.
GetStats(h) ==
    /\ probePc[h] = "inStats"
    /\ CanRLock(mu)
    /\ statsMu' = RUnlock(statsMu, h)
    /\ probePc' = [probePc EXCEPT ![h] = "done"]
    /\ UNCHANGED onlyProbe
-----------------------------------------------------------------------------
(***************************************************************************)
(* The client library and the cluster.                                     *)
(***************************************************************************)
onlyLibrary == <<adapter, mu, counters, statsMu, mainPc, publishing, probePc, writerState>>

\* After an error a writer tries again if it may, unless the error is final.
AfterError(c) == IF attempts[c] + 1 < MaxAttempts THEN {"queued", "failed"} ELSE {"failed"}

\* A writer writes a message: it is stored and acknowledged, or stored and the
\* acknowledgement is lost, or not stored.
WriterAttempt(c) ==
    /\ batch[c] = "queued"
    /\ attempts' = [attempts EXCEPT ![c] = @ + 1]
    /\ \/ /\ brokerUp
          /\ copies' = [copies EXCEPT ![c] = @ + 1]
          /\ \E b \in {"stored"} \cup AfterError(c) : batch' = [batch EXCEPT ![c] = b]
       \/ /\ \E b \in AfterError(c) : batch' = [batch EXCEPT ![c] = b]
          /\ UNCHANGED copies
    /\ UNCHANGED <<brokerUp, onlyLibrary>>

\* The cluster goes away or comes back.
ClusterChanges ==
    /\ brokerUp' = ~brokerUp
    /\ UNCHANGED <<copies, batch, attempts, onlyLibrary>>
-----------------------------------------------------------------------------
OwnerStep ==
    ConnectWriter \/ ConnectDial \/ DisconnectCheck \/ DisconnectWriter

PublishStep(c) ==
    \/ PublishCheck(c) \/ PublishReject(c) \/ PublishWrite(c) \/ PublishReturned(c)
    \/ UpdateStatsLock(c) \/ UpdateStats(c)

ProbeStep(h) == GetStatsLock(h) \/ GetStats(h)

Next ==
    \/ ConnectCall \/ DisconnectCall \/ OwnerStep
    \/ \E c \in Calls :
        PublishCall(c) \/ PublishStep(c) \/ PublishContextEnds(c) \/ WriterAttempt(c)
    \/ \E h \in Probes : StatsCall(h) \/ ProbeStep(h)
    \/ ClusterChanges

(***************************************************************************)
(* As in RabbitMQAdapter, a goroutine that can run does; an attempt of a   *)
(* writer ends because its network calls have deadlines.  No context has   *)
(* to end, and the cluster may stay away.                                  *)
(***************************************************************************)
Fairness ==
    /\ SF_vars(OwnerStep)
    /\ \A c \in Calls : SF_vars(PublishStep(c)) /\ WF_vars(WriterAttempt(c))
    /\ \A h \in Probes : SF_vars(ProbeStep(h))

Spec == Init /\ [][Next]_vars

FairSpec == Spec /\ Fairness
-----------------------------------------------------------------------------
(***************************************************************************)
(* Properties.                                                             *)
(***************************************************************************)

\* MessagesPublished counts exactly the calls that returned nil and
\* MessagesFailed those that returned another error than "not connected", also
\* when the message of a failed call is stored later (kafka.go, Publish and
\* updateStats).
CountersExact ==
    /\ published = Cardinality({c \in Calls : callPc[c] = "done" /\ result[c] = "ok"})
    /\ failed = Cardinality({c \in Calls : callPc[c] = "done" /\ result[c] = "error"})

\* Once Disconnect has returned nothing more is stored: neither by a publish
\* that copied the writer before, nor by a retry of a message whose publish
\* has given up (kafka.go, Disconnect against Publish's use of the writer
\* outside the lock).
SilentWhenDisconnected ==
    [][(mainPc = "idle" /\ ~connected) => copies' = copies]_vars

\* What the caller of Publish is promised: see PublishContract.
Outcome(c) ==
    IF callPc[c] = "idle" THEN "idle"
    ELSE IF callPc[c] = "done" THEN result[c] ELSE "pending"

Contract == INSTANCE PublishContract
    WITH outcome <- [c \in Calls |-> Outcome(c)], handed <- {c \in Calls : copies[c] > 0}

PublishContractHolds == Contract!Spec

\* Disconnect waits, holding mu, for publishes; stats requests wait for mu,
\* holding stats.mu; publishes that have left the writer wait for stats.mu.
\* All of them return all the same (kafka.go, Disconnect, GetStats,
\* updateStats).
EverybodyReturns ==
    /\ mainPc # "idle" ~> mainPc = "idle"
    /\ \A c \in Calls : callPc[c] = "called" ~> callPc[c] = "done"
    /\ \A h \in Probes : probePc[h] = "getStats" ~> probePc[h] = "done"
=============================================================================
