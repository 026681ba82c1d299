-------------------- MODULE AzureServiceBusAdapterProofs --------------------
(***************************************************************************)
(* Proofs about AzureServiceBusAdapter: the counters and the contract of   *)
(* Publish, what Disconnect leaves possible, the types, how often a        *)
(* handler accepts an event, and the order of the locks.                   *)
(***************************************************************************)
EXTENDS AzureServiceBusAdapter, RWMutexProofs, FiniteSetTheorems, TLAPS
-----------------------------------------------------------------------------
PublishTypes ==
    /\ connected \in BOOLEAN /\ sender \in Links
    /\ published \in Nat /\ failed \in Nat
    /\ callPc \in [Calls -> CallPcs]
    /\ result \in [Calls -> {"none", "ok", "error", "refused"}]
    /\ stored \subseteq Calls

\* How far a call is, and whether the topic has its message.
MessageProgress ==
    \A c \in Calls :
        /\ callPc[c] \in {"idle", "called", "ready"} => result[c] = "none" /\ c \notin stored
        /\ callPc[c] \in {"stats", "counting"} => result[c] \in {"ok", "error"}
        /\ callPc[c] = "done" => result[c] # "none"
        /\ result[c] = "ok" => c \in stored
        /\ result[c] = "refused" => c \notin stored

\* There is one sender; it is open as long as the flag is up and nobody has
\* begun to disconnect, and open without the flag never.
SenderFollowsFlag ==
    /\ ~connected => sender # "open"
    /\ mainPc \in {"closeReceiver", "closeClient"} => sender # "open"

AInv == PublishTypes /\ MessageProgress /\ CountersExact /\ SenderFollowsFlag
-----------------------------------------------------------------------------
\* The initial state satisfies the invariant: nothing has been called.
LEMMA AInvInit == Init => AInv
<1> SUFFICES ASSUME Init PROVE AInv
  OBVIOUS
<1>1. PublishTypes /\ MessageProgress /\ SenderFollowsFlag
  BY DEF Init, PublishTypes, MessageProgress, SenderFollowsFlag, CallPcs, Links
<1>2. /\ {c \in Calls : callPc[c] = "done" /\ result[c] = "ok"} = {}
      /\ {c \in Calls : callPc[c] = "done" /\ result[c] = "error"} = {}
  BY DEF Init
<1>3. CountersExact
  BY <1>2, FS_EmptySet DEF Init, CountersExact
<1>4. QED
  BY <1>1, <1>3 DEF AInv

\* What the owner and the publishes work on.
others == <<connected, sender, mainPc, publishing, counters>>

\* A step is one of the owner, one of a publish, or leaves both alone.
LEMMA StepKinds ==
    ASSUME [Next]_vars
    PROVE  \/ OwnerCall \/ OwnerStep
           \/ \E c \in Calls : PublishCall(c) \/ PublishStep(c)
           \/ UNCHANGED others
<1> USE DEF others, adapter, publishing, counters, onlyProbe, onlySub, onlyLoop
<1>1. ASSUME NEW h \in Probes, StatsCall(h) \/ ProbeStep(h) PROVE UNCHANGED others
  BY <1>1 DEF StatsCall, ProbeStep, GetStatsLock, GetStats
<1>2. ASSUME NEW s \in Subs, SubscribeCall(s) \/ Subscribe(s) PROVE UNCHANGED others
  BY <1>2 DEF SubscribeCall, Subscribe
<1>3. ASSUME NEW s \in Subs, LoopStep(s) PROVE UNCHANGED others
  BY <1>3 DEF LoopStep, Receive, ReceiveFails, SleepEnds, ReceiveCancelled, Handle, Settle
<1>4. ASSUME NEW e \in Events, EventArrives(e) \/ LockExpires(e) PROVE UNCHANGED others
  BY <1>4 DEF EventArrives, LockExpires
<1>5. CASE Cancel \/ UNCHANGED vars
  BY <1>5 DEF Cancel, vars
<1>6. QED
  BY <1>1, <1>2, <1>3, <1>4, <1>5 DEF Next

\* The owner leaves the calls and the counters alone, a call the owner and the
\* links.
LEMMA Frames ==
    /\ OwnerCall \/ OwnerStep => UNCHANGED <<publishing, counters>>
    /\ \A c \in Calls : PublishCall(c) \/ PublishStep(c) => UNCHANGED <<adapter, mainPc>>
<1>1. OwnerCall \/ OwnerStep => UNCHANGED <<publishing, counters>>
  BY DEF OwnerCall, OwnerStep, Connect, DisconnectSender, DisconnectReceiver, DisconnectClient,
         onlyMain
<1>2. ASSUME NEW c \in Calls, PublishCall(c) \/ PublishStep(c) PROVE UNCHANGED <<adapter, mainPc>>
  BY <1>2 DEF PublishCall, PublishStep, PublishCheck, PublishSend, UpdateStatsLock, UpdateStats,
              onlyCall
<1>3. QED
  BY <1>1, <1>2
-----------------------------------------------------------------------------
\* The owner keeps types and sender as they should be.
LEMMA OwnerKeeps ==
    ASSUME AInv, OwnerCall \/ OwnerStep
    PROVE  PublishTypes' /\ SenderFollowsFlag'
<1>0. UNCHANGED <<publishing, counters>>
  BY Frames
<1> USE <1>0 DEF AInv, PublishTypes, SenderFollowsFlag, Links, adapter, publishing, counters
<1>1. CASE OwnerCall
  <2>1. UNCHANGED <<connected, sender, publishing, counters>> /\ mainPc' \in {"connect", "disconnect"}
    BY <1>1 DEF OwnerCall, onlyMain
  <2>2. QED
    BY <2>1
<1>2. CASE Connect
  <2>1. mainPc' = "idle"
    BY <1>2 DEF Connect
  <2>2. CASE connected' = TRUE /\ sender' = "open"
    BY <2>1, <2>2
  <2>3. CASE UNCHANGED <<connected, sender>>
    BY <2>1, <2>3
  <2>4. QED
    BY <1>2, <2>2, <2>3 DEF Connect
<1>3. CASE DisconnectSender
  BY <1>3 DEF DisconnectSender
<1>4. CASE DisconnectReceiver
  BY <1>4 DEF DisconnectReceiver
<1>5. CASE DisconnectClient
  BY <1>5 DEF DisconnectClient
<1>6. QED
  BY <1>1, <1>2, <1>3, <1>4, <1>5 DEF OwnerStep

\* A call keeps the types, and its message follows it.
LEMMA CallKeeps ==
    ASSUME AInv, NEW c \in Calls, PublishCall(c) \/ PublishStep(c)
    PROVE  PublishTypes' /\ MessageProgress'
<1> USE DEF AInv, PublishTypes, MessageProgress, CallPcs, Answer, onlyCall, adapter, counters
<1>1. CASE PublishCall(c)
  BY <1>1 DEF PublishCall
<1>2. CASE PublishCheck(c)
  BY <1>2 DEF PublishCheck
<1>3. CASE PublishSend(c)
  BY <1>3 DEF PublishSend
<1>4. CASE UpdateStatsLock(c)
  BY <1>4 DEF UpdateStatsLock
<1>5. CASE UpdateStats(c)
  BY <1>5 DEF UpdateStats
<1>6. QED
  BY <1>1, <1>2, <1>3, <1>4, <1>5 DEF PublishStep

\* The calls that have returned r.
Returned(r) == {c \in Calls : callPc[c] = "done" /\ result[c] = r}

\* A call is counted in the step in which it returns.
LEMMA CountersStep ==
    ASSUME AInv, NEW c \in Calls, PublishCall(c) \/ PublishStep(c)
    PROVE  CountersExact'
<1>0. /\ published = Cardinality(Returned("ok"))
      /\ failed = Cardinality(Returned("error"))
  BY DEF AInv, CountersExact, Returned
<1> USE DEF AInv, PublishTypes
<1>1. CASE UpdateStats(c)
  <2>1. ASSUME NEW r \in {"ok", "error"}
        PROVE  /\ r = result[c] => /\ Returned(r)' = Returned(r) \cup {c}
                                   /\ c \notin Returned(r)
               /\ r # result[c] => Returned(r)' = Returned(r)
    BY <1>1 DEF UpdateStats, Returned
  <2>2. \A r : IsFiniteSet(Returned(r))
    BY FiniteCalls, FS_Subset DEF Returned
  <2>3. \A r \in {"ok", "error"} :
           r = result[c] => Cardinality(Returned(r)') = Cardinality(Returned(r)) + 1
    BY <2>1, <2>2, FS_AddElement
  <2>4. result[c] \in {"ok", "error"}
    BY <1>1 DEF UpdateStats, MessageProgress
  <2>5. /\ published' = Cardinality(Returned("ok")')
        /\ failed' = Cardinality(Returned("error")')
    <3>1. CASE result[c] = "ok"
      BY <1>0, <1>1, <2>1, <2>3, <3>1 DEF UpdateStats
    <3>2. CASE result[c] = "error"
      BY <1>0, <1>1, <2>1, <2>3, <3>2 DEF UpdateStats
    <3>3. QED
      BY <2>4, <3>1, <3>2
  <2>6. QED
    BY <2>5 DEF CountersExact, Returned
<1>2. CASE ~UpdateStats(c)
  <2>1. /\ UNCHANGED counters
        /\ \A d \in Calls : d # c => callPc'[d] = callPc[d] /\ result'[d] = result[d]
        /\ callPc[c] # "done"
        /\ callPc'[c] # "done" \/ result'[c] = "refused"
    BY <1>2 DEF PublishCall, PublishStep, PublishCheck, PublishSend, UpdateStatsLock, Answer, counters
  <2>2. Returned("ok")' = Returned("ok") /\ Returned("error")' = Returned("error")
    BY <2>1 DEF Returned
  <2>3. QED
    BY <1>0, <2>1, <2>2 DEF CountersExact, Returned, counters
<1>3. QED
  BY <1>1, <1>2

\* Every step keeps the invariant.
LEMMA AInvNext == AInv /\ [Next]_vars => AInv'
<1> SUFFICES ASSUME AInv, [Next]_vars PROVE AInv'
  OBVIOUS
<1>1. CASE OwnerCall \/ OwnerStep
  <2>1. MessageProgress' /\ CountersExact'
    BY <1>1, Frames DEF AInv, publishing, counters, MessageProgress, CountersExact
  <2>2. QED
    BY <1>1, <2>1, OwnerKeeps DEF AInv
<1>2. ASSUME NEW c \in Calls, PublishCall(c) \/ PublishStep(c) PROVE AInv'
  <2>1. SenderFollowsFlag'
    BY <1>2, Frames DEF AInv, adapter, SenderFollowsFlag
  <2>2. QED
    BY <1>2, <2>1, CallKeeps, CountersStep DEF AInv
<1>3. CASE UNCHANGED others
  BY <1>3 DEF others, publishing, counters, AInv, PublishTypes, MessageProgress, CountersExact,
              SenderFollowsFlag
<1>4. QED
  BY <1>1, <1>2, <1>3, StepKinds

\* The invariant holds throughout.
THEOREM AzureInvariance == Spec => []AInv
<1>1. QED
  BY AInvInit, AInvNext, PTL DEF Spec

\* The counters count the answers, whatever the topic has stored.
THEOREM AzureCountersAreExact == Spec => []CountersExact
<1>1. AInv => CountersExact
  BY DEF AInv
<1>2. QED
  BY <1>1, AzureInvariance, PTL

\* Nothing is stored once Disconnect has returned (azure_service_bus.go,
\* Disconnect against the send outside the lock).
THEOREM AzureSilentAfterDisconnect == Spec => SilentWhenDisconnected
<1>1. AInv /\ [Next]_vars
      => [mainPc = "idle" /\ ~connected => stored' = stored]_vars
  <2> SUFFICES ASSUME AInv, [Next]_vars, ~connected
               PROVE  stored' = stored
    OBVIOUS
  <2>1. ASSUME NEW c \in Calls, PublishCall(c) \/ PublishStep(c) PROVE stored' = stored
    BY <2>1 DEF AInv, SenderFollowsFlag, PublishCall, PublishStep, PublishCheck, PublishSend,
                UpdateStatsLock, UpdateStats
  <2>2. QED
    BY <2>1, StepKinds, Frames DEF publishing, others
<1>2. QED
  BY <1>1, AzureInvariance, PTL DEF Spec, SilentWhenDisconnected
-----------------------------------------------------------------------------
\* What a call has returned, as the contract sees it.
outcomes == [c \in Calls |-> Outcome(c)]

\* Every step of a call is a step of the contract, or stutters.
LEMMA PublishRefines ==
    ASSUME AInv, NEW c \in Calls, PublishCall(c) \/ PublishStep(c)
    PROVE  Contract!Next \/ UNCHANGED <<outcomes, stored>>
<1>0. /\ \A d \in Calls : d # c => callPc'[d] = callPc[d] /\ result'[d] = result[d]
      /\ outcomes[c] = Outcome(c)
      /\ callPc \in [Calls -> CallPcs]
      /\ result \in [Calls -> {"none", "ok", "error", "refused"}]
  BY DEF AInv, PublishTypes, PublishCall, PublishStep, PublishCheck, PublishSend, UpdateStatsLock,
         UpdateStats, Answer, outcomes
<1>a. outcomes' = [outcomes EXCEPT ![c] = Outcome(c)']
  BY <1>0 DEF outcomes, Outcome
<1>b. Outcome(c)' = Outcome(c) => UNCHANGED outcomes
  BY <1>0, <1>a DEF outcomes
<1> USE DEF Outcome, Answer
<1>1. CASE PublishCall(c)
  <2>1. outcomes[c] = "idle" /\ Outcome(c)' = "pending" /\ UNCHANGED stored
    BY <1>0, <1>1 DEF PublishCall
  <2>2. Contract!Call(c)
    BY <1>a, <2>1 DEF Contract!Call, outcomes
  <2>3. QED
    BY <2>2 DEF Contract!Next
<1>2. CASE PublishCheck(c)
  <2>1. outcomes[c] = "pending" /\ c \notin stored /\ UNCHANGED stored
    BY <1>0, <1>2 DEF PublishCheck, AInv, MessageProgress
  <2>2. CASE Outcome(c)' = "refused"
    <3>1. Contract!Refuse(c)
      BY <1>a, <2>1, <2>2 DEF Contract!Refuse, outcomes
    <3>2. QED
      BY <3>1 DEF Contract!Next
  <2>3. CASE Outcome(c)' = Outcome(c)
    BY <1>b, <2>1, <2>3
  <2>4. QED
    BY <1>0, <1>2, <2>2, <2>3 DEF PublishCheck
<1>3. CASE PublishSend(c)
  <2>1. Outcome(c)' = Outcome(c) /\ outcomes[c] = "pending"
    BY <1>0, <1>3 DEF PublishSend
  <2>2. CASE stored' = stored \cup {c}
    <3>1. Contract!HandOver(c)
      BY <1>b, <2>1, <2>2 DEF Contract!HandOver, outcomes
    <3>2. QED
      BY <3>1 DEF Contract!Next
  <2>3. CASE UNCHANGED stored
    BY <1>b, <2>1, <2>3
  <2>4. QED
    BY <1>3, <2>2, <2>3 DEF PublishSend
<1>4. CASE UpdateStatsLock(c)
  BY <1>0, <1>b, <1>4 DEF UpdateStatsLock
<1>5. CASE UpdateStats(c)
  <2>1. outcomes[c] = "pending" /\ Outcome(c)' = result[c] /\ UNCHANGED stored
    BY <1>0, <1>5 DEF UpdateStats
  <2>2. CASE result[c] = "ok"
    <3>1. Contract!ReturnOk(c)
      BY <1>a, <2>1, <2>2 DEF AInv, MessageProgress, Contract!ReturnOk, outcomes
    <3>2. QED
      BY <3>1 DEF Contract!Next
  <2>3. CASE result[c] = "error"
    <3>1. Contract!ReturnError(c)
      BY <1>a, <2>1, <2>3 DEF Contract!ReturnError, outcomes
    <3>2. QED
      BY <3>1 DEF Contract!Next
  <2>4. QED
    BY <1>5, <2>2, <2>3 DEF UpdateStats, AInv, MessageProgress
<1>6. QED
  BY <1>1, <1>2, <1>3, <1>4, <1>5 DEF PublishStep

\* The Azure adapter keeps the promise of Broker.Publish: nil only for a message
\* the topic has stored, "not connected" only for one it never gets.
THEOREM AzureKeepsPublishContract == Spec => PublishContractHolds
<1>1. Init => Contract!Init
  BY DEF Init, Contract!Init, Outcome
<1>2. AInv /\ [Next]_vars => [Contract!Next]_(Contract!vars)
  <2> SUFFICES ASSUME AInv, [Next]_vars
               PROVE  Contract!Next \/ UNCHANGED Contract!vars
    OBVIOUS
  <2>1. CASE \E c \in Calls : PublishCall(c) \/ PublishStep(c)
    BY <2>1, PublishRefines DEF Contract!vars, outcomes
  <2>2. CASE UNCHANGED publishing
    BY <2>2 DEF publishing, Outcome, Contract!vars
  <2>3. QED
    BY <2>1, <2>2, StepKinds, Frames DEF others
<1>3. QED
  BY AzureInvariance, <1>1, <1>2, PTL DEF Spec, PublishContractHolds, Contract!Spec
-----------------------------------------------------------------------------
(***************************************************************************)
(* The types.                                                              *)
(***************************************************************************)

\* An event that can be received has not been delivered too often.
Deliverable ==
    /\ \A e \in Events : state[e] \in {"absent", "ready"} => deliveries[e] < MaxDeliveries
    /\ {accepted, expired} \subseteq [Events -> Nat]

Typed == TypeOK /\ Deliverable

\* The initial state is well typed.
LEMMA TypedInit == Init => Typed
<1> SUFFICES ASSUME Init PROVE Typed
  OBVIOUS
<1>1. Unlocked \in LockValue(Goroutines)
  BY DEF Unlocked, LockValue
<1>2. 0 \in 0..MaxDeliveries /\ 0 < MaxDeliveries
  BY LimitsArePositive
<1>3. TypeOK
  <2>1. deliveries \in [Events -> 0..MaxDeliveries] /\ batch \in [Subs -> SUBSET Events]
    BY <1>2 DEF Init
  <2>2. /\ state \in [Events -> {"absent", "ready", "locked", "completed", "dead"}]
        /\ holder \in [Events -> Subs \cup {Nil}] /\ loop \in [Subs -> Loops]
    BY DEF Init, Loops
  <2>3. /\ callPc \in [Calls -> CallPcs]
        /\ result \in [Calls -> {"none", "ok", "error", "refused"}]
        /\ probePc \in [Probes -> {"idle", "getStats", "inStats", "done"}]
        /\ subPc \in [Subs -> {"idle", "enter", "done"}]
    BY DEF Init, CallPcs
  <2>4. /\ connected \in BOOLEAN /\ cancelled \in BOOLEAN
        /\ {client, sender} \subseteq Links /\ receiver \in Subs \cup {Nil}
        /\ mainPc \in {"idle", "connect", "disconnect", "closeReceiver", "closeClient"}
        /\ stored \subseteq Calls /\ closed \subseteq Subs
    BY DEF Init, Links
  <2>5. {published, failed} \subseteq Nat /\ {mu, statsMu} \subseteq LockValue(Goroutines)
    BY <1>1 DEF Init
  <2>6. QED
    BY <2>1, <2>2, <2>3, <2>4, <2>5 DEF TypeOK
<1>4. Deliverable
  BY <1>2 DEF Init, Deliverable
<1>5. QED
  BY <1>3, <1>4 DEF Typed

\* The owner keeps the types.
LEMMA TypedOwner ==
    ASSUME Typed, OwnerCall \/ OwnerStep
    PROVE  Typed'
<1> USE DEF Typed, onlyMain, adapter, counters, publishing, receiving, broker
<1>0. Announce(mu, Main) \in LockValue(Goroutines) /\ Unlock(mu) \in LockValue(Goroutines)
  BY LockOperations DEF TypeOK, Goroutines
<1>1. Deliverable'
  BY DEF Deliverable, OwnerCall, OwnerStep, Connect, DisconnectSender, DisconnectReceiver,
         DisconnectClient
<1>2. CASE OwnerCall
  BY <1>0, <1>1, <1>2 DEF TypeOK, OwnerCall
<1>3. CASE Connect
  BY <1>0, <1>1, <1>3 DEF TypeOK, Connect, Links
<1>4. CASE DisconnectSender
  BY <1>0, <1>1, <1>4 DEF TypeOK, DisconnectSender, Links
<1>5. CASE DisconnectReceiver
  BY <1>1, <1>5 DEF TypeOK, DisconnectReceiver
<1>6. CASE DisconnectClient
  BY <1>0, <1>1, <1>6 DEF TypeOK, DisconnectClient, Links
<1>7. QED
  BY <1>2, <1>3, <1>4, <1>5, <1>6 DEF OwnerStep

\* A publish keeps the types.
LEMMA TypedPublish ==
    ASSUME Typed, NEW c \in Calls, PublishCall(c) \/ PublishStep(c)
    PROVE  Typed'
<1> USE DEF Typed, onlyCall, adapter, counters, receiving, broker, Answer
<1>0. Announce(statsMu, c) \in LockValue(Goroutines) /\ Unlock(statsMu) \in LockValue(Goroutines)
  BY LockOperations DEF TypeOK, Goroutines
<1>1. Deliverable'
  BY DEF Deliverable, PublishCall, PublishStep, PublishCheck, PublishSend, UpdateStatsLock,
         UpdateStats
<1>2. CASE PublishCall(c)
  BY <1>1, <1>2 DEF TypeOK, PublishCall, CallPcs
<1>3. CASE PublishCheck(c)
  BY <1>1, <1>3 DEF TypeOK, PublishCheck, CallPcs
<1>4. CASE PublishSend(c)
  BY <1>1, <1>4 DEF TypeOK, PublishSend, CallPcs
<1>5. CASE UpdateStatsLock(c)
  BY <1>0, <1>1, <1>5 DEF TypeOK, UpdateStatsLock, CallPcs
<1>6. CASE UpdateStats(c)
  BY <1>0, <1>1, <1>6 DEF TypeOK, UpdateStats, CallPcs
<1>7. QED
  BY <1>2, <1>3, <1>4, <1>5, <1>6 DEF PublishStep

\* A stats request, Subscribe and the end of the context keep the types.
LEMMA TypedRequests ==
    ASSUME Typed,
           \/ Cancel
           \/ \E h \in Probes : StatsCall(h) \/ ProbeStep(h)
           \/ \E s \in Subs : SubscribeCall(s) \/ Subscribe(s)
    PROVE  Typed'
<1> USE DEF Typed, adapter, counters, publishing, receiving, broker
<1>1. CASE Cancel
  BY <1>1 DEF Cancel, TypeOK, Deliverable
<1>2. ASSUME NEW h \in Probes, StatsCall(h) \/ ProbeStep(h) PROVE Typed'
  <2> USE DEF onlyProbe
  <2>0. RLock(statsMu, h) \in LockValue(Goroutines) /\ RUnlock(statsMu, h) \in LockValue(Goroutines)
    BY LockOperations DEF TypeOK, Goroutines
  <2>1. CASE StatsCall(h)
    BY <2>1 DEF StatsCall, TypeOK, Deliverable
  <2>2. CASE GetStatsLock(h)
    BY <2>0, <2>2 DEF GetStatsLock, TypeOK, Deliverable
  <2>3. CASE GetStats(h)
    BY <2>0, <2>3 DEF GetStats, TypeOK, Deliverable
  <2>4. QED
    BY <1>2, <2>1, <2>2, <2>3 DEF ProbeStep
<1>3. ASSUME NEW s \in Subs, SubscribeCall(s) \/ Subscribe(s) PROVE Typed'
  <2> USE DEF onlySub
  <2>0. Announce(mu, s) \in LockValue(Goroutines) /\ Unlock(mu) \in LockValue(Goroutines)
    BY LockOperations DEF TypeOK, Goroutines
  <2>1. CASE SubscribeCall(s)
    BY <2>0, <2>1 DEF SubscribeCall, TypeOK, Deliverable
  <2>2. CASE Subscribe(s)
    BY <2>0, <2>2 DEF Subscribe, TypeOK, Deliverable, Loops
  <2>3. QED
    BY <1>3, <2>1, <2>2
<1>4. QED
  BY <1>1, <1>2, <1>3

\* What the release of an event's lock makes of the types.
LEMMA TypedRelease ==
    ASSUME Typed, NEW e \in Events, ReleaseEvent(e)
    PROVE  /\ state' \in [Events -> {"absent", "ready", "locked", "completed", "dead"}]
           /\ holder' \in [Events -> Subs \cup {Nil}]
           /\ \A d \in Events : state'[d] \in {"absent", "ready"} => deliveries[d] < MaxDeliveries
BY DEF Typed, TypeOK, Deliverable, ReleaseEvent

\* A receiving goroutine and the broker keep the types.
LEMMA TypedReceiving ==
    ASSUME Typed,
           \/ \E s \in Subs : LoopStep(s)
           \/ \E e \in Events : EventArrives(e) \/ LockExpires(e)
    PROVE  Typed'
<1> USE DEF onlyLoop, adapter, counters, publishing
<1>0. UNCHANGED onlyLoop \/ \E e \in Events : EventArrives(e) \/ LockExpires(e)
  BY DEF LoopStep, Receive, ReceiveFails, SleepEnds, ReceiveCancelled, Handle, Settle
<1>1. ASSUME NEW s \in Subs, LoopStep(s) PROVE Typed'
  <2>1. UNCHANGED onlyLoop
    BY <1>1 DEF LoopStep, Receive, ReceiveFails, SleepEnds, ReceiveCancelled, Handle, Settle
  <2>2. CASE Receive(s)
    <3>1. PICK sent \in SUBSET {e \in Events : state[e] = "ready"} :
            /\ batch' = [batch EXCEPT ![s] = sent]
            /\ state' = [e \in Events |-> IF e \in sent THEN "locked" ELSE state[e]]
            /\ holder' = [e \in Events |-> IF e \in sent THEN s ELSE holder[e]]
            /\ deliveries' = [e \in Events |-> deliveries[e] + IF e \in sent THEN 1 ELSE 0]
      BY <2>2 DEF Receive
    <3>2. deliveries' \in [Events -> 0..MaxDeliveries]
      <4>1. SUFFICES ASSUME NEW e \in Events
                     PROVE  deliveries[e] + (IF e \in sent THEN 1 ELSE 0) \in 0..MaxDeliveries
        BY <3>1
      <4>2. deliveries[e] \in 0..MaxDeliveries /\ MaxDeliveries \in Nat
            /\ (e \in sent => deliveries[e] < MaxDeliveries)
        BY LimitsArePositive DEF Typed, TypeOK, Deliverable
      <4>3. QED
        BY <4>2
    <3>3. UNCHANGED <<accepted, expired>> /\ loop' = [loop EXCEPT ![s] = "handle"]
      BY <2>2 DEF Receive, Goto
    <3>4. TypeOK'
      BY <2>1, <3>1, <3>2, <3>3 DEF Typed, TypeOK, Loops
    <3>5. \A e \in Events :
             state'[e] \in {"absent", "ready"} =>
               e \notin sent /\ state'[e] = state[e] /\ deliveries'[e] = deliveries[e]
      <4>1. SUFFICES ASSUME NEW e \in Events, state'[e] \in {"absent", "ready"}
                     PROVE  e \notin sent /\ state'[e] = state[e] /\ deliveries'[e] = deliveries[e]
        OBVIOUS
      <4>2. deliveries[e] \in Int
        BY DEF Typed, TypeOK
      <4>3. QED
        BY <3>1, <4>1, <4>2
    <3>6. QED
      BY <3>3, <3>4, <3>5 DEF Typed, Deliverable
  <2>3. CASE ReceiveFails(s) \/ SleepEnds(s) \/ ReceiveCancelled(s)
    BY <2>1, <2>3 DEF ReceiveFails, SleepEnds, ReceiveCancelled, Goto, broker, Typed, TypeOK,
                      Deliverable, Loops
  <2>4. CASE Handle(s)
    <3>1. accepted' \in [Events -> Nat]
      BY <2>4 DEF Handle, Typed, TypeOK, Deliverable
    <3>2. QED
      BY <2>1, <2>4, <3>1 DEF Handle, Goto, broker, Typed, TypeOK, Deliverable, Loops
  <2>5. CASE Settle(s)
    <3>1. PICK e \in Events :
            /\ \/ UNCHANGED <<state, holder>>
               \/ ReleaseEvent(e)
               \/ /\ state' = [state EXCEPT ![e] = "completed"]
                  /\ holder' = [holder EXCEPT ![e] = Nil]
            /\ NextInBatch(s, e)
      BY <2>5 DEF Settle, Typed, TypeOK
    <3>2. /\ state' \in [Events -> {"absent", "ready", "locked", "completed", "dead"}]
          /\ holder' \in [Events -> Subs \cup {Nil}]
          /\ \A d \in Events : state'[d] \in {"absent", "ready"} => deliveries[d] < MaxDeliveries
      <4>1. CASE ReleaseEvent(e)
        BY <4>1, TypedRelease
      <4>2. CASE ~ReleaseEvent(e)
        BY <3>1, <4>2 DEF Typed, TypeOK, Deliverable
      <4>3. QED
        BY <4>1, <4>2
    <3>3. batch' \in [Subs -> SUBSET Events] /\ loop' \in [Subs -> Loops]
      BY <3>1 DEF NextInBatch, Goto, Typed, TypeOK, Loops
    <3>4. UNCHANGED <<accepted, deliveries, expired>>
      BY <2>5 DEF Settle
    <3>5. QED
      BY <2>1, <3>2, <3>3, <3>4 DEF Typed, TypeOK, Deliverable
  <2>6. QED
    BY <1>1, <2>2, <2>3, <2>4, <2>5 DEF LoopStep
<1>2. ASSUME NEW e \in Events, EventArrives(e) PROVE Typed'
  BY <1>2 DEF EventArrives, receiving, Typed, TypeOK, Deliverable
<1>3. ASSUME NEW e \in Events, LockExpires(e) PROVE Typed'
  <2>1. ReleaseEvent(e) /\ expired' \in [Events -> Nat] /\ UNCHANGED <<deliveries, cancelled, receiving, onlyLoop>>
    BY <1>3 DEF LockExpires, Typed, Deliverable
  <2>2. QED
    BY <2>1, TypedRelease DEF receiving, Typed, TypeOK, Deliverable
<1>4. QED
  BY <1>1, <1>2, <1>3

\* Every step keeps the types.
LEMMA TypedStep == Typed /\ [Next]_vars => Typed'
<1> SUFFICES ASSUME Typed, [Next]_vars PROVE Typed'
  OBVIOUS
<1>1. CASE UNCHANGED vars
  BY <1>1 DEF vars, adapter, counters, publishing, receiving, broker, Typed, TypeOK, Deliverable
<1>2. QED
  BY <1>1, TypedOwner, TypedPublish, TypedRequests, TypedReceiving DEF Next

\* Every variable of the Azure adapter keeps its type, and no event is
\* delivered more often than the queue allows (azure_service_bus.go).
THEOREM AzureTypeCorrect == Spec => []TypeOK
<1>1. Typed => TypeOK
  BY DEF Typed
<1>2. QED
  BY <1>1, TypedInit, TypedStep, PTL DEF Spec
-----------------------------------------------------------------------------
(***************************************************************************)
(* How often a handler accepts an event.  Every lock on an event allows    *)
(* one more acceptance: it is used up by an acceptance or by a batch the   *)
(* event is still waiting in, and comes back when the event is released    *)
(* without one, or counts as expired.                                      *)
(***************************************************************************)

\* Goroutine s may still accept event e under the lock it received it with.
Owed(s, e) == e \in batch[s] /\ ~(loop[s] = "complete" /\ OnTurn(s, e))

Pending(e) == {s \in Subs : Owed(s, e)}

\* 1 while a lock on the event stands, or has ended with its completion.
Locks(e) == IF state[e] \in {"locked", "completed"} THEN 1 ELSE 0

\* A goroutine has a batch only while it handles one, and runs after Subscribe.
BatchFollowsLoop ==
    \A s \in Subs :
        /\ subPc[s] # "done" => loop[s] = "none"
        /\ loop[s] \notin {"handle", "complete", "abandon"} => batch[s] = {}

HeldIsLocked == \A e \in Events : holder[e] # Nil => state[e] = "locked"

CompletesTheAccepted ==
    /\ \A s \in Subs, e \in Events : loop[s] = "complete" /\ OnTurn(s, e) => accepted[e] > 0
    /\ \A e \in Events : state[e] = "completed" => accepted[e] > 0

OncePerLock ==
    \A e \in Events :
        /\ IsFiniteSet(Pending(e))
        /\ accepted[e] + Cardinality(Pending(e)) <= expired[e] + Locks(e)

EInv == Typed /\ BatchFollowsLoop /\ HeldIsLocked /\ CompletesTheAccepted /\ OncePerLock

\* A set that changes in one element changes its size by what that element adds
\* or takes away.
LEMMA OneElement ==
    ASSUME NEW P, NEW Q, NEW x, IsFiniteSet(P), P \ {x} = Q \ {x}
    PROVE  /\ IsFiniteSet(Q)
           /\ Cardinality(Q) + (IF x \in P THEN 1 ELSE 0) = Cardinality(P) + (IF x \in Q THEN 1 ELSE 0)
           /\ Cardinality(P) \in Nat /\ Cardinality(Q) \in Nat
<1>1. Cardinality(P) \in Nat
  BY FS_CardinalityType
<1>2. CASE x \in P /\ x \notin Q
  <2>1. Q = P \ {x}
    BY <1>2
  <2>2. IsFiniteSet(Q) /\ Cardinality(Q) = Cardinality(P) - 1
    BY <1>2, <2>1, FS_RemoveElement
  <2>3. Cardinality(Q) \in Nat
    BY <2>2, FS_CardinalityType
  <2>4. QED
    BY <1>1, <1>2, <2>2, <2>3
<1>3. CASE x \notin P /\ x \in Q
  <2>1. Q = P \cup {x}
    BY <1>3
  <2>2. QED
    BY <1>1, <1>3, <2>1, FS_AddElement, FS_CardinalityType
<1>4. CASE x \in P <=> x \in Q
  <2>1. Q = P
    BY <1>4
  <2>2. QED
    BY <1>1, <2>1
<1>5. QED
  BY <1>2, <1>3, <1>4

\* Nothing has arrived, nothing is accepted.
LEMMA EInvInit == Init => EInv
<1> SUFFICES ASSUME Init PROVE EInv
  OBVIOUS
<1>1. \A e \in Events : Pending(e) = {}
  BY DEF Init, Pending, Owed
<1>2. OncePerLock
  BY <1>1, FS_EmptySet DEF Init, OncePerLock, Locks
<1>3. BatchFollowsLoop /\ HeldIsLocked /\ CompletesTheAccepted
  BY DEF Init, BatchFollowsLoop, HeldIsLocked, CompletesTheAccepted
<1>4. QED
  BY <1>2, <1>3, TypedInit DEF EInv

\* A step of one goroutine, that at most accepts or settles under the locks there
\* are, keeps the balance.
LEMMA Balance ==
    ASSUME OncePerLock, Typed, Typed', NEW s \in Subs, UNCHANGED expired,
           \A q \in Subs : q # s => loop'[q] = loop[q] /\ batch'[q] = batch[q],
           \A e \in Events :
             accepted'[e] + (IF Owed(s, e)' THEN 1 ELSE 0) + Locks(e)
               <= accepted[e] + (IF Owed(s, e) THEN 1 ELSE 0) + Locks(e)'
    PROVE  OncePerLock'
<1>1. SUFFICES ASSUME NEW e \in Events
               PROVE  /\ IsFiniteSet(Pending(e)')
                      /\ accepted'[e] + Cardinality(Pending(e)') <= expired'[e] + Locks(e)'
  BY DEF OncePerLock
<1>2. Pending(e) \ {s} = Pending(e)' \ {s}
  BY DEF Pending, Owed, OnTurn
<1>3. /\ s \in Pending(e) <=> Owed(s, e)
      /\ s \in Pending(e)' <=> Owed(s, e)'
  BY DEF Pending
<1>4. IsFiniteSet(Pending(e)) /\ accepted[e] + Cardinality(Pending(e)) <= expired[e] + Locks(e)
  BY DEF OncePerLock
<1>5. PICK p \in Nat, q \in Nat, o \in {0, 1}, oo \in {0, 1} :
        /\ p = Cardinality(Pending(e)) /\ q = Cardinality(Pending(e)')
        /\ o = (IF Owed(s, e) THEN 1 ELSE 0) /\ oo = (IF Owed(s, e)' THEN 1 ELSE 0)
        /\ q + o = p + oo /\ IsFiniteSet(Pending(e)')
  BY <1>2, <1>3, <1>4, OneElement
<1>6. PICK a \in Nat, aa \in Nat, x \in Nat, l \in {0, 1}, ll \in {0, 1} :
        /\ a = accepted[e] /\ aa = accepted'[e] /\ x = expired[e] /\ x = expired'[e]
        /\ l = Locks(e) /\ ll = Locks(e)'
  BY DEF Typed, Deliverable, Locks
<1>7. aa + oo + l <= a + o + ll
  BY <1>5, <1>6
<1>8. a + p <= x + l
  BY <1>4, <1>5, <1>6
<1>9. aa + q <= x + ll
  BY <1>5, <1>7, <1>8
<1>10. QED
  BY <1>5, <1>6, <1>9

\* There is one event on turn.
LEMMA OneOnTurn ==
    ASSUME Typed, NEW s \in Subs, NEW d \in Events, NEW e \in Events, OnTurn(s, d), OnTurn(s, e)
    PROVE  d = e
<1>1. d \in Nat /\ e \in Nat
  BY MalformedAreEvents DEF Events
<1>2. QED
  BY <1>1 DEF OnTurn

\* What the parts of the invariant but the types are about.
eventful == <<subPc, loop, batch, state, holder, accepted, expired>>

\* Nothing the parts are about has changed.
LEMMA EventsLeftAlone ==
    ASSUME EInv, Typed', UNCHANGED eventful
    PROVE  EInv'
<1> USE DEF eventful
<1>1. BatchFollowsLoop' /\ HeldIsLocked' /\ CompletesTheAccepted'
  BY DEF EInv, BatchFollowsLoop, HeldIsLocked, CompletesTheAccepted, OnTurn
<1>2. OncePerLock'
  BY DEF EInv, OncePerLock, Pending, Owed, OnTurn, Locks
<1>3. QED
  BY <1>1, <1>2 DEF EInv

\* Subscribe starts a goroutine that has no batch.
LEMMA SubscribeKeeps ==
    ASSUME EInv, Typed', NEW s \in Subs, SubscribeCall(s) \/ Subscribe(s)
    PROVE  EInv'
<1> USE DEF onlySub, broker
<1>1. /\ UNCHANGED <<batch, state, holder, accepted, expired>>
      /\ subPc[s] # "done" /\ loop[s] = "none" /\ batch[s] = {}
      /\ \A q \in Subs : q # s => loop'[q] = loop[q] /\ subPc'[q] = subPc[q]
      /\ loop'[s] = "none" \/ (loop'[s] = "receive" /\ subPc'[s] = "done")
  BY DEF EInv, BatchFollowsLoop, SubscribeCall, Subscribe, Typed, TypeOK
<1>2. BatchFollowsLoop' /\ HeldIsLocked'
  BY <1>1 DEF EInv, BatchFollowsLoop, HeldIsLocked
<1>3. CompletesTheAccepted'
  BY <1>1 DEF EInv, CompletesTheAccepted, OnTurn
<1>4. OncePerLock'
  <2>1. \A e \in Events : ~Owed(s, e) /\ ~Owed(s, e)' /\ Locks(e)' = Locks(e) /\ accepted'[e] = accepted[e]
    BY <1>1 DEF Owed, Locks
  <2>2. \A e \in Events : accepted[e] \in Nat /\ Locks(e) \in Nat
    BY DEF EInv, Typed, Deliverable, Locks
  <2>3. QED
    BY <1>1, <2>1, <2>2, Balance DEF EInv
<1>5. QED
  BY <1>2, <1>3, <1>4 DEF EInv

\* A batch is received: every event in it has got a lock to be accepted under.
LEMMA ReceiveKeeps ==
    ASSUME EInv, Typed', NEW s \in Subs, Receive(s)
    PROVE  EInv'
<1>1. PICK sent \in SUBSET {e \in Events : state[e] = "ready"} :
        /\ batch' = [batch EXCEPT ![s] = sent]
        /\ state' = [e \in Events |-> IF e \in sent THEN "locked" ELSE state[e]]
        /\ holder' = [e \in Events |-> IF e \in sent THEN s ELSE holder[e]]
  BY DEF Receive
<1>2. /\ UNCHANGED <<subPc, accepted, expired>> /\ loop' = [loop EXCEPT ![s] = "handle"]
      /\ loop[s] = "receive" /\ batch[s] = {} /\ subPc[s] = "done"
  BY DEF Receive, Goto, onlyLoop, EInv, BatchFollowsLoop
<1>3. /\ batch'[s] = sent /\ loop'[s] = "handle"
      /\ \A q \in Subs : q # s => loop'[q] = loop[q] /\ batch'[q] = batch[q]
  BY <1>1, <1>2 DEF EInv, Typed, TypeOK
<1>4. BatchFollowsLoop'
  BY <1>2, <1>3 DEF EInv, BatchFollowsLoop
<1>5. HeldIsLocked'
  BY <1>1 DEF EInv, HeldIsLocked
<1>6. CompletesTheAccepted'
  BY <1>1, <1>2, <1>3 DEF EInv, CompletesTheAccepted, OnTurn
<1>7. OncePerLock'
  <2>1. \A e \in Events :
          /\ ~Owed(s, e) /\ (Owed(s, e)' <=> e \in sent) /\ accepted'[e] = accepted[e]
          /\ Locks(e)' = Locks(e) + (IF e \in sent THEN 1 ELSE 0)
    BY <1>1, <1>2, <1>3 DEF Owed, Locks
  <2>2. \A e \in Events : accepted[e] \in Nat /\ Locks(e) \in Nat
    BY DEF EInv, Typed, Deliverable, Locks
  <2>3. \A e \in Events :
             accepted'[e] + (IF Owed(s, e)' THEN 1 ELSE 0) + Locks(e)
               <= accepted[e] + (IF Owed(s, e) THEN 1 ELSE 0) + Locks(e)'
    BY <2>1, <2>2
  <2>4. QED
    BY <1>2, <1>3, <2>3, Balance DEF EInv
<1>8. QED
  BY <1>4, <1>5, <1>6, <1>7 DEF EInv

\* A goroutine between two batches.
LEMMA WaitKeeps ==
    ASSUME EInv, Typed', NEW s \in Subs, ReceiveFails(s) \/ SleepEnds(s) \/ ReceiveCancelled(s)
    PROVE  EInv'
<1>1. /\ UNCHANGED <<subPc, batch, state, holder, accepted, expired>>
      /\ loop[s] \in {"receive", "sleep"} /\ loop'[s] \in {"receive", "sleep", "done"}
      /\ \A q \in Subs : q # s => loop'[q] = loop[q]
  BY DEF ReceiveFails, SleepEnds, ReceiveCancelled, Goto, onlyLoop, broker, EInv, Typed, TypeOK
<1>2. batch[s] = {} /\ subPc[s] = "done"
  BY <1>1 DEF EInv, BatchFollowsLoop
<1>3. BatchFollowsLoop' /\ HeldIsLocked' /\ CompletesTheAccepted'
  BY <1>1, <1>2 DEF EInv, BatchFollowsLoop, HeldIsLocked, CompletesTheAccepted, OnTurn
<1>4. OncePerLock'
  <2>1. \A e \in Events : ~Owed(s, e) /\ ~Owed(s, e)' /\ Locks(e)' = Locks(e) /\ accepted'[e] = accepted[e]
    BY <1>1, <1>2 DEF Owed, Locks
  <2>2. \A e \in Events : accepted[e] \in Nat /\ Locks(e) \in Nat
    BY DEF EInv, Typed, Deliverable, Locks
  <2>3. QED
    BY <1>1, <2>1, <2>2, Balance DEF EInv
<1>5. QED
  BY <1>3, <1>4 DEF EInv

\* The handler answers: what it accepts it owes no longer.
LEMMA HandleKeeps ==
    ASSUME EInv, Typed', NEW s \in Subs, Handle(s)
    PROVE  EInv'
<1>1. /\ UNCHANGED <<subPc, batch, state, holder, expired>> /\ loop[s] = "handle"
      /\ loop'[s] \in {"abandon", "complete"}
      /\ \A q \in Subs : q # s => loop'[q] = loop[q]
  BY DEF Handle, Goto, onlyLoop, broker, EInv, Typed, TypeOK
<1>2. subPc[s] = "done"
  BY <1>1 DEF EInv, BatchFollowsLoop
<1>3. BatchFollowsLoop' /\ HeldIsLocked'
  BY <1>1, <1>2 DEF EInv, BatchFollowsLoop, HeldIsLocked
<1>4. \A e \in Events : accepted[e] \in Nat /\ Locks(e) \in Nat /\ Locks(e)' = Locks(e)
  BY <1>1 DEF EInv, Typed, Deliverable, Locks
<1>5. CASE loop'[s] = "abandon"
  <2>1. UNCHANGED accepted
    BY <1>5 DEF Handle, Goto, EInv, Typed, TypeOK
  <2>2. CompletesTheAccepted'
    BY <1>1, <1>5, <2>1 DEF EInv, CompletesTheAccepted, OnTurn
  <2>3. \A e \in Events : Owed(s, e)' = Owed(s, e)
    BY <1>1, <1>5 DEF Owed
  <2>4. OncePerLock'
    BY <1>1, <1>4, <2>1, <2>3, Balance DEF EInv
  <2>5. QED
    BY <1>3, <2>2, <2>4 DEF EInv
<1>6. CASE loop'[s] = "complete"
  <2>1. PICK d \in Events : OnTurn(s, d) /\ accepted' = [accepted EXCEPT ![d] = @ + 1]
    BY <1>6 DEF Handle, Goto, EInv, Typed, TypeOK
  <2>2. /\ accepted'[d] = accepted[d] + 1
        /\ \A e \in Events : e # d => accepted'[e] = accepted[e]
    BY <2>1 DEF EInv, Typed, Deliverable
  <2>3. \A e \in Events : OnTurn(s, e)' <=> e = d
    BY <1>1, <2>1, OneOnTurn DEF EInv, OnTurn
  <2>4. CompletesTheAccepted'
    <3>1. \A e \in Events : accepted'[e] >= accepted[e] /\ (e = d => accepted'[e] > 0)
      BY <1>4, <2>2
    <3>2. \A e \in Events : accepted[e] > 0 => accepted'[e] > 0
      BY <1>4, <2>2
    <3>3. ASSUME NEW q \in Subs, NEW e \in Events, loop'[q] = "complete", OnTurn(q, e)'
          PROVE  accepted'[e] > 0
      <4>1. CASE q = s
        BY <2>3, <3>1, <3>3, <4>1
      <4>2. CASE q # s
        <5>1. loop[q] = "complete" /\ OnTurn(q, e)
          BY <1>1, <3>3, <4>2 DEF OnTurn
        <5>2. QED
          BY <3>2, <5>1 DEF EInv, CompletesTheAccepted
      <4>3. QED
        BY <4>1, <4>2
    <3>4. \A e \in Events : state'[e] = "completed" => accepted'[e] > 0
      BY <1>1, <3>2 DEF EInv, CompletesTheAccepted
    <3>5. QED
      BY <3>3, <3>4 DEF CompletesTheAccepted
  <2>5. \A e \in Events :
          /\ Owed(s, e)' <=> Owed(s, e) /\ e # d
          /\ Owed(s, d)
    BY <1>1, <1>6, <2>1, <2>3 DEF Owed, OnTurn
  <2>6. \A e \in Events :
             accepted'[e] + (IF Owed(s, e)' THEN 1 ELSE 0) + Locks(e)
               <= accepted[e] + (IF Owed(s, e) THEN 1 ELSE 0) + Locks(e)'
    BY <1>4, <2>2, <2>5
  <2>7. OncePerLock'
    BY <1>1, <2>6, Balance DEF EInv
  <2>8. QED
    BY <1>3, <2>4, <2>7 DEF EInv
<1>7. QED
  BY <1>1, <1>5, <1>6

\* An event is settled, or not: it leaves the batch, and if it was not accepted
\* it gives back what it owes with its lock.
LEMMA SettleKeeps ==
    ASSUME EInv, Typed', NEW s \in Subs, Settle(s)
    PROVE  EInv'
<1>1. PICK d \in Events :
        /\ OnTurn(s, d)
        /\ \/ UNCHANGED <<state, holder>>
           \/ /\ holder[d] = s
              /\ IF loop[s] = "abandon" THEN ReleaseEvent(d)
                 ELSE /\ state' = [state EXCEPT ![d] = "completed"]
                      /\ holder' = [holder EXCEPT ![d] = Nil]
        /\ NextInBatch(s, d)
  BY DEF Settle, EInv, Typed, TypeOK
<1>2. UNCHANGED <<subPc, accepted, expired>> /\ loop[s] \in {"complete", "abandon"}
  BY DEF Settle, onlyLoop
<1>3. /\ batch'[s] = batch[s] \ {d}
      /\ loop'[s] = (IF batch[s] = {d} THEN "receive" ELSE "handle")
      /\ \A q \in Subs : q # s => loop'[q] = loop[q] /\ batch'[q] = batch[q]
  BY <1>1 DEF NextInBatch, Goto, EInv, Typed, TypeOK
<1>4. d \in batch[s] /\ subPc[s] = "done"
  BY <1>1, <1>2 DEF OnTurn, EInv, BatchFollowsLoop
<1>5. BatchFollowsLoop'
  BY <1>2, <1>3, <1>4 DEF EInv, BatchFollowsLoop
<1>6. /\ \A e \in Events : e # d => state'[e] = state[e] /\ holder'[e] = holder[e]
      /\ \/ state'[d] = state[d] /\ holder'[d] = holder[d]
         \/ /\ holder[d] = s /\ holder'[d] = Nil
            /\ loop[s] = "complete" => state'[d] = "completed"
            /\ loop[s] = "abandon" => state'[d] \in {"ready", "dead"}
  BY <1>1, <1>2 DEF ReleaseEvent, EInv, Typed, TypeOK
<1>7. HeldIsLocked'
  BY <1>6 DEF EInv, HeldIsLocked
<1>8. CompletesTheAccepted'
  <2>1. loop[s] = "complete" => accepted[d] > 0
    BY <1>1 DEF EInv, CompletesTheAccepted
  <2>2. \A e \in Events : state'[e] = "completed" => accepted'[e] > 0
    BY <1>2, <1>6, <2>1 DEF EInv, CompletesTheAccepted
  <2>3. \A q \in Subs, e \in Events : loop'[q] = "complete" /\ OnTurn(q, e)' => accepted'[e] > 0
    BY <1>2, <1>3 DEF EInv, CompletesTheAccepted, OnTurn
  <2>4. QED
    BY <2>2, <2>3 DEF CompletesTheAccepted
<1>9. OncePerLock'
  <2>1. \A e \in Events : OnTurn(s, e) <=> e = d
    BY <1>1, OneOnTurn DEF EInv
  <2>2. \A e \in Events : Owed(s, e) <=> e \in batch[s] /\ (e = d => loop[s] = "abandon")
    BY <1>2, <2>1 DEF Owed
  <2>3. \A e \in Events : Owed(s, e)' <=> e \in batch[s] /\ e # d
    BY <1>3 DEF Owed
  <2>4. \A e \in Events : accepted[e] \in Nat /\ Locks(e) \in {0, 1} /\ Locks(e)' \in {0, 1}
    BY DEF EInv, Typed, Deliverable, Locks
  <2>5. \A e \in Events : e # d => Locks(e)' = Locks(e)
    BY <1>6 DEF Locks
  <2>6. Locks(d)' = Locks(d) \/ (loop[s] = "abandon" /\ Locks(d) = 1)
    <3>1. CASE state'[d] = state[d]
      BY <3>1 DEF Locks
    <3>2. CASE holder[d] = s /\ (loop[s] = "complete" => state'[d] = "completed")
      <4>1. state[d] = "locked"
        BY <3>2, DistinctNames DEF EInv, HeldIsLocked
      <4>2. QED
        BY <1>2, <3>2, <4>1 DEF Locks
    <3>3. QED
      BY <1>6, <3>1, <3>2
  <2>7. \A e \in Events :
             accepted'[e] + (IF Owed(s, e)' THEN 1 ELSE 0) + Locks(e)
               <= accepted[e] + (IF Owed(s, e) THEN 1 ELSE 0) + Locks(e)'
    <3>1. SUFFICES ASSUME NEW e \in Events
                   PROVE  accepted'[e] + (IF Owed(s, e)' THEN 1 ELSE 0) + Locks(e)
                            <= accepted[e] + (IF Owed(s, e) THEN 1 ELSE 0) + Locks(e)'
      OBVIOUS
    <3>2. accepted'[e] = accepted[e]
      BY <1>2
    <3>3. CASE e # d
      <4>1. Owed(s, e)' <=> Owed(s, e)
        BY <2>2, <2>3, <3>3
      <4>2. QED
        BY <2>4, <2>5, <3>2, <3>3, <4>1
    <3>4. CASE e = d
      <4>1. ~Owed(s, e)' /\ (Owed(s, e) <=> loop[s] = "abandon")
        BY <1>4, <2>2, <2>3, <3>4
      <4>2. QED
        BY <2>4, <2>6, <3>2, <3>4, <4>1
    <3>5. QED
      BY <3>3, <3>4
  <2>8. QED
    BY <1>2, <1>3, <2>7, Balance DEF EInv
<1>10. QED
  BY <1>5, <1>7, <1>8, <1>9 DEF EInv

\* An event arrives, or its lock runs out, which allows one more acceptance.
LEMMA BrokerKeeps ==
    ASSUME EInv, Typed', NEW d \in Events, EventArrives(d) \/ LockExpires(d)
    PROVE  EInv'
<1>1. UNCHANGED <<subPc, loop, batch, accepted>>
  BY DEF EventArrives, LockExpires, receiving, onlyLoop
<1>2. /\ \A e \in Events : e # d => state'[e] = state[e] /\ holder'[e] = holder[e] /\ expired'[e] = expired[e]
      /\ \/ /\ state[d] = "absent" /\ state'[d] = "ready"
            /\ holder'[d] = holder[d] /\ expired'[d] = expired[d]
         \/ /\ state[d] = "locked" /\ state'[d] \in {"ready", "dead"}
            /\ holder'[d] = Nil /\ expired'[d] = expired[d] + 1
  BY DEF EventArrives, LockExpires, ReleaseEvent, EInv, Typed, TypeOK, Deliverable
<1>3. BatchFollowsLoop' /\ CompletesTheAccepted'
  BY <1>1, <1>2 DEF EInv, BatchFollowsLoop, CompletesTheAccepted, OnTurn
<1>4. HeldIsLocked'
  BY <1>2 DEF EInv, HeldIsLocked
<1>5. OncePerLock'
  <2>1. \A e \in Events : Pending(e)' = Pending(e)
    BY <1>1 DEF Pending, Owed, OnTurn
  <2>2. \A e \in Events : accepted[e] \in Nat /\ expired[e] \in Nat /\ Cardinality(Pending(e)) \in Nat
    BY FS_CardinalityType DEF EInv, Typed, Deliverable, OncePerLock
  <2>3. \A e \in Events :
          \/ Locks(e)' = Locks(e) /\ expired'[e] = expired[e]
          \/ Locks(e)' = 0 /\ Locks(e) = 1 /\ expired'[e] = expired[e] + 1
    BY <1>2 DEF Locks
  <2>4. ASSUME NEW e \in Events
        PROVE  accepted'[e] + Cardinality(Pending(e)') <= expired'[e] + Locks(e)'
    <3>1. accepted[e] + Cardinality(Pending(e)) <= expired[e] + Locks(e)
      BY DEF EInv, OncePerLock
    <3>2. QED
      BY <1>1, <2>1, <2>2, <2>3, <3>1
  <2>5. QED
    BY <2>1, <2>4 DEF EInv, OncePerLock
<1>6. QED
  BY <1>3, <1>4, <1>5 DEF EInv

\* Every step keeps the invariant of the events.
LEMMA EInvStep == EInv /\ [Next]_vars => EInv'
<1> SUFFICES ASSUME EInv, [Next]_vars PROVE EInv'
  OBVIOUS
<1>0. Typed'
  BY TypedStep DEF EInv
<1> USE DEF eventful, receiving, broker, publishing, adapter
<1>1. CASE OwnerCall \/ OwnerStep \/ Cancel
  BY <1>0, <1>1, EventsLeftAlone
  DEF OwnerCall, OwnerStep, Connect, DisconnectSender, DisconnectReceiver, DisconnectClient,
      onlyMain, Cancel
<1>2. ASSUME NEW c \in Calls, PublishCall(c) \/ PublishStep(c) PROVE EInv'
  BY <1>0, <1>2, EventsLeftAlone
  DEF PublishCall, PublishStep, PublishCheck, PublishSend, UpdateStatsLock, UpdateStats, onlyCall
<1>3. ASSUME NEW h \in Probes, StatsCall(h) \/ ProbeStep(h) PROVE EInv'
  BY <1>0, <1>3, EventsLeftAlone DEF StatsCall, ProbeStep, GetStatsLock, GetStats, onlyProbe
<1>4. ASSUME NEW s \in Subs, SubscribeCall(s) \/ Subscribe(s) \/ LoopStep(s) PROVE EInv'
  BY <1>0, <1>4, SubscribeKeeps, ReceiveKeeps, WaitKeeps, HandleKeeps, SettleKeeps DEF LoopStep
<1>5. ASSUME NEW e \in Events, EventArrives(e) \/ LockExpires(e) PROVE EInv'
  BY <1>0, <1>5, BrokerKeeps
<1>6. CASE UNCHANGED vars
  BY <1>0, <1>6, EventsLeftAlone DEF vars
<1>7. QED
  BY <1>1, <1>2, <1>3, <1>4, <1>5, <1>6 DEF Next

\* The invariant of the events holds throughout.
THEOREM EventInvariance == Spec => []EInv
<1>1. QED
  BY EInvInit, EInvStep, PTL DEF Spec

\* An event leaves the subscription only when a handler has accepted it, and is
\* accepted again only after its lock had run out, with any number of
\* subscriptions that share the events (azure_service_bus.go, the three ways out
\* of the loop).
THEOREM AcceptedOncePerLock == Spec => []AcceptedOnceUnlessExpired
<1>1. EInv => AcceptedOnceUnlessExpired
  <2> SUFFICES ASSUME EInv, NEW e \in Events
               PROVE  /\ accepted[e] <= 1 + expired[e]
                      /\ state[e] = "completed" => accepted[e] > 0
    BY DEF AcceptedOnceUnlessExpired
  <2>1. accepted[e] \in Nat /\ expired[e] \in Nat /\ Locks(e) \in {0, 1}
    BY DEF EInv, Typed, Deliverable, Locks
  <2>2. Cardinality(Pending(e)) \in Nat
    BY FS_CardinalityType DEF EInv, OncePerLock
  <2>3. accepted[e] + Cardinality(Pending(e)) <= expired[e] + Locks(e)
    BY DEF EInv, OncePerLock
  <2>4. accepted[e] <= 1 + expired[e]
    BY <2>1, <2>2, <2>3
  <2>5. QED
    BY <2>4 DEF EInv, CompletesTheAccepted
<1>2. QED
  BY <1>1, EventInvariance, PTL
-----------------------------------------------------------------------------
(***************************************************************************)
(* The order of the locks.                                                 *)
(***************************************************************************)

\* mu is locked by the owner inside Connect and Disconnect or by one Subscribe,
\* and read-held at no point where another goroutine can run.
MuHeld ==
    /\ mu.readers = {} /\ mu.writer \subseteq Subs \cup {Main}
    /\ \A p, q \in mu.writer : p = q
    /\ Main \in mu.writer <=> mainPc # "idle"
    /\ \A s \in Subs : s \in mu.writer <=> subPc[s] = "enter"

\* stats.mu: the one call that counts has announced itself, the readers are the
\* stats requests between the two locks.
StatsMuHeld ==
    /\ statsMu.writer \subseteq Calls /\ statsMu.readers \subseteq Probes
    /\ \A c, d \in statsMu.writer : c = d
    /\ \A c \in Calls : c \in statsMu.writer <=> callPc[c] = "counting"
    /\ \A h \in Probes : h \in statsMu.readers <=> probePc[h] = "inStats"

LockInv == MuHeld /\ StatsMuHeld

\* The receiving goroutines and the broker take no lock.
LEMMA LocksLeftAlone ==
    ASSUME \/ Cancel \/ UNCHANGED vars
           \/ \E s \in Subs : LoopStep(s)
           \/ \E e \in Events : EventArrives(e) \/ LockExpires(e)
    PROVE  UNCHANGED <<mu, statsMu, mainPc, subPc, callPc, probePc>>
<1> USE DEF onlyLoop, publishing
<1>1. ASSUME NEW s \in Subs, LoopStep(s)
      PROVE  UNCHANGED <<mu, statsMu, mainPc, subPc, callPc, probePc>>
  BY <1>1 DEF LoopStep, Receive, ReceiveFails, SleepEnds, ReceiveCancelled, Handle, Settle
<1>2. ASSUME NEW e \in Events, EventArrives(e) \/ LockExpires(e)
      PROVE  UNCHANGED <<mu, statsMu, mainPc, subPc, callPc, probePc>>
  BY <1>2 DEF EventArrives, LockExpires
<1>3. CASE Cancel \/ UNCHANGED vars
  BY <1>3 DEF Cancel, vars
<1>4. QED
  BY <1>1, <1>2, <1>3

\* The owner and the calls of Subscribe lock mu one at a time.
LEMMA MuHeldStep ==
    ASSUME TypeOK, MuHeld, [Next]_vars
    PROVE  MuHeld'
<1>0. /\ mu \in [readers : SUBSET Goroutines, writer : SUBSET Goroutines]
      /\ Main \notin Subs /\ subPc \in [Subs -> {"idle", "enter", "done"}]
  BY DistinctNames DEF TypeOK, LockValue
<1>1. CASE UNCHANGED <<mu, mainPc, subPc>>
  BY <1>1 DEF MuHeld
<1>2. CASE OwnerCall
  <2>1. /\ mu.writer = {} /\ mu'.writer = {Main} /\ mu'.readers = mu.readers
        /\ mainPc' # "idle" /\ UNCHANGED subPc
    BY <1>0, <1>2 DEF OwnerCall, CanAnnounce, Announce, onlyMain
  <2>2. QED
    BY <1>0, <2>1 DEF MuHeld
<1>3. CASE OwnerStep
  <2>1. mainPc # "idle" /\ UNCHANGED subPc
    BY <1>3 DEF OwnerStep, Connect, DisconnectSender, DisconnectReceiver, DisconnectClient, onlyMain
  <2>2. \/ UNCHANGED mu /\ mainPc' # "idle"
        \/ mu' = Unlock(mu) /\ mainPc' = "idle"
    BY <1>3 DEF OwnerStep, Connect, DisconnectSender, DisconnectReceiver, DisconnectClient
  <2>3. mu.writer = {Main}
    BY <1>0, <2>1 DEF MuHeld
  <2>4. CASE UNCHANGED mu /\ mainPc' # "idle"
    BY <2>1, <2>4 DEF MuHeld
  <2>5. CASE mu' = Unlock(mu) /\ mainPc' = "idle"
    <3>1. mu'.writer = {} /\ mu'.readers = mu.readers
      BY <1>0, <2>5 DEF Unlock
    <3>2. \A s \in Subs : subPc'[s] # "enter"
      BY <1>0, <2>1, <2>3 DEF MuHeld
    <3>3. QED
      BY <2>5, <3>1, <3>2 DEF MuHeld
  <2>6. QED
    BY <2>2, <2>4, <2>5
<1>4. ASSUME NEW s \in Subs, SubscribeCall(s) \/ Subscribe(s) PROVE MuHeld'
  <2>0. UNCHANGED mainPc /\ \A t \in Subs : t # s => subPc'[t] = subPc[t]
    BY <1>0, <1>4 DEF SubscribeCall, Subscribe, onlySub
  <2>1. CASE SubscribeCall(s)
    <3>1. /\ mu.writer = {} /\ mu'.writer = {s} /\ mu'.readers = mu.readers
          /\ subPc'[s] = "enter"
      BY <1>0, <2>1 DEF SubscribeCall, CanAnnounce, Announce
    <3>2. QED
      BY <1>0, <2>0, <3>1 DEF MuHeld
  <2>2. CASE Subscribe(s)
    <3>1. /\ mu.writer = {s} /\ mu'.writer = {} /\ mu'.readers = mu.readers
          /\ subPc'[s] = "done"
      BY <1>0, <2>2 DEF Subscribe, CanEnter, Unlock
    <3>2. QED
      BY <1>0, <2>0, <3>1 DEF MuHeld
  <2>3. QED
    BY <1>4, <2>1, <2>2
<1>5. ASSUME NEW c \in Calls, PublishCall(c) \/ PublishStep(c)
      PROVE  UNCHANGED <<mu, mainPc, subPc>>
  BY <1>5 DEF PublishCall, PublishStep, PublishCheck, PublishSend, UpdateStatsLock, UpdateStats,
              onlyCall
<1>6. ASSUME NEW h \in Probes, StatsCall(h) \/ ProbeStep(h)
      PROVE  UNCHANGED <<mu, mainPc, subPc>>
  BY <1>6 DEF StatsCall, ProbeStep, GetStatsLock, GetStats, onlyProbe
<1>7. QED
  BY <1>1, <1>2, <1>3, <1>4, <1>5, <1>6, LocksLeftAlone DEF Next

\* The calls that count take stats.mu one at a time, the stats requests share it.
LEMMA StatsMuStep ==
    ASSUME TypeOK, StatsMuHeld, [Next]_vars
    PROVE  StatsMuHeld'
<1>0. /\ statsMu \in [readers : SUBSET Goroutines, writer : SUBSET Goroutines]
      /\ callPc \in [Calls -> CallPcs]
      /\ probePc \in [Probes -> {"idle", "getStats", "inStats", "done"}]
  BY DEF TypeOK, LockValue
<1>1. CASE UNCHANGED <<statsMu, callPc, probePc>>
  BY <1>1 DEF StatsMuHeld
<1>2. ASSUME NEW c \in Calls, PublishCall(c) \/ PublishStep(c) PROVE StatsMuHeld'
  <2>0. UNCHANGED probePc /\ \A d \in Calls : d # c => callPc'[d] = callPc[d]
    BY <1>0, <1>2 DEF PublishCall, PublishStep, PublishCheck, PublishSend, UpdateStatsLock,
                      UpdateStats, Answer, onlyCall
  <2>1. CASE UpdateStatsLock(c)
    <3>1. /\ statsMu.writer = {} /\ statsMu'.writer = {c} /\ callPc'[c] = "counting"
          /\ statsMu'.readers = statsMu.readers
      BY <1>0, <2>1 DEF UpdateStatsLock, CanAnnounce, Announce
    <3>2. QED
      BY <2>0, <3>1 DEF StatsMuHeld
  <2>2. CASE UpdateStats(c)
    <3>1. /\ statsMu.writer = {c} /\ statsMu'.writer = {} /\ callPc'[c] = "done"
          /\ statsMu'.readers = statsMu.readers
      BY <1>0, <2>2 DEF UpdateStats, CanEnter, Unlock
    <3>2. QED
      BY <2>0, <3>1 DEF StatsMuHeld
  <2>3. CASE PublishCall(c) \/ PublishCheck(c) \/ PublishSend(c)
    <3>1. UNCHANGED statsMu /\ callPc[c] # "counting" /\ callPc'[c] # "counting"
      BY <1>0, <2>3 DEF PublishCall, PublishCheck, PublishSend, Answer
    <3>2. QED
      BY <2>0, <3>1 DEF StatsMuHeld
  <2>4. QED
    BY <1>2, <2>1, <2>2, <2>3 DEF PublishStep
<1>3. ASSUME NEW h \in Probes, StatsCall(h) \/ ProbeStep(h) PROVE StatsMuHeld'
  <2>0. UNCHANGED callPc /\ \A g \in Probes : g # h => probePc'[g] = probePc[g]
    BY <1>0, <1>3 DEF StatsCall, ProbeStep, GetStatsLock, GetStats, onlyProbe, publishing
  <2>1. CASE StatsCall(h)
    <3>1. UNCHANGED statsMu /\ probePc[h] # "inStats" /\ probePc'[h] # "inStats"
      BY <1>0, <2>1 DEF StatsCall
    <3>2. QED
      BY <2>0, <3>1 DEF StatsMuHeld
  <2>2. CASE GetStatsLock(h)
    <3>1. /\ statsMu'.readers = statsMu.readers \cup {h} /\ probePc'[h] = "inStats"
          /\ statsMu'.writer = statsMu.writer
      BY <1>0, <2>2 DEF GetStatsLock, RLock
    <3>2. QED
      BY <2>0, <3>1 DEF StatsMuHeld
  <2>3. CASE GetStats(h)
    <3>1. /\ statsMu'.readers = statsMu.readers \ {h} /\ probePc'[h] = "done"
          /\ statsMu'.writer = statsMu.writer
      BY <1>0, <2>3 DEF GetStats, RUnlock
    <3>2. QED
      BY <2>0, <3>1 DEF StatsMuHeld
  <2>4. QED
    BY <1>3, <2>1, <2>2, <2>3 DEF ProbeStep
<1>4. OwnerCall \/ OwnerStep => UNCHANGED <<statsMu, callPc, probePc>>
  BY DEF OwnerCall, OwnerStep, Connect, DisconnectSender, DisconnectReceiver, DisconnectClient,
         onlyMain, publishing
<1>5. ASSUME NEW s \in Subs, SubscribeCall(s) \/ Subscribe(s)
      PROVE  UNCHANGED <<statsMu, callPc, probePc>>
  BY <1>5 DEF SubscribeCall, Subscribe, onlySub, publishing
<1>6. QED
  BY <1>1, <1>2, <1>3, <1>4, <1>5, LocksLeftAlone DEF Next

\* The one who has announced itself at mu can go on.
MuHolderMoves ==
    \/ mainPc # "idle" /\ CanEnter(mu, Main)
    \/ \E s \in Subs : subPc[s] = "enter" /\ CanEnter(mu, s)

\* One of those who hold stats.mu can go on, or waits for one who can.
StatsHolderMoves ==
    \/ \E c \in Calls : callPc[c] = "counting" /\ CanEnter(statsMu, c)
    \/ \E h \in Probes : probePc[h] = "inStats" /\ (CanRLock(mu) \/ MuHolderMoves)

NoLockCycle ==
    /\ mu # Unlocked => MuHolderMoves
    /\ statsMu # Unlocked => StatsHolderMoves

\* There is no cycle in who waits for whom at the two locks, though Subscribe
\* locks mu as Connect and Disconnect do and GetStats takes it inside stats.mu:
\* someone of those who hold a lock can always go on, with any number of publishes,
\* stats requests and subscriptions (azure_service_bus.go, every use of mu and
\* stats.mu).
THEOREM AzureLocksNeverCycle == Spec => []NoLockCycle
<1>1. Init => LockInv
  BY DEF Init, LockInv, Unlocked, MuHeld, StatsMuHeld
<1>2. TypeOK /\ LockInv /\ [Next]_vars => LockInv'
  BY MuHeldStep, StatsMuStep DEF LockInv
<1>3. TypeOK /\ LockInv => NoLockCycle
  <2> SUFFICES ASSUME TypeOK, LockInv PROVE NoLockCycle
    OBVIOUS
  <2>0. /\ mu \in [readers : SUBSET Goroutines, writer : SUBSET Goroutines]
        /\ statsMu \in [readers : SUBSET Goroutines, writer : SUBSET Goroutines]
    BY DEF TypeOK, LockValue
  <2>1. ASSUME mu # Unlocked PROVE MuHolderMoves
    <3>1. mu.writer # {}
      BY <2>0, <2>1 DEF LockInv, MuHeld, Unlocked
    <3>2. PICK p \in Subs \cup {Main} : mu.writer = {p}
      BY <3>1 DEF LockInv, MuHeld
    <3>3. QED
      BY <3>2 DEF LockInv, MuHeld, MuHolderMoves, CanEnter
  <2>2. CanRLock(mu) \/ MuHolderMoves
    BY <2>1 DEF CanRLock, Unlocked
  <2>3. ASSUME statsMu # Unlocked PROVE StatsHolderMoves
    <3>1. CASE statsMu.readers # {}
      BY <2>2, <3>1 DEF LockInv, StatsMuHeld, StatsHolderMoves
    <3>2. CASE statsMu.readers = {}
      <4>1. statsMu.writer # {}
        BY <2>0, <2>3, <3>2 DEF Unlocked
      <4>2. PICK c \in Calls : statsMu.writer = {c}
        BY <4>1 DEF LockInv, StatsMuHeld
      <4>3. QED
        BY <3>2, <4>2 DEF LockInv, StatsMuHeld, StatsHolderMoves, CanEnter
    <3>3. QED
      BY <3>1, <3>2
  <2>4. QED
    BY <2>1, <2>3 DEF NoLockCycle
<1>4. QED
  BY AzureTypeCorrect, <1>1, <1>2, <1>3, PTL DEF Spec
=============================================================================
