----------------------- MODULE AzureServiceBusAdapter -----------------------
(***************************************************************************)
(* The Azure Service Bus adapter                                           *)
(* (internal/broker/adapters/azure_service_bus.go).  Connect makes a       *)
(* client and a sender and speaks to nobody; Disconnect closes sender,     *)
(* receiver and client, holding mu while it does.  Publish uses a copy of  *)
(* the sender outside the lock, as the other adapters do.  Subscribe       *)
(* leaves a goroutine behind that receives batches of events in            *)
(* peek-lock mode: an event stays locked for the receiver until it is      *)
(* completed or abandoned, or the lock runs out; one that has been         *)
(* delivered too often becomes a dead letter.                              *)
(***************************************************************************)
EXTENDS Naturals, FiniteSets, RWMutex

CONSTANTS
    Calls,          \* calls of Publish, one message each
    Probes,         \* requests to the stats endpoint
    Subs,           \* calls of Subscribe
    Main,           \* the goroutine that owns the adapter
    Nil,            \* Go's nil pointer
    LastEvent,      \* events of the subscription are 1..LastEvent (bound of the model)
    Malformed,      \* events FromJSON rejects
    BatchSize,      \* the most ReceiveMessages is asked for
    MaxDeliveries   \* the queue's limit

Events == 1..LastEvent
Goroutines == Calls \cup Probes \cup Subs \cup {Main}

ASSUME DistinctNames ==
    /\ Calls \cap Probes = {} /\ (Calls \cup Probes) \cap Subs = {}
    /\ Main \notin Calls \cup Probes \cup Subs
    /\ Nil \notin Subs

ASSUME FiniteCalls == IsFiniteSet(Calls)

ASSUME MalformedAreEvents == LastEvent \in Nat /\ Malformed \subseteq Events

ASSUME LimitsArePositive == {BatchSize, MaxDeliveries} \subseteq Nat \ {0}

VARIABLES
    connected, client, sender, receiver, mu,  \* fields of AzureServiceBusAdapter
    published, failed, statsMu,               \* fields of its Stats
    mainPc, callPc, result, probePc, subPc,   \* where the goroutines are
    stored,                  \* the calls whose message the topic has got
    cancelled,               \* has the context given to Subscribe ended?
    closed,                  \* receivers that are closed
    loop, batch,             \* the receiving goroutines, and what is left of a batch
    state, holder, deliveries,                \* the subscription's events
    accepted, expired        \* history: how often a handler has returned nil
                             \*   for an event, and how often its lock ran out

adapter == <<connected, client, sender, receiver>>
counters == <<published, failed>>
publishing == <<callPc, result, stored>>
broker == <<state, holder, deliveries, expired>>
receiving == <<loop, batch, accepted>>

vars == <<adapter, mu, counters, statsMu, mainPc, publishing, probePc, subPc, cancelled, closed,
          receiving, broker>>
-----------------------------------------------------------------------------
Links == {"none", "open", "closed"}
CallPcs == {"idle", "called", "ready", "stats", "counting", "done"}
Loops == {"none", "receive", "sleep", "handle", "complete", "abandon", "done"}

TypeOK ==
    /\ connected \in BOOLEAN /\ {client, sender} \subseteq Links
    /\ receiver \in Subs \cup {Nil}
    /\ {mu, statsMu} \subseteq LockValue(Goroutines)
    /\ {published, failed} \subseteq Nat
    /\ mainPc \in {"idle", "connect", "disconnect", "closeReceiver", "closeClient"}
    /\ callPc \in [Calls -> CallPcs]
    /\ result \in [Calls -> {"none", "ok", "error", "refused"}]
    /\ probePc \in [Probes -> {"idle", "getStats", "inStats", "done"}]
    /\ subPc \in [Subs -> {"idle", "enter", "done"}]
    /\ stored \subseteq Calls /\ closed \subseteq Subs /\ cancelled \in BOOLEAN
    /\ loop \in [Subs -> Loops]
    /\ batch \in [Subs -> SUBSET Events]
    /\ state \in [Events -> {"absent", "ready", "locked", "completed", "dead"}]
    /\ holder \in [Events -> Subs \cup {Nil}]
    /\ deliveries \in [Events -> 0..MaxDeliveries]

\* NewAzureServiceBusAdapter: the zero value of every field.
Init ==
    /\ connected = FALSE /\ client = "none" /\ sender = "none" /\ receiver = Nil
    /\ mu = Unlocked /\ statsMu = Unlocked
    /\ published = 0 /\ failed = 0
    /\ mainPc = "idle"
    /\ callPc = [c \in Calls |-> "idle"] /\ result = [c \in Calls |-> "none"]
    /\ probePc = [h \in Probes |-> "idle"] /\ subPc = [s \in Subs |-> "idle"]
    /\ stored = {} /\ cancelled = FALSE /\ closed = {}
    /\ loop = [s \in Subs |-> "none"] /\ batch = [s \in Subs |-> {}]
    /\ state = [e \in Events |-> "absent"] /\ holder = [e \in Events |-> Nil]
    /\ deliveries = [e \in Events |-> 0]
    /\ accepted = [e \in Events |-> 0] /\ expired = [e \in Events |-> 0]
-----------------------------------------------------------------------------
(***************************************************************************)
(* Connect and Disconnect.                                                 *)
(***************************************************************************)
onlyMain == <<counters, statsMu, publishing, probePc, subPc, cancelled, receiving, broker>>

\* Main calls Connect, once, or Disconnect.
OwnerCall ==
    /\ mainPc = "idle"
    /\ CanAnnounce(mu)
    /\ mu' = Announce(mu, Main)
    /\ mainPc' \in {"disconnect"} \cup (IF client = "none" THEN {"connect"} ELSE {})
    /\ UNCHANGED <<adapter, closed, onlyMain>>

\* Client and sender are made without a network call; either may be refused,
\* and a client without a sender is closed again.
Connect ==
    /\ mainPc = "connect" /\ CanEnter(mu, Main)
    /\ \/ connected' = TRUE /\ client' = "open" /\ sender' = "open"
       \/ UNCHANGED <<connected, client, sender>>
    /\ mainPc' = "idle" /\ mu' = Unlock(mu)
    /\ UNCHANGED <<receiver, closed, onlyMain>>

\* Mutant: only the flag is looked at and lowered, the links are left.
DisconnectSenderFlagOnly ==
    /\ mainPc = "disconnect" /\ CanEnter(mu, Main)
    /\ connected' = FALSE
    /\ mainPc' = "idle" /\ mu' = Unlock(mu)
    /\ UNCHANGED <<client, sender, receiver, closed, onlyMain>>

\* Not connected: return.  Otherwise the sender is closed first.
DisconnectSender ==
    /\ mainPc = "disconnect" /\ CanEnter(mu, Main)
    /\ \/ ~connected /\ mainPc' = "idle" /\ mu' = Unlock(mu) /\ UNCHANGED sender
       \/ connected /\ mainPc' = "closeReceiver" /\ sender' = "closed" /\ UNCHANGED mu
    /\ UNCHANGED <<connected, client, receiver, closed, onlyMain>>

\* The receiver of the last Subscribe.
DisconnectReceiver ==
    /\ mainPc = "closeReceiver"
    /\ closed' = closed \cup ({receiver} \ {Nil})
    /\ mainPc' = "closeClient"
    /\ UNCHANGED <<adapter, mu, onlyMain>>

\* Mutant: the lock is not released.
DisconnectClientKeepsLock ==
    /\ mainPc = "closeClient"
    /\ client' = "closed" /\ closed' = Subs /\ connected' = FALSE
    /\ mainPc' = "idle"
    /\ UNCHANGED <<mu, sender, receiver, onlyMain>>

\* The client takes every receiver with it.
DisconnectClient ==
    /\ mainPc = "closeClient"
    /\ client' = "closed" /\ closed' = Subs /\ connected' = FALSE
    /\ mainPc' = "idle" /\ mu' = Unlock(mu)
    /\ UNCHANGED <<sender, receiver, onlyMain>>
-----------------------------------------------------------------------------
(***************************************************************************)
(* Publish, updateStats and GetStats.                                      *)
(***************************************************************************)
onlyCall == <<adapter, mu, mainPc, probePc, subPc, cancelled, closed, receiving, broker>>

Answer(c, r, next) ==
    /\ result' = [result EXCEPT ![c] = r]
    /\ callPc' = [callPc EXCEPT ![c] = next]

PublishCall(c) ==
    /\ callPc[c] = "idle"
    /\ callPc' = [callPc EXCEPT ![c] = "called"]
    /\ UNCHANGED <<result, stored, counters, statsMu, onlyCall>>

\* The only sender there ever is is copied, or the call is refused.
PublishCheck(c) ==
    /\ callPc[c] = "called" /\ CanRLock(mu)
    /\ \/ ~connected /\ Answer(c, "refused", "done")
       \/ connected /\ Answer(c, "none", "ready")
    /\ UNCHANGED <<stored, counters, statsMu, onlyCall>>

\* Mutant: the error of SendMessage is dropped.
PublishSendIgnoresError(c) ==
    /\ callPc[c] = "ready"
    /\ \/ UNCHANGED stored
       \/ sender = "open" /\ stored' = stored \cup {c}
    /\ Answer(c, "ok", "stats")
    /\ UNCHANGED <<counters, statsMu, onlyCall>>

\* Validate or ToJSON rejects the message; or SendMessage fails, before or after
\* the topic has stored it; or it succeeds.
PublishSend(c) ==
    /\ callPc[c] = "ready"
    /\ \/ UNCHANGED stored /\ Answer(c, "error", "stats")
       \/ /\ sender = "open" /\ stored' = stored \cup {c}
          /\ \E r \in {"ok", "error"} : Answer(c, r, "stats")
    /\ UNCHANGED <<counters, statsMu, onlyCall>>

UpdateStatsLock(c) ==
    /\ callPc[c] = "stats" /\ CanAnnounce(statsMu)
    /\ statsMu' = Announce(statsMu, c)
    /\ callPc' = [callPc EXCEPT ![c] = "counting"]
    /\ UNCHANGED <<result, stored, counters, onlyCall>>

\* Mutant: success and failure are swapped for a message that was stored.
UpdateStatsCountsStored(c) ==
    /\ callPc[c] = "counting" /\ CanEnter(statsMu, c)
    /\ IF c \in stored THEN published' = published + 1 /\ UNCHANGED failed
       ELSE failed' = failed + 1 /\ UNCHANGED published
    /\ statsMu' = Unlock(statsMu)
    /\ callPc' = [callPc EXCEPT ![c] = "done"]
    /\ UNCHANGED <<result, stored, onlyCall>>

UpdateStats(c) ==
    /\ callPc[c] = "counting" /\ CanEnter(statsMu, c)
    /\ IF result[c] = "ok" THEN published' = published + 1 /\ UNCHANGED failed
       ELSE failed' = failed + 1 /\ UNCHANGED published
    /\ statsMu' = Unlock(statsMu)
    /\ callPc' = [callPc EXCEPT ![c] = "done"]
    /\ UNCHANGED <<result, stored, onlyCall>>

onlyProbe == <<adapter, mu, counters, mainPc, publishing, subPc, cancelled, closed, receiving, broker>>

StatsCall(h) ==
    /\ probePc[h] = "idle"
    /\ probePc' = [probePc EXCEPT ![h] = "getStats"]
    /\ UNCHANGED <<statsMu, onlyProbe>>

GetStatsLock(h) ==
    /\ probePc[h] = "getStats" /\ CanRLock(statsMu)
    /\ statsMu' = RLock(statsMu, h)
    /\ probePc' = [probePc EXCEPT ![h] = "inStats"]
    /\ UNCHANGED onlyProbe

\* IsHealthy is asked inside stats.mu; what is shown is in RabbitMQAdapter.
GetStats(h) ==
    /\ probePc[h] = "inStats" /\ CanRLock(mu)
    /\ statsMu' = RUnlock(statsMu, h)
    /\ probePc' = [probePc EXCEPT ![h] = "done"]
    /\ UNCHANGED onlyProbe
-----------------------------------------------------------------------------
(***************************************************************************)
(* Subscribe and its goroutine.                                            *)
(***************************************************************************)
onlySub == <<connected, client, sender, counters, statsMu, mainPc, publishing, probePc, cancelled,
             closed, batch, accepted, broker>>

SubscribeCall(s) ==
    /\ subPc[s] = "idle" /\ CanAnnounce(mu)
    /\ mu' = Announce(mu, s)
    /\ subPc' = [subPc EXCEPT ![s] = "enter"]
    /\ UNCHANGED <<receiver, loop, onlySub>>

\* Refused when not connected, or by the library.
Subscribe(s) ==
    /\ subPc[s] = "enter" /\ CanEnter(mu, s)
    /\ \/ UNCHANGED <<receiver, loop>>
       \/ /\ connected
          /\ receiver' = s
          /\ loop' = [loop EXCEPT ![s] = "receive"]
    /\ subPc' = [subPc EXCEPT ![s] = "done"] /\ mu' = Unlock(mu)
    /\ UNCHANGED onlySub

onlyLoop == <<adapter, mu, counters, statsMu, mainPc, publishing, probePc, subPc, cancelled, closed>>

Goto(s, next) == loop' = [loop EXCEPT ![s] = next]

\* The oldest events, at most BatchSize of them, are locked for the receiver.
Receive(s) ==
    /\ loop[s] = "receive" /\ s \notin closed /\ ~cancelled
    /\ \E sent \in SUBSET {e \in Events : state[e] = "ready"} :
         /\ Cardinality(sent) \in 1..BatchSize
         /\ \A e \in sent, d \in Events : d < e /\ state[d] = "ready" => d \in sent
         /\ batch' = [batch EXCEPT ![s] = sent]
         /\ state' = [e \in Events |-> IF e \in sent THEN "locked" ELSE state[e]]
         /\ holder' = [e \in Events |-> IF e \in sent THEN s ELSE holder[e]]
         /\ deliveries' = [e \in Events |-> deliveries[e] + IF e \in sent THEN 1 ELSE 0]
    /\ Goto(s, "handle")
    /\ UNCHANGED <<accepted, expired, onlyLoop>>

\* Any error but the end of the context: wait a second and try again.
ReceiveFails(s) ==
    /\ loop[s] = "receive"
    /\ Goto(s, "sleep")
    /\ UNCHANGED <<batch, accepted, broker, onlyLoop>>

SleepEnds(s) ==
    /\ loop[s] = "sleep"
    /\ Goto(s, "receive")
    /\ UNCHANGED <<batch, accepted, broker, onlyLoop>>

\* Mutant: the error is compared with another one.
ReceiveCancelledGoesOn(s) ==
    /\ loop[s] = "receive" /\ cancelled
    /\ Goto(s, "sleep")
    /\ UNCHANGED <<batch, accepted, broker, onlyLoop>>

\* The context has ended.  A receiver that is closed as well may report that
\* first, in every round.
ReceiveCancelled(s) ==
    /\ loop[s] = "receive" /\ cancelled
    /\ Goto(s, "done")
    /\ UNCHANGED <<batch, accepted, broker, onlyLoop>>

\* A batch is handled from its oldest event on.
OnTurn(s, e) == e \in batch[s] /\ \A d \in batch[s] : e <= d

\* Mutant: what the handler accepts is given back.
HandleAbandonsAll(s) ==
    /\ loop[s] = "handle"
    /\ \/ Goto(s, "abandon") /\ UNCHANGED accepted
       \/ \E e \in batch[s] \ Malformed :
             /\ OnTurn(s, e) /\ Goto(s, "abandon")
             /\ accepted' = [accepted EXCEPT ![e] = @ + 1]
    /\ UNCHANGED <<batch, broker, onlyLoop>>

\* FromJSON or the handler fails, or the handler accepts the event.
Handle(s) ==
    /\ loop[s] = "handle"
    /\ \/ Goto(s, "abandon") /\ UNCHANGED accepted
       \/ \E e \in batch[s] \ Malformed :
             /\ OnTurn(s, e) /\ Goto(s, "complete")
             /\ accepted' = [accepted EXCEPT ![e] = @ + 1]
    /\ UNCHANGED <<batch, broker, onlyLoop>>

\* The lock on an event ends and the event does not.
ReleaseEvent(e) ==
    /\ state' = [state EXCEPT ![e] = IF deliveries[e] < MaxDeliveries THEN "ready" ELSE "dead"]
    /\ holder' = [holder EXCEPT ![e] = Nil]

\* Mutant: the loop returns where it should continue.
NextInBatchEndsLoop(s, e) ==
    /\ batch' = [batch EXCEPT ![s] = @ \ {e}]
    /\ Goto(s, IF batch[s] = {e} THEN "done" ELSE "handle")

\* The rest of the batch comes next, or another batch.
NextInBatch(s, e) ==
    /\ batch' = [batch EXCEPT ![s] = @ \ {e}]
    /\ Goto(s, IF batch[s] = {e} THEN "receive" ELSE "handle")

\* CompleteMessage and AbandonMessage need the lock, the receiver and the
\* context; their errors are logged or ignored.
Settle(s) ==
    /\ loop[s] \in {"complete", "abandon"}
    /\ \E e \in batch[s] :
         /\ OnTurn(s, e)
         /\ \/ UNCHANGED <<state, holder>>
            \/ /\ holder[e] = s /\ s \notin closed /\ ~cancelled
               /\ IF loop[s] = "abandon" THEN ReleaseEvent(e)
                  ELSE /\ state' = [state EXCEPT ![e] = "completed"]
                       /\ holder' = [holder EXCEPT ![e] = Nil]
         /\ NextInBatch(s, e)
    /\ UNCHANGED <<accepted, deliveries, expired, onlyLoop>>
-----------------------------------------------------------------------------
(***************************************************************************)
(* The caller's context and the broker.                                    *)
(***************************************************************************)
Cancel ==
    /\ ~cancelled
    /\ cancelled' = TRUE
    /\ UNCHANGED <<adapter, mu, counters, statsMu, mainPc, publishing, probePc, subPc, closed,
                   receiving, broker>>

EventArrives(e) ==
    /\ state[e] = "absent"
    /\ state' = [state EXCEPT ![e] = "ready"]
    /\ UNCHANGED <<cancelled, receiving, holder, deliveries, expired, onlyLoop>>

LockExpires(e) ==
    /\ state[e] = "locked"
    /\ ReleaseEvent(e)
    /\ expired' = [expired EXCEPT ![e] = @ + 1]
    /\ UNCHANGED <<deliveries, cancelled, receiving, onlyLoop>>
-----------------------------------------------------------------------------
OwnerStep == Connect \/ DisconnectSender \/ DisconnectReceiver \/ DisconnectClient

PublishStep(c) ==
    PublishCheck(c) \/ PublishSend(c) \/ UpdateStatsLock(c) \/ UpdateStats(c)

ProbeStep(h) == GetStatsLock(h) \/ GetStats(h)

LoopStep(s) ==
    \/ Receive(s) \/ ReceiveFails(s) \/ SleepEnds(s) \/ ReceiveCancelled(s)
    \/ Handle(s) \/ Settle(s)

Next ==
    \/ OwnerCall \/ OwnerStep \/ Cancel
    \/ \E c \in Calls : PublishCall(c) \/ PublishStep(c)
    \/ \E h \in Probes : StatsCall(h) \/ ProbeStep(h)
    \/ \E s \in Subs : SubscribeCall(s) \/ Subscribe(s) \/ LoopStep(s)
    \/ \E e \in Events : EventArrives(e) \/ LockExpires(e)

(***************************************************************************)
(* A goroutine that can run does, and gets a lock that is free again and   *)
(* again; a lock on an event runs out; receiving does not fail for ever    *)
(* while the link is open.                                                 *)
(***************************************************************************)
Fairness ==
    /\ WF_vars(OwnerStep)
    /\ \A c \in Calls : SF_vars(PublishStep(c))
    /\ \A h \in Probes : SF_vars(ProbeStep(h))
    /\ \A s \in Subs :
        /\ WF_vars(Subscribe(s)) /\ WF_vars(LoopStep(s))
        /\ SF_vars(Receive(s)) /\ SF_vars(connected /\ ReceiveCancelled(s))
    /\ \A e \in Events : WF_vars(LockExpires(e))

Spec == Init /\ [][Next]_vars

FairSpec == Spec /\ Fairness
-----------------------------------------------------------------------------
(***************************************************************************)
(* Properties.                                                             *)
(***************************************************************************)

\* The counters tell apart what the callers were told, and lose nothing
\* (azure_service_bus.go, Publish and updateStats).
CountersExact ==
    /\ published = Cardinality({c \in Calls : callPc[c] = "done" /\ result[c] = "ok"})
    /\ failed = Cardinality({c \in Calls : callPc[c] = "done" /\ result[c] = "error"})

\* Once Disconnect has returned no message of a publish that copied the sender
\* before is stored any more (azure_service_bus.go, Disconnect against the send
\* outside the lock).
SilentWhenDisconnected ==
    [][mainPc = "idle" /\ ~connected => stored' = stored]_vars

\* What the caller of Publish is promised: see PublishContract.
Outcome(c) ==
    IF callPc[c] = "idle" THEN "idle"
    ELSE IF callPc[c] = "done" THEN result[c] ELSE "pending"

Contract == INSTANCE PublishContract
    WITH outcome <- [c \in Calls |-> Outcome(c)], handed <- stored

PublishContractHolds == Contract!Spec

\* An event leaves the subscription only when a handler has accepted it, and a
\* handler accepts it again only when its lock had run out, whatever fails
\* between the two (azure_service_bus.go, the three ways out of the loop).
AcceptedOnceUnlessExpired ==
    \A e \in Events :
        /\ accepted[e] <= 1 + expired[e]
        /\ state[e] = "completed" => accepted[e] > 0

\* Neither a handler that fails, nor an event nobody can parse, nor errors of
\* the settling keep an event in the subscription for ever
\* (azure_service_bus.go, AbandonMessage).
EveryEventSettled ==
    \A e \in Events, s \in Subs :
        loop[s] = "receive" /\ state[e] \in {"ready", "locked"}
            ~> state[e] \in {"completed", "dead"} \/ s \in closed \/ cancelled

\* A cancelled context ends the goroutine unless Disconnect comes first
\* (azure_service_bus.go:191).
CancelEnds ==
    \A s \in Subs : cancelled ~> loop[s] \in {"none", "done"} \/ s \in closed

\* Disconnect, which holds mu for three calls of the library, publishes, stats
\* requests and subscriptions do not block one another (azure_service_bus.go,
\* mu and stats.mu).
EverybodyReturns ==
    /\ mainPc # "idle" ~> mainPc = "idle"
    /\ \A c \in Calls : callPc[c] = "called" ~> callPc[c] = "done"
    /\ \A h \in Probes : probePc[h] = "getStats" ~> probePc[h] = "done"
    /\ \A s \in Subs : subPc[s] = "enter" ~> subPc[s] = "done"
=============================================================================
