-------------------------- MODULE RabbitMQConsumer --------------------------
(***************************************************************************)
(* Subscribe of the RabbitMQ adapter (internal/broker/adapters/            *)
(* rabbitmq.go): every subscription declares a queue of its own on the     *)
(* adapter's one channel, binds it, registers a consumer and leaves a      *)
(* goroutine behind that gives the deliveries to the handler, one at a     *)
(* time, and settles each.  The adapter is connected; what Connect,        *)
(* Disconnect and the watcher do to it is in RabbitMQAdapter, and appears  *)
(* here as the end of the channel.  Events are numbered in the order in    *)
(* which the exchange gets them.                                           *)
(***************************************************************************)
EXTENDS Naturals, Sequences, SequencesExt

CONSTANTS
    Subs,           \* calls of Subscribe
    LastEvent,      \* events are 1..LastEvent (bound of the model)
    Malformed,      \* events FromJSON rejects
    Poison,         \* events every call of the handler fails for
    MaxFailures     \* how often a handler fails for the others (bound of the model)

Events == 1..LastEvent

ASSUME LastEventIsNat == LastEvent \in Nat

ASSUME KindsOfEvents == Malformed \subseteq Events /\ Poison \subseteq Events \ Malformed

ASSUME MaxFailuresIsNat == MaxFailures \in Nat

VARIABLES
    connected, channel,    \* the adapter
    arrived,               \* how many events the exchange has got
    subPc,                 \* Subscribe
    bound,                 \* the subscriptions whose queue is bound to the exchange
    queue,                 \* the events in a queue that are not delivered
    buffer,                \* deliveries on their way to the goroutine
    loop, hand,            \* the goroutine, and the event it works on
    failures,              \* how often a handler has failed for another than a
                           \*   poisonous event
    inbox, offered, handled, settled   \* history: the events a queue has got, a
                           \*   handler has been called with, has returned nil
                           \*   for, and those acknowledged or dropped

adapter == <<connected, channel>>
server == <<arrived, bound, queue>>
goroutine == <<loop, hand, failures>>
history == <<offered, handled, settled>>

vars == <<adapter, server, subPc, buffer, goroutine, inbox, history>>
-----------------------------------------------------------------------------
SubPcs == {"idle", "declare", "bind", "consume", "active", "failed"}
LoopPcs == {"none", "receive", "handle", "ack", "drop", "requeue", "done"}

TypeOK ==
    /\ connected \in BOOLEAN /\ channel \in {"open", "closed"}
    /\ arrived \in 0..LastEvent
    /\ subPc \in [Subs -> SubPcs] /\ bound \in SUBSET Subs
    /\ queue \in [Subs -> SUBSET Events] /\ buffer \in [Subs -> Seq(Events)]
    /\ loop \in [Subs -> LoopPcs] /\ hand \in [Subs -> Events \cup {0}]
    /\ \A s \in Subs :
        /\ loop[s] = "none" <=> subPc[s] # "active"
        /\ hand[s] = 0 <=> loop[s] \in {"none", "receive", "done"}
    /\ failures \in [Subs -> 0..MaxFailures]
    /\ {inbox, offered, handled, settled} \subseteq [Subs -> SUBSET Events]

\* Connect has succeeded.
Init ==
    /\ connected = TRUE /\ channel = "open"
    /\ arrived = 0
    /\ subPc = [s \in Subs |-> "idle"] /\ bound = {}
    /\ queue = [s \in Subs |-> {}]
    /\ buffer = [s \in Subs |-> <<>>]
    /\ loop = [s \in Subs |-> "none"] /\ hand = [s \in Subs |-> 0]
    /\ failures = [s \in Subs |-> 0]
    /\ inbox = queue /\ offered = queue /\ handled = queue /\ settled = queue
-----------------------------------------------------------------------------
(***************************************************************************)
(* The server.  A queue is deleted, with what is in it, when the consumer  *)
(* it had is gone (it is declared auto-delete); one that never had a       *)
(* consumer stays.                                                         *)
(***************************************************************************)
ChannelCloses ==
    /\ channel' = "closed"
    /\ bound' = {s \in bound : subPc[s] # "active"}
    /\ queue' = [s \in Subs |-> IF subPc[s] = "active" THEN {} ELSE queue[s]]

ChannelLost ==
    /\ channel = "open"
    /\ ChannelCloses
    /\ UNCHANGED <<connected, arrived, subPc, buffer, goroutine, inbox, history>>

\* Disconnect, or the watcher after a loss.
Disconnect ==
    /\ connected
    /\ connected' = FALSE
    /\ ChannelCloses
    /\ UNCHANGED <<arrived, subPc, buffer, goroutine, inbox, history>>

EventArrives ==
    /\ arrived < LastEvent
    /\ arrived' = arrived + 1
    /\ queue' = [s \in Subs |-> queue[s] \cup (IF s \in bound THEN {arrived + 1} ELSE {})]
    /\ inbox' = [s \in Subs |-> inbox[s] \cup (IF s \in bound THEN {arrived + 1} ELSE {})]
    /\ UNCHANGED <<adapter, subPc, bound, buffer, goroutine, history>>

\* No prefetch limit is set: the server sends all it has, oldest first.
Deliver(s) ==
    /\ channel = "open" /\ subPc[s] = "active" /\ queue[s] # {}
    /\ queue' = [queue EXCEPT ![s] = {}]
    /\ \E sent \in SetToSeqs(queue[s]) :
        /\ \A i, j \in DOMAIN sent : i < j => sent[i] < sent[j]
        /\ buffer' = [buffer EXCEPT ![s] = @ \o sent]
    /\ UNCHANGED <<adapter, arrived, subPc, bound, goroutine, inbox, history>>

\* The client library drops, at some time after the channel has gone, what the
\* goroutine has not received.
DropBuffer(s) ==
    /\ channel = "closed" /\ buffer[s] # <<>>
    /\ buffer' = [buffer EXCEPT ![s] = <<>>]
    /\ UNCHANGED <<adapter, server, subPc, goroutine, inbox, history>>
-----------------------------------------------------------------------------
(***************************************************************************)
(* Subscribe.  The channel is copied under the read lock and used outside. *)
(* A request the server rejects closes the channel, for all its users.     *)
(***************************************************************************)
SubscribeCheck(s) ==
    /\ subPc[s] = "idle"
    /\ subPc' = [subPc EXCEPT ![s] = IF connected THEN "declare" ELSE "failed"]
    /\ UNCHANGED <<adapter, server, buffer, goroutine, inbox, history>>

SubscribeFails(s) ==
    /\ subPc[s] \in {"declare", "bind", "consume"}
    /\ subPc' = [subPc EXCEPT ![s] = "failed"]
    /\ ChannelCloses
    /\ UNCHANGED <<connected, arrived, buffer, goroutine, inbox, history>>

SubscribeDeclare(s) ==
    /\ subPc[s] = "declare" /\ channel = "open"
    /\ subPc' = [subPc EXCEPT ![s] = "bind"]
    /\ UNCHANGED <<adapter, server, buffer, goroutine, inbox, history>>

SubscribeBind(s) ==
    /\ subPc[s] = "bind" /\ channel = "open"
    /\ subPc' = [subPc EXCEPT ![s] = "consume"]
    /\ bound' = bound \cup {s}
    /\ UNCHANGED <<adapter, arrived, queue, buffer, goroutine, inbox, history>>

SubscribeConsume(s) ==
    /\ subPc[s] = "consume" /\ channel = "open"
    /\ subPc' = [subPc EXCEPT ![s] = "active"]
    /\ loop' = [loop EXCEPT ![s] = "receive"]
    /\ UNCHANGED <<adapter, server, buffer, hand, failures, inbox, history>>
-----------------------------------------------------------------------------
(***************************************************************************)
(* The goroutine.                                                          *)
(***************************************************************************)

\* Mutant: the newest delivery first.
OnOfferNewest(s) == Len(buffer[s])

\* Which of the deliveries the range loop gets.
OnOffer(s) == 1

\* FromJSON fails, or the handler is called.
AfterParse(e) == IF e \in Malformed THEN "drop" ELSE "handle"

Receive(s) ==
    /\ loop[s] = "receive" /\ buffer[s] # <<>>
    /\ LET e == buffer[s][OnOffer(s)]
       IN  /\ hand' = [hand EXCEPT ![s] = e]
           /\ loop' = [loop EXCEPT ![s] = AfterParse(e)]
           /\ offered' = [offered EXCEPT ![s] = @ \cup ({e} \ Malformed)]
           /\ buffer' = [buffer EXCEPT ![s] = RemoveAt(@, OnOffer(s))]
    /\ UNCHANGED <<adapter, server, subPc, failures, inbox, handled, settled>>

\* The range loop ends with the channel.
LoopEnds(s) ==
    /\ loop[s] = "receive" /\ buffer[s] = <<>> /\ channel = "closed"
    /\ loop' = [loop EXCEPT ![s] = "done"]
    /\ UNCHANGED <<adapter, server, subPc, buffer, hand, failures, inbox, history>>

\* Mutant: a handler that fails is called again at once.
AfterErrorRetries == "handle"

\* Mutant: an event is acknowledged whatever the handler says.
AfterErrorAcks == "ack"

\* What follows an error of the handler.
AfterError == "requeue"

HandlerFails(s) ==
    /\ loop[s] = "handle"
    /\ \/ hand[s] \in Poison /\ UNCHANGED failures
       \/ hand[s] \notin Poison /\ failures[s] < MaxFailures
          /\ failures' = [failures EXCEPT ![s] = @ + 1]
    /\ loop' = [loop EXCEPT ![s] = AfterError]
    /\ UNCHANGED <<adapter, server, subPc, buffer, hand, inbox, history>>

\* Mutant: success and failure end in the same branch.
HandlerReturnsRequeues(s) ==
    /\ loop[s] = "handle" /\ hand[s] \notin Poison
    /\ handled' = [handled EXCEPT ![s] = @ \cup {hand[s]}]
    /\ loop' = [loop EXCEPT ![s] = "requeue"]
    /\ UNCHANGED <<adapter, server, subPc, buffer, hand, failures, inbox, offered, settled>>

HandlerReturns(s) ==
    /\ loop[s] = "handle" /\ hand[s] \notin Poison
    /\ handled' = [handled EXCEPT ![s] = @ \cup {hand[s]}]
    /\ loop' = [loop EXCEPT ![s] = "ack"]
    /\ UNCHANGED <<adapter, server, subPc, buffer, hand, failures, inbox, offered, settled>>

\* Ack or Nack.  On a channel that has gone it fails, and the error is ignored.
\* An event that is requeued gets its old place back.
Settle(s) ==
    /\ loop[s] \in {"ack", "drop", "requeue"}
    /\ IF channel = "open" /\ loop[s] = "requeue"
       THEN queue' = [queue EXCEPT ![s] = @ \cup {hand[s]}]
       ELSE UNCHANGED queue
    /\ IF channel = "open" /\ loop[s] # "requeue"
       THEN settled' = [settled EXCEPT ![s] = @ \cup {hand[s]}]
       ELSE UNCHANGED settled
    /\ loop' = [loop EXCEPT ![s] = "receive"]
    /\ hand' = [hand EXCEPT ![s] = 0]
    /\ UNCHANGED <<adapter, arrived, bound, subPc, buffer, failures, inbox, offered, handled>>
-----------------------------------------------------------------------------
SubscribeStep(s) ==
    SubscribeFails(s) \/ SubscribeDeclare(s) \/ SubscribeBind(s) \/ SubscribeConsume(s)

LoopStep(s) ==
    Receive(s) \/ LoopEnds(s) \/ HandlerFails(s) \/ HandlerReturns(s) \/ Settle(s)

Next ==
    \/ ChannelLost \/ Disconnect \/ EventArrives
    \/ \E s \in Subs :
        SubscribeCheck(s) \/ SubscribeStep(s) \/ Deliver(s) \/ DropBuffer(s) \/ LoopStep(s)

(***************************************************************************)
(* A goroutine that can run does, the handler returns, the server delivers *)
(* what it has and the library drops its buffer.  Nobody has to publish,   *)
(* subscribe or break anything.                                            *)
(***************************************************************************)
Fairness ==
    \A s \in Subs :
        WF_vars(SubscribeStep(s)) /\ WF_vars(LoopStep(s))
            /\ WF_vars(Deliver(s)) /\ WF_vars(DropBuffer(s))

Spec == Init /\ [][Next]_vars

FairSpec == Spec /\ Fairness
-----------------------------------------------------------------------------
(***************************************************************************)
(* Properties.                                                             *)
(***************************************************************************)

\* While the channel lives no event disappears: whatever a queue has got is
\* still in it, is on its way to the handler, or has been settled, and only
\* what the handler accepted or nobody can parse is settled (rabbitmq.go, the
\* three ways out of the loop of Subscribe).
NothingVanishes ==
    \A s \in Subs :
        /\ settled[s] \subseteq handled[s] \cup Malformed
        /\ channel = "open" =>
              inbox[s] \subseteq queue[s] \cup ToSet(buffer[s]) \cup {hand[s]} \cup settled[s]

\* The handler is never called again for an event it has accepted, although its
\* Ack may fail: the queue such an event would come back from goes with the
\* channel (rabbitmq.go, QueueDeclare and Ack).
HandledAtMostOnce ==
    \A s \in Subs : loop[s] = "handle" => hand[s] \notin handled[s]

\* The handler sees new events in the order in which they were published,
\* whatever is requeued in between (rabbitmq.go, one goroutine per queue).
OfferedInOrder ==
    \A s \in Subs : \A e \in offered[s], d \in inbox[s] \ Malformed :
        d < e => d \in offered[s]

\* An event that can be handled is handled even when another one comes back
\* for ever (rabbitmq.go, Nack with requeue).
PoisonStarvesNobody ==
    \A s \in Subs : \A e \in Events \ (Poison \cup Malformed) :
        e \in inbox[s] ~> e \in settled[s] \/ channel = "closed"

\* The goroutine ends with the channel, whatever it was doing (rabbitmq.go, the
\* range over msgs).
GoroutineEnds ==
    \A s \in Subs : channel = "closed" ~> loop[s] \in {"none", "done"}
=============================================================================
