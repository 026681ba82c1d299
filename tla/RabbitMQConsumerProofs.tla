----------------------- MODULE RabbitMQConsumerProofs -----------------------
(***************************************************************************)
(* Proofs about RabbitMQConsumer.  The inductive invariant follows the     *)
(* events of one subscription: where each can be, what the goroutine's     *)
(* place says of the event in its hand, and that the buffer has no gap     *)
(* before an event that is new.                                            *)
(***************************************************************************)
EXTENDS RabbitMQConsumer, FiniteSetTheorems, FunctionTheorems, SequenceTheorems,
        TLAPS
-----------------------------------------------------------------------------
\* The events a subscription has still before it.
Waiting(s) == queue[s] \cup ToSet(buffer[s])

\* An event is in one place at a time, and came through the exchange.
Placed(s) ==
    /\ \A i, j \in DOMAIN buffer[s] : buffer[s][i] = buffer[s][j] => i = j
    /\ queue[s] \cap ToSet(buffer[s]) = {}
    /\ hand[s] \notin Waiting(s)
    /\ Waiting(s) \cup ({hand[s]} \ {0}) \cup offered[s] \subseteq inbox[s]
    /\ inbox[s] \subseteq 1..arrived

\* What the goroutine's place says of the event it works on; what has been
\* handled is not waiting any more.
Progress(s) ==
    /\ loop[s] = "drop" => hand[s] \in Malformed
    /\ loop[s] \in {"handle", "ack", "requeue"} => hand[s] \in offered[s]
    /\ loop[s] \in {"handle", "requeue"} => hand[s] \notin handled[s]
    /\ loop[s] = "ack" => hand[s] \in handled[s]
    /\ handled[s] \subseteq offered[s]
    /\ handled[s] \cap Waiting(s) = {}

\* Before an event in the buffer there is every older one that is new.
NoGap(s) ==
    \A i \in DOMAIN buffer[s], d \in inbox[s] \ (Malformed \cup offered[s]) :
        d < buffer[s][i] => \E j \in 1..(i - 1) : buffer[s][j] = d

\* What the checked properties say of one subscription.
Kept(s) ==
    /\ settled[s] \subseteq handled[s] \cup Malformed
    /\ channel = "open" =>
          inbox[s] \subseteq Waiting(s) \cup {hand[s]} \cup settled[s]

InOrder(s) ==
    \A e \in offered[s], d \in inbox[s] \ Malformed : d < e => d \in offered[s]

SubInv(s) == Placed(s) /\ Progress(s) /\ NoGap(s) /\ Kept(s) /\ InOrder(s)

IInv == TypeOK /\ \A s \in Subs : SubInv(s)
-----------------------------------------------------------------------------
(***************************************************************************)
(* Sequences.                                                              *)
(***************************************************************************)

\* What is appended comes after what was there.
LEMMA Appended ==
    ASSUME NEW S, NEW b \in Seq(S), NEW c \in Seq(S)
    PROVE  /\ b \o c \in Seq(S)
           /\ DOMAIN b = 1..Len(b) /\ DOMAIN c = 1..Len(c)
           /\ DOMAIN (b \o c) = 1..(Len(b) + Len(c))
           /\ \A i \in DOMAIN b : (b \o c)[i] = b[i]
           /\ \A i \in DOMAIN c : (b \o c)[Len(b) + i] = c[i]
           /\ ToSet(b \o c) = ToSet(b) \cup ToSet(c)
<1> PICK m \in Nat : m = Len(b)
  OBVIOUS
<1> PICK n \in Nat : n = Len(c)
  OBVIOUS
<1>1. /\ b \o c \in Seq(S) /\ Len(b \o c) = m + n
      /\ \A i \in 1..(m + n) : (b \o c)[i] = IF i <= m THEN b[i] ELSE c[i - m]
  BY ConcatProperties
<1>2. DOMAIN b = 1..m /\ DOMAIN c = 1..n /\ DOMAIN (b \o c) = 1..(m + n)
  BY <1>1
<1>3. \A i \in 1..m : (b \o c)[i] = b[i]
  BY <1>1
<1>4. \A i \in 1..n : (b \o c)[m + i] = c[i]
  BY <1>1
<1>5. ToSet(b \o c) \subseteq ToSet(b) \cup ToSet(c)
  <2>1. SUFFICES ASSUME NEW i \in 1..(m + n)
                 PROVE  (b \o c)[i] \in ToSet(b) \cup ToSet(c)
    BY <1>2 DEF ToSet
  <2>2. CASE i <= m
    BY <1>2, <1>3, <2>2 DEF ToSet
  <2>3. CASE i > m
    <3>1. i - m \in 1..n /\ (b \o c)[i] = c[i - m]
      BY <1>1, <2>3
    <3>2. QED
      BY <1>2, <3>1 DEF ToSet
  <2>4. QED
    BY <2>2, <2>3
<1>6. ToSet(b) \subseteq ToSet(b \o c)
  <2>1. \A i \in 1..m : i \in 1..(m + n)
    OBVIOUS
  <2>2. QED
    BY <1>2, <1>3, <2>1 DEF ToSet
<1>7. ToSet(c) \subseteq ToSet(b \o c)
  <2>1. \A i \in 1..n : m + i \in 1..(m + n)
    OBVIOUS
  <2>2. QED
    BY <1>2, <1>4, <2>1 DEF ToSet
<1>8. QED
  BY <1>1, <1>2, <1>3, <1>4, <1>5, <1>6, <1>7

\* What the range loop leaves behind when it takes the first delivery.
LEMMA FirstRemoved ==
    ASSUME NEW S, NEW b \in Seq(S), b # <<>>
    PROVE  /\ RemoveAt(b, 1) \in Seq(S)
           /\ b[1] \in S /\ 1 \in DOMAIN b
           /\ DOMAIN RemoveAt(b, 1) = 1..(Len(b) - 1)
           /\ \A i \in 1..(Len(b) - 1) : i + 1 \in DOMAIN b /\ RemoveAt(b, 1)[i] = b[i + 1]
           /\ ToSet(b) = {b[1]} \cup ToSet(RemoveAt(b, 1))
<1> PICK n \in Nat : n = Len(b) /\ n # 0
  BY EmptySeq
<1> DEFINE r == RemoveAt(b, 1)
<1>1. DOMAIN b = 1..n /\ \A i \in 1..n : b[i] \in S
  OBVIOUS
<1>2. r = SubSeq(b, 2, n)
  <2>1. SubSeq(b, 1, 0) = <<>>
    BY SubSeqEmpty
  <2>2. SubSeq(b, 2, n) \in Seq(S)
    BY <1>1, SubSeqProperties
  <2>3. <<>> \o SubSeq(b, 2, n) = SubSeq(b, 2, n)
    BY <2>2, ConcatEmptySeq
  <2>4. r = SubSeq(b, 1, 1 - 1) \o SubSeq(b, 1 + 1, n)
    BY DEF RemoveAt
  <2>5. 1 - 1 = 0 /\ 1 + 1 = 2
    OBVIOUS
  <2>6. QED
    BY <2>1, <2>3, <2>4, <2>5
<1>3. r \in Seq(S) /\ Len(r) = n - 1 /\ \A i \in 1..(n - 1) : r[i] = b[i + 1]
  <2>1. \A i \in 2..n : b[i] \in S
    BY <1>1
  <2>2. /\ SubSeq(b, 2, n) \in Seq(S)
        /\ Len(SubSeq(b, 2, n)) = IF 2 <= n THEN n - 2 + 1 ELSE 0
        /\ \A i \in 1..(n - 2 + 1) : SubSeq(b, 2, n)[i] = b[2 + i - 1]
    BY <2>1, SubSeqProperties
  <2> DEFINE q == SubSeq(b, 2, n)
  <2> HIDE DEF q
  <2>3. q \in Seq(S) /\ Len(q) = n - 1 /\ \A i \in 1..(n - 1) : q[i] = b[2 + i - 1]
    BY <2>2, n - 2 + 1 = n - 1 DEF q
  <2>4. \A i \in 1..(n - 1) : 2 + i - 1 = i + 1
    OBVIOUS
  <2>5. QED
    BY <1>2, <2>3, <2>4 DEF q
<1> HIDE DEF r
<1>4. DOMAIN r = 1..(n - 1)
  BY <1>3
<1>5. \A i \in 1..(n - 1) : i + 1 \in 1..n
  OBVIOUS
<1>6. \A i \in 1..n : i = 1 \/ (i - 1 \in 1..(n - 1) /\ r[i - 1] = b[i])
  BY <1>3
<1>7. ToSet(b) = {b[1]} \cup ToSet(r)
  <2>1. ToSet(r) \subseteq ToSet(b)
    BY <1>1, <1>3, <1>4, <1>5 DEF ToSet
  <2>2. b[1] \in ToSet(b)
    BY <1>1 DEF ToSet
  <2>3. ToSet(b) \subseteq {b[1]} \cup ToSet(r)
    BY <1>1, <1>4, <1>6 DEF ToSet
  <2>4. QED
    BY <2>1, <2>2, <2>3
<1>8. QED
  BY <1>1, <1>3, <1>4, <1>5, <1>7 DEF r

\* The sequences Deliver chooses from hold the whole queue, once each.
LEMMA WholeQueue ==
    ASSUME NEW Q \in SUBSET Events, NEW sent \in SetToSeqs(Q)
    PROVE  /\ sent \in Seq(Q)
           /\ ToSet(sent) = Q
           /\ \A i, j \in DOMAIN sent : sent[i] = sent[j] => i = j
<1>1. IsFiniteSet(Q)
  <2>1. IsFiniteSet(Events)
    BY FS_Interval, LastEventIsNat DEF Events
  <2>2. QED
    BY <2>1, FS_Subset
<1>2. PICK n \in Nat : n = Cardinality(Q)
  BY <1>1, FS_CardinalityType
<1>3. sent \in [1..n -> Q] /\ \A i, j \in 1..n : sent[i] = sent[j] => i = j
  BY <1>2 DEF SetToSeqs
<1>4. sent \in Injection(1..n, Q)
  BY <1>3, Fun_IsInj
<1>5. Cardinality(1..n) = n
  BY FS_Interval
<1>6. sent \in Surjection(1..n, Q)
  BY <1>1, <1>2, <1>4, <1>5, FS_Injection
<1>7. \A e \in Q : \E i \in 1..n : sent[i] = e
  BY <1>6, Fun_SurjectionProperties
<1>8. QED
  BY <1>3, <1>7 DEF ToSet
-----------------------------------------------------------------------------
(***************************************************************************)
(* Types.                                                                  *)
(***************************************************************************)

\* The initial state is well typed.
LEMMA TypeInit == Init => TypeOK
<1>1. <<>> \in Seq(Events)
  OBVIOUS
<1>2. 0 \in 0..LastEvent /\ 0 \in 0..MaxFailures
  BY LastEventIsNat, MaxFailuresIsNat
<1>3. QED
  BY <1>1, <1>2 DEF Init, TypeOK, SubPcs, LoopPcs

\* What the server and the library do keeps the state well typed.
LEMMA TypeServer ==
    ASSUME TypeOK,
           \/ ChannelLost \/ Disconnect \/ EventArrives
           \/ \E s \in Subs : Deliver(s) \/ DropBuffer(s)
    PROVE  TypeOK'
<1> USE DEF adapter, server, goroutine, history
<1>1. CASE ChannelLost
  BY <1>1 DEF TypeOK, ChannelLost, ChannelCloses
<1>2. CASE Disconnect
  BY <1>2 DEF TypeOK, Disconnect, ChannelCloses
<1>3. CASE EventArrives
  <2>1. arrived + 1 \in Events /\ arrived + 1 \in 0..LastEvent
    BY <1>3, LastEventIsNat DEF TypeOK, EventArrives, Events
  <2>2. QED
    BY <1>3, <2>1 DEF TypeOK, EventArrives
<1>4. ASSUME NEW s \in Subs, Deliver(s) PROVE TypeOK'
  <2>1. PICK sent \in SetToSeqs(queue[s]) : buffer' = [buffer EXCEPT ![s] = @ \o sent]
    BY <1>4 DEF Deliver
  <2>2. queue[s] \in SUBSET Events /\ buffer[s] \in Seq(Events)
    BY DEF TypeOK
  <2>3. sent \in Seq(Events)
    BY <2>2, WholeQueue, SeqMonotonic
  <2>4. buffer' \in [Subs -> Seq(Events)]
    BY <2>1, <2>2, <2>3, Appended DEF TypeOK
  <2>5. QED
    BY <1>4, <2>4 DEF TypeOK, Deliver
<1>5. ASSUME NEW s \in Subs, DropBuffer(s) PROVE TypeOK'
  BY <1>5 DEF TypeOK, DropBuffer
<1>6. QED
  BY <1>1, <1>2, <1>3, <1>4, <1>5

\* What Subscribe does keeps the state well typed.
LEMMA TypeSubscribe ==
    ASSUME TypeOK, NEW s \in Subs, SubscribeCheck(s) \/ SubscribeStep(s)
    PROVE  TypeOK'
<1> USE DEF adapter, server, goroutine, history
<1>1. CASE SubscribeCheck(s)
  BY <1>1 DEF TypeOK, SubscribeCheck, SubPcs
<1>2. CASE SubscribeFails(s)
  BY <1>2 DEF TypeOK, SubscribeFails, ChannelCloses, SubPcs
<1>3. CASE SubscribeDeclare(s)
  BY <1>3 DEF TypeOK, SubscribeDeclare, SubPcs
<1>4. CASE SubscribeBind(s)
  BY <1>4 DEF TypeOK, SubscribeBind, SubPcs
<1>5. CASE SubscribeConsume(s)
  BY <1>5 DEF TypeOK, SubscribeConsume, SubPcs, LoopPcs
<1>6. QED
  BY <1>1, <1>2, <1>3, <1>4, <1>5 DEF SubscribeStep

\* What the goroutine does keeps the state well typed.
LEMMA TypeLoop ==
    ASSUME TypeOK, NEW s \in Subs, LoopStep(s)
    PROVE  TypeOK'
<1> USE DEF adapter, server, goroutine, history
<1>0. 0 \notin Events
  BY DEF Events
<1>1. CASE Receive(s)
  <2>1. /\ RemoveAt(buffer[s], 1) \in Seq(Events)
        /\ buffer[s][1] \in Events
    BY <1>1, FirstRemoved DEF TypeOK, Receive
  <2>2. PICK e \in Events : e = buffer[s][1]
    BY <2>1
  <2>3. /\ hand' = [hand EXCEPT ![s] = e]
        /\ loop' = [loop EXCEPT ![s] = AfterParse(e)]
        /\ offered' = [offered EXCEPT ![s] = @ \cup ({e} \ Malformed)]
        /\ buffer' = [buffer EXCEPT ![s] = RemoveAt(buffer[s], 1)]
    BY <1>1, <2>2 DEF Receive, OnOffer
  <2>4. AfterParse(e) \in {"drop", "handle"}
    BY DEF AfterParse
  <2>5. buffer' \in [Subs -> Seq(Events)]
    BY <2>1, <2>3 DEF TypeOK
  <2>6. QED
    BY <1>0, <1>1, <2>3, <2>4, <2>5 DEF TypeOK, Receive, LoopPcs
<1>2. CASE LoopEnds(s)
  BY <1>2 DEF TypeOK, LoopEnds, LoopPcs
<1>3. CASE HandlerFails(s)
  <2>1. failures' \in [Subs -> 0..MaxFailures]
    <3>1. PICK n \in 0..MaxFailures : n = failures[s]
      BY DEF TypeOK
    <3>2. CASE UNCHANGED failures
      BY <3>2 DEF TypeOK
    <3>3. CASE n < MaxFailures /\ failures' = [failures EXCEPT ![s] = @ + 1]
      <4>1. n + 1 \in 0..MaxFailures
        BY <3>1, <3>3, MaxFailuresIsNat
      <4>2. QED
        BY <3>1, <3>3, <4>1 DEF TypeOK
    <3>4. QED
      BY <1>3, <3>1, <3>2, <3>3 DEF HandlerFails
  <2>2. QED
    BY <1>3, <2>1 DEF TypeOK, HandlerFails, AfterError, LoopPcs
<1>4. CASE HandlerReturns(s)
  BY <1>0, <1>4 DEF TypeOK, HandlerReturns, LoopPcs
<1>5. CASE Settle(s)
  <2>1. PICK e \in Events : e = hand[s]
    BY <1>5 DEF TypeOK, Settle
  <2>2. queue' \in [Subs -> SUBSET Events]
    <3>1. queue' = queue \/ queue' = [queue EXCEPT ![s] = @ \cup {e}]
      BY <1>5, <2>1 DEF Settle
    <3>2. queue[s] \cup {e} \in SUBSET Events /\ queue \in [Subs -> SUBSET Events]
      BY DEF TypeOK
    <3>3. QED
      BY <3>1, <3>2
  <2>3. settled' \in [Subs -> SUBSET Events]
    <3>1. settled' = settled \/ settled' = [settled EXCEPT ![s] = @ \cup {e}]
      BY <1>5, <2>1 DEF Settle
    <3>2. settled[s] \cup {e} \in SUBSET Events /\ settled \in [Subs -> SUBSET Events]
      BY DEF TypeOK
    <3>3. QED
      BY <3>1, <3>2
  <2>4. /\ hand' \in [Subs -> Events \cup {0}] /\ loop' \in [Subs -> LoopPcs]
        /\ \A r \in Subs : hand'[r] = 0 <=> loop'[r] \in {"none", "receive", "done"}
    BY <1>5 DEF TypeOK, Settle, LoopPcs
  <2>5. QED
    BY <1>5, <2>2, <2>3, <2>4 DEF TypeOK, Settle
<1>6. QED
  BY <1>1, <1>2, <1>3, <1>4, <1>5 DEF LoopStep

\* Every step keeps the state well typed.
LEMMA TypeStep == TypeOK /\ [Next]_vars => TypeOK'
<1> SUFFICES ASSUME TypeOK, [Next]_vars PROVE TypeOK'
  OBVIOUS
<1>1. CASE Next
  BY <1>1, TypeServer, TypeSubscribe, TypeLoop DEF Next
<1>2. CASE UNCHANGED vars
  BY <1>2 DEF TypeOK, vars, adapter, server, goroutine, history
<1>3. QED
  BY <1>1, <1>2

\* The state has its types, a goroutine runs exactly for the active
\* subscriptions and has an event in its hand exactly while it works on one
\* (rabbitmq.go, Subscribe).
THEOREM TypeCorrect == Spec => []TypeOK
BY TypeInit, TypeStep, PTL DEF Spec
-----------------------------------------------------------------------------
(***************************************************************************)
(* The inductive invariant.                                                *)
(***************************************************************************)

\* The invariant holds initially.
LEMMA InvInit == Init => IInv
<1> SUFFICES ASSUME Init, NEW s \in Subs PROVE SubInv(s)
  BY TypeInit DEF IInv
<1>1. /\ queue[s] = {} /\ inbox[s] = {} /\ offered[s] = {} /\ handled[s] = {}
      /\ settled[s] = {} /\ buffer[s] = <<>> /\ hand[s] = 0 /\ loop[s] = "none"
  BY DEF Init
<1>2. DOMAIN buffer[s] = {} /\ ToSet(buffer[s]) = {}
  BY <1>1 DEF ToSet
<1>3. QED
  BY <1>1, <1>2 DEF SubInv, Placed, Progress, NoGap, Kept, InOrder, Waiting

\* A subscription whose part of the state stays as it is keeps its invariant;
\* so does one that loses deliveries, or its queue, with the channel.
LEMMA Loses ==
    ASSUME NEW s \in Subs, SubInv(s),
           hand'[s] = hand[s], loop'[s] = loop[s] \/ (hand[s] = 0 /\ loop'[s] = "receive"),
           arrived' = arrived, inbox'[s] = inbox[s], offered'[s] = offered[s],
           handled'[s] = handled[s], settled'[s] = settled[s],
           queue'[s] \subseteq queue[s],
           buffer'[s] = buffer[s] \/ buffer'[s] = <<>>,
           \/ channel' = "closed"
           \/ (channel' = channel /\ queue'[s] = queue[s] /\ buffer'[s] = buffer[s])
    PROVE  SubInv(s)'
<1>1. ToSet(buffer'[s]) = ToSet(buffer[s]) \/ ToSet(buffer'[s]) = {}
  BY DEF ToSet
<1>2. Waiting(s)' \subseteq Waiting(s)
  BY <1>1 DEF Waiting
<1>3. Placed(s)'
  BY <1>1, <1>2 DEF SubInv, Placed, Waiting
<1>4. Progress(s)'
  BY <1>2 DEF SubInv, Progress
<1>5. NoGap(s)'
  BY DEF SubInv, NoGap
<1>6. Kept(s)'
  BY DEF SubInv, Kept, Waiting
<1>7. InOrder(s)'
  BY DEF SubInv, InOrder
<1>8. QED
  BY <1>3, <1>4, <1>5, <1>6, <1>7 DEF SubInv

\* The end of the channel, however it comes, keeps the invariant.
LEMMA InvCloses ==
    ASSUME TypeOK, NEW s \in Subs, SubInv(s), ChannelCloses,
           UNCHANGED <<arrived, buffer, goroutine, inbox, history>>
    PROVE  SubInv(s)'
<1>1. channel' = "closed" /\ queue'[s] \subseteq queue[s]
  BY DEF ChannelCloses, TypeOK
<1>2. /\ hand'[s] = hand[s] /\ loop'[s] = loop[s] /\ arrived' = arrived
      /\ inbox'[s] = inbox[s] /\ offered'[s] = offered[s] /\ handled'[s] = handled[s]
      /\ settled'[s] = settled[s] /\ buffer'[s] = buffer[s]
  BY DEF goroutine, history
<1>3. QED
  BY <1>1, <1>2, Loses

\* An event the exchange gets is newer than all others.
LEMMA InvArrives ==
    ASSUME TypeOK, NEW s \in Subs, SubInv(s), EventArrives
    PROVE  SubInv(s)'
<1>1. PICK n \in Nat : n = arrived /\ arrived' = n + 1
  BY LastEventIsNat DEF TypeOK, EventArrives
<1>2. PICK new \in {{}, {n + 1}} :
        queue'[s] = queue[s] \cup new /\ inbox'[s] = inbox[s] \cup new
  BY <1>1 DEF TypeOK, EventArrives
<1>3. /\ buffer'[s] = buffer[s] /\ hand'[s] = hand[s] /\ loop'[s] = loop[s]
      /\ offered'[s] = offered[s] /\ handled'[s] = handled[s] /\ settled'[s] = settled[s]
      /\ channel' = channel
  BY DEF EventArrives, adapter, goroutine, history
<1>4. n + 1 \notin inbox[s] /\ inbox[s] \subseteq 1..n /\ inbox'[s] \subseteq 1..(n + 1)
  BY <1>1, <1>2 DEF SubInv, Placed
<1>5. n + 1 \notin Waiting(s) /\ n + 1 # hand[s] /\ n + 1 \notin offered[s]
  BY <1>4 DEF SubInv, Placed
<1>6. Waiting(s)' = Waiting(s) \cup new
  BY <1>2, <1>3 DEF Waiting
<1>7. Placed(s)'
  BY <1>1, <1>2, <1>3, <1>4, <1>5, <1>6 DEF SubInv, Placed, Waiting
<1>8. Progress(s)'
  BY <1>2, <1>3, <1>5, <1>6 DEF SubInv, Progress
<1>9. NoGap(s)'
  <2> SUFFICES ASSUME NEW i \in DOMAIN buffer[s],
                      NEW d \in inbox'[s] \ (Malformed \cup offered[s]), d < buffer[s][i]
               PROVE  \E j \in 1..(i - 1) : buffer[s][j] = d
    BY <1>3 DEF NoGap
  <2>1. buffer[s][i] \in 1..n
    BY <1>4 DEF SubInv, Placed, Waiting, ToSet
  <2>2. d \in inbox[s]
    BY <1>2, <2>1
  <2>3. QED
    BY <2>2 DEF SubInv, NoGap
<1>10. Kept(s)'
  BY <1>2, <1>3, <1>6 DEF SubInv, Kept
<1>11. InOrder(s)'
  <2>1. offered[s] \subseteq 1..n
    BY <1>4 DEF SubInv, Placed
  <2>2. \A e \in offered[s], d \in new : ~(d < e)
    BY <2>1
  <2>3. QED
    BY <1>2, <1>3, <2>2 DEF SubInv, InOrder
<1>12. QED
  BY <1>7, <1>8, <1>9, <1>10, <1>11 DEF SubInv

\* What is delivered joins the buffer in order and leaves the queue empty.
LEMMA InvDeliver ==
    ASSUME TypeOK, NEW s \in Subs, SubInv(s), Deliver(s)
    PROVE  SubInv(s)'
<1> PICK q \in SUBSET Events : q = queue[s]
  BY DEF TypeOK
<1> PICK b \in Seq(Events) : b = buffer[s]
  BY DEF TypeOK
<1>1. PICK sent \in SetToSeqs(q) :
        /\ \A i, j \in DOMAIN sent : i < j => sent[i] < sent[j]
        /\ buffer' = [buffer EXCEPT ![s] = b \o sent]
  BY DEF Deliver
<1>2. /\ buffer'[s] = b \o sent /\ queue'[s] = {} /\ channel' = channel /\ channel = "open"
      /\ hand'[s] = hand[s] /\ loop'[s] = loop[s] /\ arrived' = arrived
      /\ inbox'[s] = inbox[s] /\ offered'[s] = offered[s] /\ handled'[s] = handled[s]
      /\ settled'[s] = settled[s]
  BY <1>1 DEF Deliver, TypeOK, adapter, goroutine, history
<1>3. /\ sent \in Seq(q) /\ sent \in Seq(Events) /\ ToSet(sent) = q
      /\ \A i, j \in DOMAIN sent : sent[i] = sent[j] => i = j
  BY WholeQueue, SeqMonotonic
<1> PICK m \in Nat : m = Len(b)
  OBVIOUS
<1> PICK n \in Nat : n = Len(sent)
  BY <1>3
<1> DEFINE c == b \o sent
<1>4. /\ DOMAIN b = 1..m /\ DOMAIN sent = 1..n /\ DOMAIN c = 1..(m + n)
      /\ \A i \in 1..m : c[i] = b[i] /\ b[i] \in ToSet(b)
      /\ \A i \in 1..n : c[m + i] = sent[i] /\ sent[i] \in q
      /\ ToSet(c) = ToSet(b) \cup q
  <2>1. /\ DOMAIN b = 1..m /\ DOMAIN sent = 1..n /\ DOMAIN c = 1..(m + n)
        /\ \A i \in DOMAIN b : c[i] = b[i]
        /\ \A i \in DOMAIN sent : c[m + i] = sent[i]
        /\ ToSet(c) = ToSet(b) \cup ToSet(sent)
    BY <1>3, Appended
  <2> HIDE DEF c
  <2>2. /\ \A i \in DOMAIN b : b[i] \in ToSet(b)
        /\ \A i \in DOMAIN sent : sent[i] \in ToSet(sent)
    BY DEF ToSet
  <2>3. QED
    BY <1>3, <2>1, <2>2
<1> HIDE DEF c
<1>5. \A i \in 1..(m + n) : i \in 1..m \/ (i - m \in 1..n /\ c[i] = sent[i - m])
  <2> SUFFICES ASSUME NEW i \in 1..(m + n), i \notin 1..m
               PROVE  i - m \in 1..n /\ c[i] = sent[i - m]
    OBVIOUS
  <2>1. i - m \in 1..n /\ m + (i - m) = i
    OBVIOUS
  <2>2. QED
    BY <1>4, <2>1
<1>6. Waiting(s)' = Waiting(s)
  BY <1>2, <1>4 DEF Waiting, c
<1>7. \A i, j \in 1..(m + n) : c[i] = c[j] => i = j
  <2> SUFFICES ASSUME NEW i \in 1..(m + n), NEW j \in 1..(m + n), c[i] = c[j]
               PROVE  i = j
    OBVIOUS
  <2>1. CASE i \in 1..m /\ j \in 1..m
    BY <1>4, <2>1 DEF SubInv, Placed
  <2>2. CASE i \in 1..m /\ j \notin 1..m
    BY <1>4, <1>5, <2>2 DEF SubInv, Placed
  <2>3. CASE i \notin 1..m /\ j \in 1..m
    BY <1>4, <1>5, <2>3 DEF SubInv, Placed
  <2>4. CASE i \notin 1..m /\ j \notin 1..m
    <3>1. sent[i - m] = sent[j - m] /\ i - m \in DOMAIN sent /\ j - m \in DOMAIN sent
      BY <1>4, <1>5, <2>4
    <3>2. i - m = j - m
      BY <1>3, <3>1
    <3>3. QED
      BY <3>2
  <2>5. QED
    BY <2>1, <2>2, <2>3, <2>4
<1>8. Placed(s)'
  BY <1>2, <1>4, <1>6, <1>7 DEF SubInv, Placed, c
<1>9. Progress(s)'
  BY <1>2, <1>6 DEF SubInv, Progress
<1>10. NoGap(s)'
  <2> SUFFICES ASSUME NEW i \in 1..(m + n),
                      NEW d \in inbox[s] \ (Malformed \cup offered[s]), d < c[i]
               PROVE  \E j \in 1..(i - 1) : c[j] = d
    <3>1. buffer'[s] = c /\ DOMAIN c = 1..(m + n)
      BY <1>2, <1>4 DEF c
    <3>2. QED
      BY <1>2, <3>1 DEF NoGap
  <2>1. CASE i \in 1..m
    <3>1. PICK j \in 1..(i - 1) : b[j] = d
      BY <1>4, <2>1 DEF SubInv, NoGap
    <3>2. j \in 1..m
      BY <2>1
    <3>3. QED
      BY <1>4, <3>1, <3>2
  <2>2. CASE i \notin 1..m
    <3>1. PICK k \in 1..n : i = m + k /\ c[i] = sent[k]
      <4>1. i - m \in 1..n /\ i = m + (i - m) /\ c[i] = sent[i - m]
        BY <1>5, <2>2
      <4>2. QED
        BY <4>1
    <3>2. d \in q \cup ToSet(b)
      <4>1. hand[s] = 0 \/ hand[s] \in offered[s] \cup Malformed
        BY DEF SubInv, Progress, TypeOK, LoopPcs
      <4>2. d # 0
        BY DEF SubInv, Placed
      <4>3. settled[s] \subseteq offered[s] \cup Malformed
        BY DEF SubInv, Kept, Progress
      <4>4. QED
        BY <1>2, <4>1, <4>2, <4>3 DEF SubInv, Kept, Waiting
    <3>3. CASE d \in q
      <4>1. PICK j \in 1..n : sent[j] = d
        BY <1>3, <1>4, <3>3 DEF ToSet
      <4>2. sent[j] \in Int /\ sent[k] \in Int
        BY <1>4, LastEventIsNat DEF Events
      <4>3. sent[j] < sent[k]
        BY <3>1, <4>1
      <4>4. ~(k < j) /\ k # j
        <5>1. k < j => sent[k] < sent[j]
          BY <1>1, <1>4
        <5>2. QED
          BY <4>2, <4>3, <5>1
      <4>5. m + j \in 1..(i - 1)
        BY <3>1, <4>4
      <4>6. QED
        BY <1>4, <4>1, <4>5
    <3>4. CASE d \in ToSet(b)
      <4>1. PICK j \in 1..m : b[j] = d
        BY <1>4, <3>4 DEF ToSet
      <4>2. j \in 1..(i - 1)
        BY <3>1
      <4>3. QED
        BY <1>4, <4>1, <4>2
    <3>5. QED
      BY <3>2, <3>3, <3>4
  <2>3. QED
    BY <2>1, <2>2
<1>11. Kept(s)'
  BY <1>2, <1>6 DEF SubInv, Kept
<1>12. InOrder(s)'
  BY <1>2 DEF SubInv, InOrder
<1>13. QED
  BY <1>8, <1>9, <1>10, <1>11, <1>12 DEF SubInv

\* The event the range loop gets is in the hand and nowhere else, and if it is
\* new no older one is.
LEMMA InvReceive ==
    ASSUME TypeOK, NEW s \in Subs, SubInv(s), Receive(s)
    PROVE  SubInv(s)'
<1> PICK b \in Seq(Events) : b = buffer[s] /\ b # <<>>
  BY DEF TypeOK, Receive
<1> DEFINE r == RemoveAt(b, 1)
<1> PICK n \in Nat : n = Len(b)
  OBVIOUS
<1>1. /\ r \in Seq(Events) /\ b[1] \in Events /\ 1 \in DOMAIN b /\ DOMAIN r = 1..(n - 1)
      /\ \A i \in 1..(n - 1) : i + 1 \in DOMAIN b /\ r[i] = b[i + 1]
      /\ ToSet(b) = {b[1]} \cup ToSet(r)
  BY FirstRemoved
<1> HIDE DEF r
<1> PICK e \in Events : e = b[1]
  BY <1>1
<1>2. /\ hand' = [hand EXCEPT ![s] = e]
      /\ loop' = [loop EXCEPT ![s] = AfterParse(e)]
      /\ offered' = [offered EXCEPT ![s] = @ \cup ({e} \ Malformed)]
      /\ buffer' = [buffer EXCEPT ![s] = r]
  BY DEF Receive, OnOffer, r
<1>3. /\ hand'[s] = e /\ offered'[s] = offered[s] \cup ({e} \ Malformed) /\ buffer'[s] = r
      /\ loop'[s] = IF e \in Malformed THEN "drop" ELSE "handle"
  BY <1>2 DEF TypeOK, AfterParse
<1>4. /\ queue'[s] = queue[s] /\ inbox'[s] = inbox[s] /\ handled'[s] = handled[s]
      /\ settled'[s] = settled[s] /\ channel' = channel /\ arrived' = arrived
  BY DEF Receive, adapter, server
<1>5. hand[s] = 0
  BY DEF Receive, TypeOK
<1>6. Waiting(s) = {e} \cup Waiting(s)' /\ e \in inbox[s] /\ e \notin handled[s]
  BY <1>1, <1>3, <1>4 DEF Waiting, SubInv, Placed, Progress
<1>7. e \notin Waiting(s)'
  <2>1. e \notin queue[s]
    BY <1>1 DEF SubInv, Placed
  <2>2. \A i \in 1..(n - 1) : r[i] # e
    <3>1. \A i \in 1..(n - 1) : i + 1 # 1
      OBVIOUS
    <3>2. \A i \in 1..(n - 1) : b[i + 1] # b[1]
      BY <1>1, <3>1 DEF SubInv, Placed
    <3>3. QED
      BY <1>1, <3>2
  <2>3. e \notin ToSet(r)
    BY <1>1, <2>2 DEF ToSet
  <2>4. QED
    BY <1>3, <1>4, <2>1, <2>3 DEF Waiting
<1>8. \A i, j \in DOMAIN r : r[i] = r[j] => i = j
  <2> SUFFICES ASSUME NEW i \in 1..(n - 1), NEW j \in 1..(n - 1), r[i] = r[j]
               PROVE  i = j
    BY <1>1
  <2>1. i + 1 = j + 1
    BY <1>1 DEF SubInv, Placed
  <2>2. QED
    BY <2>1
<1>9. Placed(s)'
  <2>1. ToSet(r) \subseteq ToSet(b)
    BY <1>1
  <2>2. offered'[s] \subseteq inbox'[s]
    BY <1>3, <1>4, <1>6 DEF SubInv, Placed
  <2>3. queue'[s] \cap ToSet(buffer'[s]) = {}
    BY <1>3, <1>4, <2>1 DEF SubInv, Placed
  <2>4. hand'[s] \notin Waiting(s)' /\ Waiting(s)' \cup ({hand'[s]} \ {0}) \subseteq inbox'[s]
    BY <1>3, <1>4, <1>6, <1>7 DEF SubInv, Placed
  <2>5. QED
    BY <1>3, <1>4, <1>8, <2>2, <2>3, <2>4 DEF SubInv, Placed
<1>10. Progress(s)'
  BY <1>3, <1>4, <1>6 DEF SubInv, Progress
<1>11. NoGap(s)'
  <2> SUFFICES ASSUME NEW i \in 1..(n - 1),
                      NEW d \in inbox[s] \ (Malformed \cup offered'[s]), d < r[i]
               PROVE  \E j \in 1..(i - 1) : r[j] = d
    <3>1. buffer'[s] = r /\ DOMAIN r = 1..(n - 1) /\ inbox'[s] = inbox[s]
      BY <1>1, <1>3, <1>4
    <3>2. QED
      BY <3>1 DEF NoGap
  <2>1. PICK j \in 1..(i + 1 - 1) : b[j] = d
    <3>1. i + 1 \in DOMAIN b /\ d < b[i + 1] /\ d \in inbox[s] \ (Malformed \cup offered[s])
      BY <1>1, <1>3
    <3>2. QED
      BY <3>1 DEF SubInv, NoGap
  <2>2. d # e
    BY <1>3
  <2>3. j # 1
    BY <2>1, <2>2
  <2>4. j - 1 \in 1..(i - 1) /\ j - 1 \in 1..(n - 1) /\ (j - 1) + 1 = j
    BY <2>3
  <2>5. r[j - 1] = d
    BY <1>1, <2>1, <2>4
  <2>6. QED
    BY <2>4, <2>5
<1>12. Kept(s)'
  BY <1>3, <1>4, <1>5, <1>6 DEF SubInv, Kept, Placed
<1>13. InOrder(s)'
  <2>1. \A d \in inbox[s] \ (Malformed \cup offered[s]) : ~(d < e)
    <3> SUFFICES ASSUME NEW d \in inbox[s] \ (Malformed \cup offered[s]), d < e
                 PROVE  FALSE
      OBVIOUS
    <3>1. \E j \in 1..(1 - 1) : b[j] = d
      BY <1>1 DEF SubInv, NoGap
    <3>2. QED
      BY <3>1
  <2>2. QED
    BY <1>3, <1>4, <2>1 DEF SubInv, InOrder
<1>14. QED
  BY <1>9, <1>10, <1>11, <1>12, <1>13 DEF SubInv

\* What the handler does with the event in the hand.
LEMMA InvHandler ==
    ASSUME TypeOK, NEW s \in Subs, SubInv(s), HandlerFails(s) \/ HandlerReturns(s)
    PROVE  SubInv(s)'
<1> PICK e \in Events : e = hand[s]
  BY DEF TypeOK, HandlerFails, HandlerReturns
<1>1. /\ loop[s] = "handle" /\ hand'[s] = e /\ queue'[s] = queue[s] /\ buffer'[s] = buffer[s]
      /\ inbox'[s] = inbox[s] /\ offered'[s] = offered[s] /\ settled'[s] = settled[s]
      /\ channel' = channel /\ arrived' = arrived
  BY DEF HandlerFails, HandlerReturns, adapter, server, history
<1>2. \/ handled'[s] = handled[s] /\ loop'[s] = "requeue"
      \/ handled'[s] = handled[s] \cup {e} /\ loop'[s] = "ack"
  BY DEF HandlerFails, HandlerReturns, AfterError, history, TypeOK
<1>3. Waiting(s)' = Waiting(s)
  BY <1>1 DEF Waiting
<1>4. Placed(s)'
  BY <1>1, <1>3 DEF SubInv, Placed
<1>5. Progress(s)'
  BY <1>1, <1>2, <1>3 DEF SubInv, Placed, Progress
<1>6. NoGap(s)'
  BY <1>1 DEF SubInv, NoGap
<1>7. Kept(s)'
  BY <1>1, <1>2, <1>3 DEF SubInv, Kept
<1>8. InOrder(s)'
  BY <1>1 DEF SubInv, InOrder
<1>9. QED
  BY <1>4, <1>5, <1>6, <1>7, <1>8 DEF SubInv

\* What is settled on an open channel is acknowledged or back in the queue.
LEMMA InvSettle ==
    ASSUME TypeOK, NEW s \in Subs, SubInv(s), Settle(s)
    PROVE  SubInv(s)'
<1> PICK e \in Events : e = hand[s] /\ e # 0
  BY DEF TypeOK, Settle, Events
<1>1. /\ loop'[s] = "receive" /\ hand'[s] = 0 /\ buffer'[s] = buffer[s]
      /\ inbox'[s] = inbox[s] /\ offered'[s] = offered[s] /\ handled'[s] = handled[s]
      /\ channel' = channel /\ arrived' = arrived
  BY DEF Settle, TypeOK, adapter
<1>2. PICK back, gone \in {{}, {e}} :
        /\ queue'[s] = queue[s] \cup back /\ settled'[s] = settled[s] \cup gone
        /\ back = {e} <=> channel = "open" /\ loop[s] = "requeue"
        /\ gone = {e} <=> channel = "open" /\ loop[s] # "requeue"
  BY DEF Settle, TypeOK
<1>3. Waiting(s)' = Waiting(s) \cup back
  BY <1>1, <1>2 DEF Waiting
<1>4. 0 \notin Waiting(s)' /\ e \in inbox[s] /\ e \notin Waiting(s)
  BY <1>2, <1>3 DEF SubInv, Placed
<1>5. Placed(s)'
  <2>1. queue'[s] \cap ToSet(buffer'[s]) = {}
    BY <1>1, <1>2, <1>4 DEF SubInv, Placed, Waiting
  <2>2. QED
    BY <1>1, <1>2, <1>3, <1>4, <2>1 DEF SubInv, Placed
<1>6. Progress(s)'
  <2>1. back = {} \/ e \notin handled[s]
    BY <1>2 DEF SubInv, Progress
  <2>2. QED
    BY <1>1, <1>2, <1>3, <2>1 DEF SubInv, Progress
<1>7. NoGap(s)'
  BY <1>1 DEF SubInv, NoGap
<1>8. Kept(s)'
  <2>1. gone \subseteq handled[s] \cup Malformed
    BY <1>2 DEF SubInv, Progress, Settle
  <2>2. channel = "open" => e \in back \cup gone
    BY <1>2
  <2>3. QED
    BY <1>1, <1>2, <1>3, <2>1, <2>2 DEF SubInv, Kept
<1>9. InOrder(s)'
  BY <1>1 DEF SubInv, InOrder
<1>10. QED
  BY <1>5, <1>6, <1>7, <1>8, <1>9 DEF SubInv

\* Every step keeps the invariant.
LEMMA InvNext == IInv /\ [Next]_vars => IInv'
<1> SUFFICES ASSUME IInv, [Next]_vars, NEW s \in Subs PROVE SubInv(s)'
  <2>1. TypeOK /\ [Next]_vars => TypeOK'
    BY TypeStep
  <2>2. QED
    BY <2>1 DEF IInv
<1>0. TypeOK /\ SubInv(s)
  BY DEF IInv
<1> USE DEF adapter, server, goroutine, history
<1>1. ASSUME /\ UNCHANGED <<channel, arrived, inbox>>
             /\ queue'[s] = queue[s] /\ buffer'[s] = buffer[s] /\ hand'[s] = hand[s]
             /\ offered'[s] = offered[s] /\ handled'[s] = handled[s]
             /\ settled'[s] = settled[s]
             /\ loop'[s] = loop[s] \/ (hand[s] = 0 /\ loop'[s] = "receive")
      PROVE  SubInv(s)'
  <2>1. inbox'[s] = inbox[s]
    BY <1>1
  <2>2. QED
    BY <1>0, <1>1, <2>1, Loses
<1>2. CASE ChannelLost \/ Disconnect
  <2>1. ChannelCloses /\ UNCHANGED <<arrived, buffer, goroutine, inbox, history>>
    BY <1>2 DEF ChannelLost, Disconnect
  <2>2. QED
    BY <1>0, <2>1, InvCloses
<1>3. CASE EventArrives
  BY <1>0, <1>3, InvArrives
<1>4. ASSUME NEW r \in Subs, Deliver(r)
      PROVE  SubInv(s)'
  <2>1. CASE r = s
    BY <1>0, <1>4, <2>1, InvDeliver
  <2>2. CASE r # s
    BY <1>0, <1>1, <1>4, <2>2 DEF Deliver, TypeOK
  <2>3. QED
    BY <2>1, <2>2
<1>5. ASSUME NEW r \in Subs, DropBuffer(r)
      PROVE  SubInv(s)'
  <2>1. /\ buffer'[s] = buffer[s] \/ buffer'[s] = <<>>
        /\ channel' = "closed" /\ queue'[s] = queue[s]
    BY <1>0, <1>5 DEF DropBuffer, TypeOK
  <2>2. /\ hand'[s] = hand[s] /\ loop'[s] = loop[s] /\ arrived' = arrived
        /\ inbox'[s] = inbox[s] /\ offered'[s] = offered[s] /\ handled'[s] = handled[s]
        /\ settled'[s] = settled[s]
    BY <1>5 DEF DropBuffer
  <2>3. QED
    BY <1>0, <2>1, <2>2, Loses
<1>6. ASSUME NEW r \in Subs, SubscribeFails(r)
      PROVE  SubInv(s)'
  <2>1. ChannelCloses /\ UNCHANGED <<arrived, buffer, goroutine, inbox, history>>
    BY <1>6 DEF SubscribeFails
  <2>2. QED
    BY <1>0, <2>1, InvCloses
<1>7. ASSUME NEW r \in Subs,
             \/ SubscribeCheck(r) \/ SubscribeDeclare(r) \/ SubscribeBind(r)
             \/ SubscribeConsume(r)
      PROVE  SubInv(s)'
  <2>1. CASE SubscribeConsume(r)
    <3>1. r = s => hand[s] = 0
      BY <1>0, <2>1 DEF SubscribeConsume, TypeOK
    <3>2. loop'[s] = loop[s] \/ (hand[s] = 0 /\ loop'[s] = "receive")
      BY <1>0, <2>1, <3>1 DEF SubscribeConsume, TypeOK
    <3>3. QED
      BY <1>1, <2>1, <3>2 DEF SubscribeConsume
  <2>2. CASE SubscribeCheck(r) \/ SubscribeDeclare(r) \/ SubscribeBind(r)
    BY <1>1, <2>2 DEF SubscribeCheck, SubscribeDeclare, SubscribeBind
  <2>3. QED
    BY <1>7, <2>1, <2>2
<1>8. ASSUME NEW r \in Subs, LoopStep(r)
      PROVE  SubInv(s)'
  <2>1. CASE r = s
    <3>1. CASE LoopEnds(s)
      <4>1. hand[s] = 0 /\ loop[s] = "receive" /\ loop'[s] = "done"
        BY <1>0, <3>1 DEF LoopEnds, TypeOK
      <4>2. /\ UNCHANGED <<channel, arrived, queue, buffer, hand, inbox, offered, handled,
                           settled>>
            /\ Waiting(s)' = Waiting(s)
        BY <3>1 DEF LoopEnds, Waiting
      <4>3. QED
        BY <1>0, <4>1, <4>2 DEF SubInv, Placed, Progress, NoGap, Kept, InOrder
    <3>2. QED
      BY <1>0, <1>8, <2>1, <3>1, InvReceive, InvHandler, InvSettle DEF LoopStep
  <2>2. CASE r # s
    <3>1. CASE Receive(r)
      BY <1>0, <1>1, <2>2, <3>1 DEF Receive, TypeOK
    <3>2. CASE LoopEnds(r)
      BY <1>0, <1>1, <2>2, <3>2 DEF LoopEnds, TypeOK
    <3>3. CASE HandlerFails(r) \/ HandlerReturns(r)
      BY <1>0, <1>1, <2>2, <3>3 DEF HandlerFails, HandlerReturns, TypeOK
    <3>4. CASE Settle(r)
      BY <1>0, <1>1, <2>2, <3>4 DEF Settle, TypeOK
    <3>5. QED
      BY <1>8, <3>1, <3>2, <3>3, <3>4 DEF LoopStep
  <2>3. QED
    BY <2>1, <2>2
<1>9. CASE UNCHANGED vars
  BY <1>1, <1>9 DEF vars
<1>10. QED
  BY <1>2, <1>3, <1>4, <1>5, <1>6, <1>7, <1>8, <1>9 DEF Next, SubscribeStep

\* The inductive invariant, for every value of the constants.
THEOREM InvariantCorrect == Spec => []IInv
BY InvInit, InvNext, PTL DEF Spec

\* No event disappears while the channel lives, and only what the handler has
\* accepted or nobody can parse is settled (rabbitmq.go, the three ways out of
\* the loop of Subscribe).
THEOREM NothingVanishesCorrect == Spec => []NothingVanishes
<1>1. IInv => NothingVanishes
  BY DEF IInv, SubInv, Kept, Waiting, NothingVanishes
<1>2. QED
  BY <1>1, InvariantCorrect, PTL

\* The handler is never called again for an event it has accepted, although its
\* Ack may fail (rabbitmq.go, QueueDeclare and Ack).
THEOREM HandledAtMostOnceCorrect == Spec => []HandledAtMostOnce
<1>1. IInv => HandledAtMostOnce
  BY DEF IInv, SubInv, Progress, HandledAtMostOnce
<1>2. QED
  BY <1>1, InvariantCorrect, PTL

\* The handler sees new events in the order of their publication, whatever is
\* requeued in between (rabbitmq.go, one goroutine per queue).
THEOREM OfferedInOrderCorrect == Spec => []OfferedInOrder
<1>1. IInv => OfferedInOrder
  BY DEF IInv, SubInv, InOrder, OfferedInOrder
<1>2. QED
  BY <1>1, InvariantCorrect, PTL
=============================================================================
