------------------------ MODULE KafkaConsumerProofs ------------------------
(***************************************************************************)
(* Proofs, for any number of events, subscriptions, restarts and           *)
(* rebalances, that every variable keeps its type, that the offset of the  *)
(* consumer group passes no event but the ones a goroutine had, and that   *)
(* one assignment of the partition gives no event to a handler twice.      *)
(***************************************************************************)
EXTENDS KafkaConsumer, FiniteSetTheorems, TLAPS
-----------------------------------------------------------------------------
\* What a buffer holds, and that it holds it in the partition's order.
Elements(b) == {b[i] : i \in 1..Len(b)}

Rising(b) == \A i, j \in 1..Len(b) : i < j => b[i] < b[j]

Fetched(r) == Elements(buffer[r])

Typed ==
    /\ {connected, cancelled} \subseteq BOOLEAN
    /\ reader \in 0..MaxReaders /\ open \subseteq 1..reader /\ owner \in open \cup {0}
    /\ buffer \in [Readers -> Seq(Events)]
    /\ loop \in [Readers -> {"none", "call", "fetch", "commit", "handle", "done"}]
    /\ using \in [Readers -> 0..reader] /\ hand \in [Readers -> Events \cup {0}]
    /\ arrived \in 0..LastEvent /\ committed \in None..arrived
    /\ position \in 0..arrived /\ marked \in [Readers -> None..arrived]
    /\ restarts \in 0..MaxRestarts /\ rebalances \in 0..MaxRebalances
    /\ first \in 0..arrived /\ due \in [Events -> Int]

\* A goroutine runs after its Subscribe, uses a reader while it reads, and has an
\* event from when it has taken it to when the handler has returned.
Goroutines ==
    \A g \in Readers :
        /\ loop[g] # "none" => g <= reader
        /\ loop[g] \in {"fetch", "commit", "handle"} => using[g] # 0
        /\ hand[g] # 0 <=> loop[g] \in {"commit", "handle"}
        /\ hand[g] <= arrived

\* What is fetched is in order and has arrived; the owner's is not beyond its
\* position.
Buffers ==
    \A r \in Readers :
        /\ Rising(buffer[r])
        /\ \A n \in Fetched(r) : n <= arrived /\ (r = owner => n <= position)

SInv == Typed /\ Goroutines /\ Buffers

\* An event that reached a handler, or that a goroutine has or had, or that
\* nobody can parse.
Accounted == finished \cup Malformed \cup {hand[g] : g \in Readers} \cup cut

\* The events the group has behind it when its offset is n.
AccountedTo(n) == \A e \in first + 1..n : e \in Accounted

\* What is committed, marked or about to be marked is accounted for: a reader has
\* no gap before an event it has fetched.
Marks ==
    /\ AccountedTo(committed)
    /\ \A r \in Readers : AccountedTo(marked[r])
    /\ \A g \in Readers : loop[g] = "commit" => AccountedTo(hand[g])

NoGap ==
    /\ \A r \in Readers : \A n \in Fetched(r) : \A e \in first + 1..n - 1 : e \in Accounted \cup Fetched(r)
    /\ owner # 0 => \A e \in first + 1..position : e \in Accounted \cup Fetched(owner)

CInv == SInv /\ Marks /\ NoGap

\* The readers that have an event fetched, the goroutines that have taken it and
\* have not yet given it to the handler, and whether the owner is still to fetch
\* it: together they are no more than the times it is due.
FetchedBy(e) == {r \in Readers : e \in Fetched(r)}

TakenBy(e) == {g \in Readers : loop[g] = "commit" /\ hand[g] = e}

Ahead(e) == IF owner # 0 /\ position < e THEN 1 ELSE 0

Balance ==
    \A e \in Events : Cardinality(FetchedBy(e)) + Cardinality(TakenBy(e)) + Ahead(e) <= due[e]
-----------------------------------------------------------------------------
\* What is left of a buffer when its first event is taken.
LEMMA Rest ==
    ASSUME NEW b \in Seq(Events), b # <<>>, Rising(b)
    PROVE  /\ Tail(b) \in Seq(Events) /\ Rising(Tail(b))
           /\ Head(b) \in Events /\ Head(b) \in Elements(b)
           /\ Elements(Tail(b)) = Elements(b) \ {Head(b)}
           /\ \A n \in Elements(b) : Head(b) <= n
<1>1. PICK l \in Nat : l = Len(b) /\ l # 0
  OBVIOUS
<1>2. /\ Tail(b) \in Seq(Events) /\ Len(Tail(b)) = l - 1 /\ Head(b) = b[1]
      /\ \A i \in 1..(l - 1) : Tail(b)[i] = b[i + 1]
      /\ \A i \in 1..l : b[i] \in Events
      /\ \A i \in 1..l : b[i] \in Int
  <2>1. \A i \in 1..l : b[i] \in Events
    BY <1>1
  <2>2. \A i \in 1..l : b[i] \in Int
    BY <2>1 DEF Events
  <2>3. QED
    BY <1>1, <2>1, <2>2
<1>3. \A i, j \in 1..l : i < j => b[i] < b[j]
  BY <1>1 DEF Rising
<1>4. Rising(Tail(b))
  <2>1. \A i \in 1..(l - 1) : i + 1 \in 1..l
    OBVIOUS
  <2>2. \A i, j \in 1..(l - 1) : i < j => b[i + 1] < b[j + 1]
    BY <1>3, <2>1
  <2>3. QED
    BY <1>2, <2>2 DEF Rising
<1>5. 1 \in 1..l
  BY <1>1
<1>6. \A i \in 1..l : i = 1 \/ b[1] < b[i]
  BY <1>3, <1>5
<1>7. \A n \in Elements(b) : Head(b) <= n
  BY <1>1, <1>2, <1>5, <1>6 DEF Elements
<1>8. Elements(Tail(b)) = Elements(b) \ {Head(b)}
  <2>1. ASSUME NEW n \in Elements(Tail(b)) PROVE n \in Elements(b) \ {Head(b)}
    <3>1. PICK i \in 1..(l - 1) : n = b[i + 1]
      BY <1>2 DEF Elements
    <3>2. i + 1 \in 1..l /\ i + 1 # 1
      OBVIOUS
    <3>3. b[1] < b[i + 1] /\ b[1] \in Int /\ b[i + 1] \in Int
      BY <1>2, <1>5, <1>6, <3>2
    <3>4. QED
      BY <1>1, <1>2, <3>1, <3>2, <3>3 DEF Elements
  <2>2. ASSUME NEW n \in Elements(b), n # Head(b) PROVE n \in Elements(Tail(b))
    <3>1. PICK i \in 1..l : n = b[i] /\ i # 1
      BY <1>1, <1>2, <2>2 DEF Elements
    <3>2. i - 1 \in 1..(l - 1) /\ (i - 1) + 1 = i
      BY <3>1
    <3>3. Tail(b)[i - 1] = b[i]
      BY <1>2, <3>2
    <3>4. QED
      BY <1>2, <3>1, <3>2, <3>3 DEF Elements
  <2>3. QED
    BY <2>1, <2>2
<1>9. QED
  BY <1>1, <1>2, <1>4, <1>5, <1>7, <1>8 DEF Elements

\* A buffer with one more event behind all it has.
LEMMA Added ==
    ASSUME NEW b \in Seq(Events), Rising(b), NEW n \in Events, \A m \in Elements(b) : m < n
    PROVE  /\ Append(b, n) \in Seq(Events) /\ Rising(Append(b, n))
           /\ Elements(Append(b, n)) = Elements(b) \cup {n}
<1>1. PICK l \in Nat : l = Len(b)
  OBVIOUS
<1>2. /\ Append(b, n) \in Seq(Events) /\ Len(Append(b, n)) = l + 1
      /\ \A i \in 1..(l + 1) : Append(b, n)[i] = IF i <= l THEN b[i] ELSE n
  BY <1>1
<1>3. \A i \in 1..l : b[i] < n /\ b[i] \in Int
  <2>1. \A i \in 1..l : b[i] \in Events /\ b[i] \in Elements(b)
    BY <1>1 DEF Elements
  <2>2. QED
    BY <2>1 DEF Events
<1>4. \A i, j \in 1..l : i < j => b[i] < b[j]
  BY <1>1 DEF Rising
<1>5. \A i, j \in 1..(l + 1) : i < j => Append(b, n)[i] < Append(b, n)[j]
  BY <1>2, <1>3, <1>4
<1>6. Elements(Append(b, n)) = Elements(b) \cup {n}
  <2>1. \A i \in 1..l : i \in 1..(l + 1) /\ Append(b, n)[i] = b[i]
    BY <1>2
  <2>2. l + 1 \in 1..(l + 1) /\ Append(b, n)[l + 1] = n
    BY <1>2
  <2>3. \A i \in 1..(l + 1) : i \in 1..l \/ i = l + 1
    OBVIOUS
  <2>4. QED
    BY <1>1, <1>2, <2>1, <2>2, <2>3 DEF Elements
<1>7. QED
  BY <1>2, <1>5, <1>6 DEF Rising

\* An empty buffer.
LEMMA Emptied == <<>> \in Seq(Events) /\ Rising(<<>>) /\ Elements(<<>>) = {}
BY DEF Rising, Elements
-----------------------------------------------------------------------------
\* The types hold initially.
LEMMA SInvInit == Init => SInv
<1> SUFFICES ASSUME Init PROVE SInv
  OBVIOUS
<1>1. 0 \in 0..LastEvent /\ 0 \in 0..MaxRestarts /\ 0 \in 0..MaxRebalances /\ 0 \in 0..MaxReaders
      /\ None \in None..0 /\ 0 \in 0..0
  BY BoundsAreNat DEF None
<1>2. Typed
  <2>1. /\ buffer \in [Readers -> Seq(Events)]
        /\ loop \in [Readers -> {"none", "call", "fetch", "commit", "handle", "done"}]
        /\ using \in [Readers -> 0..0] /\ hand \in [Readers -> Events \cup {0}]
        /\ marked \in [Readers -> None..0] /\ due \in [Events -> Int]
    BY <1>1, Emptied DEF Init, NoMarks
  <2>2. {connected, cancelled} \subseteq BOOLEAN /\ open \subseteq 1..reader /\ owner \in open \cup {0}
    BY DEF Init
  <2>3. QED
    BY <1>1, <2>1, <2>2 DEF Init, Typed
<1>3. Goroutines
  BY DEF Init, Goroutines
<1>4. Buffers
  BY Emptied DEF Init, Buffers, Fetched
<1>5. QED
  BY <1>2, <1>3, <1>4 DEF SInv

\* Facts about numbers that the steps below share.
LEMMA Numbers ==
    ASSUME Typed
    PROVE  /\ reader \in Nat /\ arrived \in Nat /\ position \in Nat /\ first \in Nat
           /\ committed \in Int /\ None \in Int /\ Events \subseteq Int /\ Readers \subseteq Nat \ {0}
           /\ open \subseteq Readers /\ (owner # 0 => owner \in Readers)
           /\ position <= arrived /\ arrived <= LastEvent /\ LastEvent \in Nat /\ MaxReaders \in Nat
           /\ 0 \notin Readers /\ 0 \notin Events
BY BoundsAreNat DEF Typed, Readers, Events, None

\* The last commits leave offset and marks in their ranges.
LEMMA LastCommitTyped ==
    ASSUME Typed, NEW rs \in SUBSET Readers, LastCommit(rs)
    PROVE  committed' \in None..arrived /\ marked' \in [Readers -> None..arrived]
<1>1. None \in None..arrived
  BY Numbers DEF None
<1>2. QED
  BY <1>1 DEF Typed, LastCommit

\* The cluster and the library keep the types.
LEMMA ClusterTyped ==
    ASSUME SInv,
           \/ EventArrives \/ GenerationEnds \/ Prefetch
           \/ \E r \in Readers : CommitInterval(r) \/ Assign(r) \/ AssignNothing(r)
    PROVE  SInv'
<1> USE DEF process, readers, goroutines, topic, session, bounds, history
<1>1. Typed /\ Goroutines /\ Buffers
  BY DEF SInv
<1>2. CASE EventArrives
  <2>1. arrived' = arrived + 1 /\ arrived' \in 0..LastEvent
        /\ UNCHANGED <<process, readers, goroutines, committed, session, bounds, history>>
    BY <1>1, <1>2, Numbers DEF EventArrives
  <2>2. None..arrived \subseteq None..arrived' /\ 0..arrived \subseteq 0..arrived'
    BY <1>1, <2>1, Numbers
  <2>3. Typed'
    BY <1>1, <2>1, <2>2 DEF Typed
  <2>4. Goroutines'
    BY <1>1, <2>1, Numbers DEF Goroutines, Typed
  <2>5. Buffers'
    <3>1. ASSUME NEW r \in Readers, NEW n \in Fetched(r) PROVE n \in Int
      BY <1>1, <3>1, Numbers DEF Typed, Fetched, Elements
    <3>2. QED
      BY <1>1, <2>1, <3>1, Numbers DEF Buffers, Fetched
  <2>6. QED
    BY <2>3, <2>4, <2>5 DEF SInv
<1>3. CASE GenerationEnds
  <2>1. /\ LastCommit(open) /\ owner' = 0 /\ rebalances' \in 0..MaxRebalances
        /\ UNCHANGED <<process, open, buffer, goroutines, arrived, position, restarts, history>>
    BY <1>1, <1>3, BoundsAreNat DEF GenerationEnds, Typed
  <2>2. Typed'
    BY <1>1, <2>1, LastCommitTyped, Numbers DEF Typed
  <2>3. Goroutines' /\ Buffers'
    BY <1>1, <2>1, Numbers DEF Goroutines, Buffers, Fetched
  <2>4. QED
    BY <2>2, <2>3 DEF SInv
<1>4. CASE Prefetch
  <2>1. /\ owner \in Readers /\ position' = position + 1 /\ position' \in Events /\ position' \in 0..arrived
        /\ buffer' = [buffer EXCEPT ![owner] = Append(@, position + 1)]
        /\ UNCHANGED <<process, open, owner, goroutines, topic, marked, bounds, history>>
    BY <1>1, <1>4, Numbers DEF Prefetch, Events
  <2>2. PICK b \in Seq(Events) : b = buffer[owner]
    BY <1>1, <2>1 DEF Typed
  <2>3. Rising(b) /\ \A m \in Elements(b) : m \in Int /\ m <= position
    <3>1. Elements(b) \subseteq Int
      BY <1>1, Numbers DEF Elements
    <3>2. QED
      BY <1>1, <2>1, <2>2, <3>1 DEF Buffers, Fetched
  <2>4. /\ Append(b, position + 1) \in Seq(Events) /\ Rising(Append(b, position + 1))
        /\ Elements(Append(b, position + 1)) = Elements(b) \cup {position + 1}
    <3>1. \A m \in Elements(b) : m < position + 1
      BY <1>1, <2>3, Numbers
    <3>2. QED
      BY <2>1, <2>3, <3>1, Added
  <2>5. Typed'
    BY <1>1, <2>1, <2>2, <2>4 DEF Typed
  <2>6. Buffers'
    <3>1. ASSUME NEW r \in Readers PROVE Rising(buffer'[r])
      BY <1>1, <2>1, <2>2, <2>4 DEF Buffers, Typed
    <3>2. ASSUME NEW r \in Readers, NEW n \in Elements(buffer'[r])
          PROVE  n <= arrived /\ (r = owner => n <= position + 1)
      <4>1. CASE r = owner
        <5>1. n \in Elements(b) \cup {position + 1}
          BY <1>1, <2>1, <2>2, <2>4, <4>1 DEF Typed
        <5>2. QED
          BY <1>1, <2>1, <2>3, <5>1, Numbers
      <4>2. CASE r # owner
        BY <1>1, <2>1, <3>2, <4>2 DEF Buffers, Typed, Fetched
      <4>3. QED
        BY <4>1, <4>2
    <3>3. QED
      BY <2>1, <3>1, <3>2 DEF Buffers, Fetched
  <2>7. Goroutines'
    BY <1>1, <2>1 DEF Goroutines
  <2>8. QED
    BY <2>5, <2>6, <2>7 DEF SInv
<1>5. ASSUME NEW r \in Readers, CommitInterval(r) PROVE SInv'
  <2>1. /\ committed' = marked[r] /\ marked' = [marked EXCEPT ![r] = None]
        /\ UNCHANGED <<process, readers, goroutines, arrived, position, bounds, history>>
    BY <1>5 DEF CommitInterval
  <2>2. None \in None..arrived
    BY <1>1, Numbers DEF None
  <2>3. Typed'
    BY <1>1, <2>1, <2>2 DEF Typed
  <2>4. Goroutines' /\ Buffers'
    BY <1>1, <2>1 DEF Goroutines, Buffers, Fetched
  <2>5. QED
    BY <2>3, <2>4 DEF SInv
<1>6. ASSUME NEW r \in Readers, Assign(r) PROVE SInv'
  <2>1. /\ r \in open /\ owner' = r /\ buffer' = [buffer EXCEPT ![r] = <<>>]
        /\ position' \in 0..arrived /\ first' \in 0..arrived
        /\ UNCHANGED <<process, open, goroutines, topic, marked, bounds, finished, cut>>
    <3>1. committed # None => committed \in 0..arrived
      BY <1>1 DEF Typed, None
    <3>2. QED
      BY <1>1, <1>6, <3>1, Numbers DEF Assign, Typed
  <2>2. due' \in [Events -> Int]
    BY <1>1, <1>6 DEF Assign, Typed
  <2>3. Typed'
    BY <1>1, <2>1, <2>2, Emptied DEF Typed
  <2>4. Buffers'
    <3>1. \A q \in Readers : buffer'[q] = IF q = r THEN <<>> ELSE buffer[q]
      BY <1>1, <2>1 DEF Typed
    <3>2. QED
      BY <1>1, <2>1, <3>1, Emptied DEF Buffers, Fetched
  <2>5. Goroutines'
    BY <1>1, <2>1 DEF Goroutines
  <2>6. QED
    BY <2>3, <2>4, <2>5 DEF SInv
<1>7. ASSUME NEW r \in Readers, AssignNothing(r) PROVE SInv'
  <2>1. /\ buffer' = [buffer EXCEPT ![r] = <<>>]
        /\ UNCHANGED <<process, open, owner, goroutines, topic, session, bounds, history>>
    BY <1>7 DEF AssignNothing
  <2>2. Typed'
    BY <1>1, <2>1, Emptied DEF Typed
  <2>3. Buffers'
    <3>1. \A q \in Readers : buffer'[q] = IF q = r THEN <<>> ELSE buffer[q]
      BY <1>1, <2>1 DEF Typed
    <3>2. QED
      BY <1>1, <2>1, <3>1, Emptied DEF Buffers, Fetched
  <2>4. Goroutines'
    BY <1>1, <2>1 DEF Goroutines
  <2>5. QED
    BY <2>2, <2>3, <2>4 DEF SInv
<1>8. QED
  BY <1>2, <1>3, <1>4, <1>5, <1>6, <1>7

\* The adapter's operations and a restart keep the types.
LEMMA AdapterTyped ==
    ASSUME SInv, Subscribe \/ Disconnect \/ Cancel \/ Restart
    PROVE  SInv'
<1> USE DEF process, readers, goroutines, topic, session, bounds, history
<1>1. Typed /\ Goroutines /\ Buffers
  BY DEF SInv
<1>2. CASE Subscribe
  <2>1. /\ reader' = reader + 1 /\ reader' \in 0..MaxReaders /\ reader' \in Readers /\ reader \in Nat
        /\ open' = open \cup {reader'} /\ loop' = [loop EXCEPT ![reader'] = "call"]
        /\ UNCHANGED <<connected, cancelled, owner, buffer, using, hand, topic, session, bounds, history>>
    BY <1>1, <1>2, Numbers DEF Subscribe, Readers
  <2>2. open' \subseteq 1..reader' /\ 0..reader \subseteq 0..reader'
    BY <1>1, <2>1 DEF Typed
  <2>3. Typed'
    BY <1>1, <2>1, <2>2 DEF Typed
  <2>4. Goroutines'
    <3>1. ASSUME NEW g \in Readers PROVE (loop[g] # "none" => g <= reader') /\ reader' <= reader'
      BY <1>1, <2>1, <3>1, Numbers DEF Goroutines
    <3>2. hand[reader'] = 0
      <4>1. ~(reader' <= reader)
        BY <2>1
      <4>2. loop[reader'] = "none"
        BY <1>1, <2>1, <4>1 DEF Goroutines
      <4>3. QED
        BY <1>1, <2>1, <4>2 DEF Goroutines
    <3>3. \A g \in Readers : loop'[g] = IF g = reader' THEN "call" ELSE loop[g]
      BY <1>1, <2>1 DEF Typed
    <3>4. QED
      BY <1>1, <2>1, <3>1, <3>2, <3>3 DEF Goroutines
  <2>5. Buffers'
    BY <1>1, <2>1 DEF Buffers, Fetched
  <2>6. QED
    BY <2>3, <2>4, <2>5 DEF SInv
<1>3. CASE Disconnect
  <2>1. /\ connected' = FALSE /\ open' = open \ {reader} /\ owner' = (IF owner = reader THEN 0 ELSE owner)
        /\ LastCommit(open \cap {reader})
        /\ UNCHANGED <<reader, cancelled, buffer, goroutines, arrived, position, bounds, history>>
    BY <1>3 DEF Disconnect
  <2>2. committed' \in None..arrived /\ marked' \in [Readers -> None..arrived]
    BY <1>1, <2>1, LastCommitTyped, Numbers
  <2>3. open' \subseteq 1..reader /\ owner' \in open' \cup {0}
    BY <1>1, <2>1 DEF Typed
  <2>4. Typed'
    BY <1>1, <2>1, <2>2, <2>3 DEF Typed
  <2>5. Goroutines'
    BY <1>1, <2>1 DEF Goroutines
  <2>6. \A r \in Readers : r = owner' => r = owner
    BY <1>1, <2>1, Numbers
  <2>7. Buffers'
    BY <1>1, <2>1, <2>6 DEF Buffers, Fetched
  <2>8. QED
    BY <2>4, <2>5, <2>7 DEF SInv
<1>4. CASE Cancel
  <2>1. cancelled' = TRUE /\ UNCHANGED <<connected, reader, readers, goroutines, topic, session, bounds, history>>
    BY <1>4 DEF Cancel
  <2>2. QED
    BY <1>1, <2>1 DEF SInv, Typed, Goroutines, Buffers, Fetched
<1>5. CASE Restart
  <2>1. /\ connected' = TRUE /\ reader' = 0 /\ cancelled' = FALSE /\ open' = {} /\ owner' = 0
        /\ buffer' = [r \in Readers |-> <<>>] /\ loop' = [g \in Readers |-> "none"]
        /\ using' = [g \in Readers |-> 0] /\ hand' = [g \in Readers |-> 0] /\ marked' = NoMarks
        /\ restarts' \in 0..MaxRestarts
        /\ UNCHANGED <<topic, position, rebalances, first, due>>
    BY <1>1, <1>5, BoundsAreNat DEF Restart, ProcessStarts, Typed
  <2>2. /\ buffer' \in [Readers -> Seq(Events)]
        /\ loop' \in [Readers -> {"none", "call", "fetch", "commit", "handle", "done"}]
        /\ using' \in [Readers -> 0..0] /\ hand' \in [Readers -> Events \cup {0}]
        /\ marked' \in [Readers -> None..arrived] /\ 0 \in 0..MaxReaders
    <3>1. None \in None..arrived
      BY <1>1, Numbers DEF None
    <3>2. QED
      BY <1>1, <2>1, <3>1, Numbers, Emptied DEF NoMarks
  <2>3. Typed'
    BY <1>1, <2>1, <2>2 DEF Typed
  <2>4. Goroutines'
    BY <1>1, <2>1, Numbers DEF Goroutines
  <2>5. Buffers'
    BY <2>1, Emptied DEF Buffers, Fetched
  <2>6. QED
    BY <2>3, <2>4, <2>5 DEF SInv
<1>6. QED
  BY <1>2, <1>3, <1>4, <1>5

\* A goroutine keeps the types.
LEMMA LoopTyped ==
    ASSUME SInv, NEW g \in Readers, LoopStep(g)
    PROVE  SInv'
<1> USE DEF process, readers, goroutines, topic, session, bounds, history
<1>1. Typed /\ Goroutines /\ Buffers
  BY DEF SInv
<1>2. ASSUME loop[g] # "none", UNCHANGED <<process, open, owner, arrived, committed, position, bounds, first>>,
             loop' = [loop EXCEPT ![g] = loop'[g]], using' = [using EXCEPT ![g] = using'[g]],
             hand' = [hand EXCEPT ![g] = hand'[g]],
             loop'[g] \in {"call", "fetch", "commit", "handle", "done"}, using'[g] \in 0..reader,
             hand'[g] \in Events \cup {0},
             loop'[g] \in {"fetch", "commit", "handle"} => using'[g] # 0,
             hand'[g] # 0 <=> loop'[g] \in {"commit", "handle"}, hand'[g] <= arrived,
             buffer' \in [Readers -> Seq(Events)], marked' \in [Readers -> None..arrived],
             due' \in [Events -> Int], Buffers'
      PROVE  SInv'
  <2>1. Typed'
    <3>1. /\ loop' \in [Readers -> {"none", "call", "fetch", "commit", "handle", "done"}]
          /\ using' \in [Readers -> 0..reader] /\ hand' \in [Readers -> Events \cup {0}]
      BY <1>1, <1>2 DEF Typed
    <3>2. QED
      BY <1>1, <1>2, <3>1 DEF Typed
  <2>2. Goroutines'
    <3>1. loop'[g] # "none" => g <= reader
      BY <1>1, <1>2 DEF Goroutines
    <3>2. \A h \in Readers \ {g} : loop'[h] = loop[h] /\ using'[h] = using[h] /\ hand'[h] = hand[h]
      BY <1>1, <1>2 DEF Typed
    <3>3. QED
      BY <1>1, <1>2, <3>1, <3>2 DEF Goroutines
  <2>3. QED
    BY <1>2, <2>1, <2>2 DEF SInv
<1>3. /\ loop[g] = "none" \/ g <= reader
      /\ loop \in [Readers -> {"none", "call", "fetch", "commit", "handle", "done"}]
      /\ using[g] \in 0..reader /\ hand[g] \in Events \cup {0} /\ hand[g] <= arrived /\ 0 \in 0..reader
      /\ 0 <= arrived
      /\ loop[g] \in {"fetch", "commit", "handle"} => using[g] \in Readers
      /\ loop[g] \in {"commit", "handle"} => hand[g] \in Events
  <2>1. 0..MaxReaders = Readers \cup {0} /\ 0..reader \subseteq 0..MaxReaders
    BY <1>1, Numbers DEF Readers, Typed
  <2>2. QED
    BY <1>1, <2>1, Numbers DEF Typed, Goroutines
<1>4. using = [using EXCEPT ![g] = using[g]] /\ hand = [hand EXCEPT ![g] = hand[g]]
  BY <1>1 DEF Typed
<1>5. UNCHANGED <<owner, position, arrived, buffer>> => Buffers'
  BY <1>1 DEF Buffers, Fetched
<1>6. ASSUME NEW place \in {"call", "done"}, EndRound(g, place)
      PROVE  /\ loop' = [loop EXCEPT ![g] = loop'[g]] /\ loop'[g] \in {"call", "done"}
             /\ using' = [using EXCEPT ![g] = using'[g]] /\ using'[g] = 0
             /\ hand' = [hand EXCEPT ![g] = hand'[g]] /\ hand'[g] = 0
  BY <1>1, <1>6 DEF EndRound, Typed
<1>7. CASE CallRead(g)
  <2>1. g <= reader /\ reader \in 0..reader /\ reader # 0
    BY <1>1, <1>3, <1>7, Numbers DEF CallRead
  <2>2. hand[g] = 0
    BY <1>1, <1>7 DEF CallRead, Goroutines
  <2>3. /\ loop[g] # "none" /\ loop' = [loop EXCEPT ![g] = "fetch"] /\ using' = [using EXCEPT ![g] = reader]
        /\ hand' = hand /\ UNCHANGED <<process, readers, topic, session, bounds, history>>
    BY <1>7 DEF CallRead
  <2>4. /\ loop'[g] = "fetch" /\ using'[g] = reader /\ hand'[g] = 0
        /\ hand' = [hand EXCEPT ![g] = hand'[g]]
    BY <1>1, <1>4, <2>2, <2>3 DEF Typed
  <2>5. buffer' \in [Readers -> Seq(Events)] /\ marked' \in [Readers -> None..arrived] /\ due' \in [Events -> Int]
    BY <1>1, <2>3 DEF Typed
  <2>6. QED
    BY <1>2, <1>3, <1>5, <2>1, <2>3, <2>4, <2>5
<1>8. CASE FetchMessage(g)
  <2>1. using[g] \in Readers
    BY <1>1, <1>3, <1>8 DEF FetchMessage
  <2>2. PICK b \in Seq(Events) : b = buffer[using[g]]
    BY <1>1, <2>1 DEF Typed
  <2>3. b # <<>> /\ Rising(b) /\ \A n \in Elements(b) : n <= arrived /\ (using[g] = owner => n <= position)
    BY <1>1, <1>8, <2>1, <2>2 DEF FetchMessage, Buffers, Fetched
  <2>4. /\ Tail(b) \in Seq(Events) /\ Rising(Tail(b)) /\ Head(b) \in Events /\ Head(b) \in Elements(b)
        /\ Elements(Tail(b)) \subseteq Elements(b)
    BY <2>3, Rest
  <2>5. /\ loop[g] # "none" /\ loop' = [loop EXCEPT ![g] = "commit"] /\ using' = using
        /\ hand' = [hand EXCEPT ![g] = Head(b)] /\ buffer' = [buffer EXCEPT ![using[g]] = Tail(b)]
        /\ UNCHANGED <<process, open, owner, topic, session, bounds, history>>
    BY <1>1, <1>8, <2>1, <2>2 DEF FetchMessage, Typed
  <2>6. \A q \in Readers : buffer'[q] = IF q = using[g] THEN Tail(b) ELSE buffer[q]
    BY <1>1, <2>5 DEF Typed
  <2>7. Buffers'
    BY <1>1, <2>3, <2>4, <2>5, <2>6 DEF Buffers, Fetched
  <2>8. buffer' \in [Readers -> Seq(Events)] /\ marked' \in [Readers -> None..arrived] /\ due' \in [Events -> Int]
    BY <1>1, <2>4, <2>5 DEF Typed
  <2>9. Head(b) # 0 /\ Head(b) <= arrived /\ using[g] # 0
    BY <1>1, <2>1, <2>3, <2>4, Numbers
  <2>10. /\ loop'[g] = "commit" /\ hand'[g] = Head(b) /\ using'[g] = using[g]
         /\ using' = [using EXCEPT ![g] = using'[g]]
    BY <1>1, <1>4, <2>5 DEF Typed
  <2>11. QED
    BY <1>2, <1>3, <2>4, <2>5, <2>7, <2>8, <2>9, <2>10
<1>9. CASE FetchFails(g) \/ CommitFails(g) \/ HandlerReturns(g)
  <2>1. PICK place \in {"call", "done"} : EndRound(g, place)
    <3>1. ASSUME NEW err PROVE AfterError(err) \in {"call", "done"}
      BY DEF AfterError
    <3>2. QED
      BY <1>9, <3>1 DEF FetchFails, CommitFails, HandlerReturns
  <2>2. loop[g] # "none" /\ UNCHANGED <<process, readers, topic, session, bounds, first, due>>
    BY <1>9 DEF FetchFails, CommitFails, HandlerReturns
  <2>3. buffer' \in [Readers -> Seq(Events)] /\ marked' \in [Readers -> None..arrived] /\ due' \in [Events -> Int]
    BY <1>1, <2>2 DEF Typed
  <2>4. Buffers'
    BY <1>5, <2>2
  <2>5. QED
    BY <1>2, <1>3, <1>6, <2>1, <2>2, <2>3, <2>4
<1>10. CASE CommitMessages(g)
  <2>1. using[g] \in Readers /\ hand[g] \in Events /\ hand[g] \in None..arrived
    BY <1>1, <1>3, <1>10, Numbers DEF CommitMessages, Events, None
  <2>2. /\ loop[g] # "none" /\ marked' \in [Readers -> None..arrived]
        /\ UNCHANGED <<process, readers, topic, position, bounds, first>>
    BY <1>1, <1>10, <2>1 DEF CommitMessages, Mark, Typed
  <2>3. buffer' \in [Readers -> Seq(Events)] /\ due' \in [Events -> Int]
    BY <1>1, <1>10, <2>2 DEF CommitMessages, Typed
  <2>4. Buffers'
    BY <1>5, <2>2
  <2>5. CASE hand[g] \in Malformed
    <3>1. EndRound(g, "call")
      BY <1>10, <2>5 DEF CommitMessages
    <3>2. QED
      BY <1>2, <1>3, <1>6, <2>2, <2>3, <2>4, <3>1
  <2>6. CASE hand[g] \notin Malformed
    <3>1. /\ loop' = [loop EXCEPT ![g] = "handle"] /\ using' = using /\ hand' = hand
      BY <1>10, <2>6 DEF CommitMessages
    <3>2. /\ loop'[g] = "handle" /\ using'[g] = using[g] /\ hand'[g] = hand[g]
          /\ using' = [using EXCEPT ![g] = using'[g]] /\ hand' = [hand EXCEPT ![g] = hand'[g]]
      BY <1>1, <1>4, <3>1 DEF Typed
    <3>3. hand[g] # 0 /\ using[g] # 0
      BY <1>1, <2>1, Numbers
    <3>4. QED
      BY <1>2, <1>3, <2>1, <2>2, <2>3, <2>4, <3>1, <3>2, <3>3
  <2>7. QED
    BY <2>5, <2>6
<1>11. QED
  BY <1>7, <1>8, <1>9, <1>10 DEF LoopStep

\* Every step keeps the types.
LEMMA SInvStep == SInv /\ [Next]_vars => SInv'
<1>1. SInv /\ UNCHANGED vars => SInv'
  BY DEF vars, process, readers, goroutines, topic, session, bounds, history,
         SInv, Typed, Goroutines, Buffers, Fetched
<1>2. QED
  BY <1>1, ClusterTyped, AdapterTyped, LoopTyped DEF Next

\* What is in order is in it once.
LEMMA RisingIsInjective ==
    ASSUME NEW b \in Seq(Events), Rising(b)
    PROVE  IsInjective(b)
<1>1. PICK l \in Nat : l = Len(b)
  OBVIOUS
<1>2. \A i \in 1..l : b[i] \in Int
  <2>1. \A i \in 1..l : b[i] \in Events
    BY <1>1
  <2>2. QED
    BY <2>1 DEF Events
<1>3. DOMAIN b = 1..l
  BY <1>1
<1>4. \A i, j \in 1..l : b[i] = b[j] => i = j
  BY <1>1, <1>2 DEF Rising
<1>5. QED
  BY <1>3, <1>4 DEF IsInjective

\* Every variable keeps its type, and no buffer holds an event twice (TypeOK):
\* Connect, Subscribe and Disconnect leave a reader, its place and its marks that
\* a later round can use, through restarts and rebalances (kafka.go).
THEOREM TypeCorrect == Spec => []TypeOK
<1>1. SInv => TypeOK
  <2> SUFFICES ASSUME SInv PROVE TypeOK
    OBVIOUS
  <2>1. Typed /\ Buffers
    BY DEF SInv
  <2>2. \A r \in Readers : buffer[r] \in Seq(Events) /\ IsInjective(buffer[r])
    BY <2>1, RisingIsInjective DEF Typed, Buffers
  <2>3. QED
    BY <2>1, <2>2 DEF Typed, TypeOK
<1>2. QED
  BY <1>1, SInvInit, SInvStep, PTL DEF Spec
-----------------------------------------------------------------------------
\* A later start leaves a part of the events up to n.
LEMMA Later ==
    ASSUME NEW a \in Nat, NEW b \in Nat, a <= b, NEW n \in Int
    PROVE  \A e \in b + 1..n : e \in a + 1..n /\ e # 0
OBVIOUS

\* No event is numbered up to None.
LEMMA NothingToNone ==
    ASSUME NEW a \in Nat
    PROVE  \A e \in a + 1..None : FALSE
BY DEF None

\* What the events numbered up to n have in common when nothing about them is
\* forgotten.
LEMMA Kept ==
    ASSUME Typed, first' \in Nat, first <= first', Accounted \subseteq Accounted' \cup {0},
           NEW n \in Int, \A e \in first + 1..n : e \in Accounted
    PROVE  \A e \in first' + 1..n : e \in Accounted'
<1>1. first \in Nat
  BY Numbers
<1>2. \A e \in first' + 1..n : e \in first + 1..n /\ e # 0
  BY <1>1, Later
<1>3. QED
  BY <1>2

\* Offset and marks stay accounted for when they are old ones, or those of events
\* that a goroutine was about to mark.
LEMMA MarksKept ==
    ASSUME SInv, Marks, SInv', first <= first', Accounted \subseteq Accounted' \cup {0},
           committed' \in {committed, None} \cup {marked[r] : r \in Readers},
           \A r \in Readers : \/ marked'[r] \in {marked[r], None}
                              \/ \E g \in Readers : loop[g] = "commit" /\ marked'[r] = hand[g],
           \A g \in Readers : loop'[g] = "commit" =>
              \/ loop[g] = "commit" /\ hand'[g] = hand[g]
              \/ \A e \in first' + 1..hand'[g] : e \in Accounted'
    PROVE  Marks'
<1>1. Typed /\ first' \in Nat /\ None \in Int
  <2>1. Typed /\ Typed'
    BY DEF SInv
  <2>2. first' \in Nat
    BY <2>1, BoundsAreNat DEF Typed
  <2>3. QED
    BY <2>1, <2>2 DEF None
<1>2. /\ committed \in Int /\ \A r \in Readers : marked[r] \in Int /\ hand[r] \in Int
  <2>1. /\ committed \in None..arrived
        /\ \A r \in Readers : marked[r] \in None..arrived /\ hand[r] \in Events \cup {0}
    BY <1>1 DEF Typed
  <2>2. QED
    BY <1>1, <2>1 DEF Events
<1>3. \A e \in first' + 1..None : e \in Accounted'
  <2>1. \A e \in first' + 1..None : FALSE
    BY <1>1, NothingToNone
  <2>2. QED
    BY <2>1
<1>4. \A e \in first' + 1..committed : e \in Accounted'
  BY <1>1, <1>2, Kept DEF Marks, AccountedTo
<1>5. \A r \in Readers : \A e \in first' + 1..marked[r] : e \in Accounted'
  BY <1>1, <1>2, Kept DEF Marks, AccountedTo
<1>6. \A g \in Readers : loop[g] = "commit" => \A e \in first' + 1..hand[g] : e \in Accounted'
  BY <1>1, <1>2, Kept DEF Marks, AccountedTo
<1>7. \A e \in first' + 1..committed' : e \in Accounted'
  BY <1>3, <1>4, <1>5
<1>8. ASSUME NEW r \in Readers PROVE \A e \in first' + 1..marked'[r] : e \in Accounted'
  BY <1>3, <1>5, <1>6
<1>9. ASSUME NEW g \in Readers, loop'[g] = "commit" PROVE \A e \in first' + 1..hand'[g] : e \in Accounted'
  BY <1>6, <1>9
<1>10. QED
  BY <1>7, <1>8, <1>9 DEF Marks, AccountedTo

\* A reader gets no gap when it is emptied, or when what leaves it is accounted for.
LEMMA NoGapKept ==
    ASSUME SInv, NoGap, SInv', first <= first', Accounted \subseteq Accounted' \cup {0},
           \A r \in Readers :
              \/ Elements(buffer'[r]) = {}
              \/ /\ Elements(buffer'[r]) \subseteq Elements(buffer[r])
                 /\ Elements(buffer[r]) \subseteq Elements(buffer'[r]) \cup Accounted',
           owner' # 0 => /\ owner' = owner /\ position' = position
                         /\ Elements(buffer[owner]) \subseteq Elements(buffer'[owner]) \cup Accounted'
    PROVE  NoGap'
<1>1. Typed /\ first \in Nat /\ first' \in Nat /\ position \in Int
  <2>1. Typed /\ Typed'
    BY DEF SInv
  <2>2. first' \in Nat
    BY <2>1, BoundsAreNat DEF Typed
  <2>3. QED
    BY <2>1, <2>2, Numbers
<1>2. ASSUME NEW r \in Readers, NEW n \in Elements(buffer'[r]), NEW e \in first' + 1..n - 1
      PROVE  e \in Accounted' \cup Elements(buffer'[r])
  <2>1. /\ n \in Elements(buffer[r]) /\ Elements(buffer[r]) \subseteq Elements(buffer'[r]) \cup Accounted'
    BY <1>2
  <2>2. n \in Int
    <3>1. buffer[r] \in Seq(Events)
      BY <1>1 DEF Typed
    <3>2. n \in Events
      BY <2>1, <3>1 DEF Elements
    <3>3. QED
      BY <3>2 DEF Events
  <2>3. e \in first + 1..n - 1 /\ e # 0
    <3>1. n - 1 \in Int
      BY <2>2
    <3>2. QED
      BY <1>1, <1>2, <3>1, Later
  <2>4. e \in Accounted \cup Elements(buffer[r])
    BY <2>1, <2>3 DEF NoGap, Fetched
  <2>5. QED
    BY <2>1, <2>3, <2>4
<1>3. ASSUME owner' # 0, NEW e \in first' + 1..position' PROVE e \in Accounted' \cup Elements(buffer'[owner'])
  <2>1. e \in first' + 1..position
    <3>1. position' = position
      BY <1>3
    <3>2. QED
      BY <3>1, Zenon
  <2>2. e \in first + 1..position /\ e # 0
    BY <1>1, <2>1, Later
  <2>3. e \in Accounted \cup Elements(buffer[owner])
    BY <1>3, <2>2 DEF NoGap, Fetched
  <2>4. QED
    BY <1>3, <2>2, <2>3
<1>4. QED
  BY <1>2, <1>3 DEF NoGap, Fetched

\* A goroutine that ends its round leaves its event accounted for.
LEMMA RoundEnds ==
    ASSUME SInv, NEW g \in Readers, NEW place, EndRound(g, place),
           finished \subseteq finished', cut \subseteq cut',
           hand[g] \in finished' \cup Malformed \cup cut' \cup {0}
    PROVE  Accounted \subseteq Accounted' \cup {0}
<1>1. \A h \in Readers \ {g} : hand'[h] = hand[h]
  BY DEF EndRound, SInv, Typed
<1>2. QED
  BY <1>1 DEF Accounted

\* The cluster and the library keep the accounts.
LEMMA ClusterAccounts ==
    ASSUME CInv, SInv',
           \/ EventArrives \/ GenerationEnds \/ Prefetch
           \/ \E r \in Readers : CommitInterval(r) \/ Assign(r) \/ AssignNothing(r)
    PROVE  CInv'
<1> USE DEF process, readers, goroutines, topic, session, bounds, history
<1>1. SInv /\ Marks /\ NoGap /\ Typed /\ Buffers
  BY DEF CInv, SInv
<1>2. first \in Nat /\ position \in Nat /\ first <= first
  BY <1>1, Numbers
<1>3. /\ UNCHANGED <<hand, finished, cut>> => Accounted' = Accounted
      /\ UNCHANGED buffer => \A r \in Readers : Elements(buffer'[r]) = Elements(buffer[r])
      /\ owner # 0 => owner \in Readers
  BY <1>1, Numbers DEF Accounted
<1>4. CASE EventArrives
  <2>1. UNCHANGED <<process, readers, goroutines, committed, session, bounds, history>>
    BY <1>4 DEF EventArrives
  <2>2. QED
    BY <1>1, <1>2, <1>3, <2>1, MarksKept, NoGapKept DEF CInv
<1>5. CASE GenerationEnds
  <2>1. /\ committed' \in {committed, None} \cup {marked[r] : r \in Readers}
        /\ \A r \in Readers : marked'[r] \in {marked[r], None}
        /\ owner' = 0 /\ UNCHANGED <<buffer, goroutines, history>>
    BY <1>1, <1>5, Numbers DEF GenerationEnds, LastCommit
  <2>2. QED
    BY <1>1, <1>2, <1>3, <2>1, MarksKept, NoGapKept DEF CInv
<1>6. ASSUME NEW r \in Readers, CommitInterval(r) PROVE CInv'
  <2>1. /\ committed' = marked[r] /\ \A q \in Readers : marked'[q] \in {marked[q], None}
        /\ UNCHANGED <<readers, goroutines, position, history>>
    BY <1>1, <1>6 DEF CommitInterval, Typed
  <2>2. QED
    BY <1>1, <1>2, <1>3, <2>1, MarksKept, NoGapKept DEF CInv
<1>7. ASSUME NEW r \in Readers, AssignNothing(r) PROVE CInv'
  <2>1. /\ UNCHANGED <<owner, goroutines, topic, session, history>>
        /\ \A q \in Readers : buffer'[q] = IF q = r THEN <<>> ELSE buffer[q]
        /\ r # owner
    BY <1>1, <1>7 DEF AssignNothing, Typed
  <2>2. QED
    BY <1>1, <1>2, <1>3, <2>1, Emptied, MarksKept, NoGapKept DEF CInv
<1>8. ASSUME NEW r \in Readers, Assign(r) PROVE CInv'
  <2>1. /\ owner' = r /\ UNCHANGED <<goroutines, topic, marked, finished, cut>>
        /\ \A q \in Readers : buffer'[q] = IF q = r THEN <<>> ELSE buffer[q]
        /\ committed = None => position' = arrived /\ first' = arrived
        /\ committed # None => position' = committed /\ first' = first
    BY <1>1, <1>8 DEF Assign, Typed
  <2>2. first <= first'
    BY <1>1, <1>2, <2>1 DEF Typed
  <2>3. Accounted' = Accounted
    BY <1>3, <2>1
  <2>4. Marks'
    BY <1>1, <2>1, <2>2, <2>3, MarksKept
  <2>5. NoGap'
    <3>1. ASSUME NEW q \in Readers, NEW n \in Elements(buffer'[q]), NEW e \in first' + 1..n - 1
          PROVE  e \in Accounted' \cup Elements(buffer'[q])
      <4>1. q # r /\ n \in Elements(buffer[q])
        BY <2>1, <3>1, Emptied
      <4>2. n \in Int
        <5>1. buffer[q] \in Seq(Events)
          BY <1>1 DEF Typed
        <5>2. n \in Events
          BY <4>1, <5>1 DEF Elements
        <5>3. QED
          BY <5>2 DEF Events
      <4>3. first' \in Nat
        BY <1>1, <1>2, <2>1, Numbers
      <4>4. e \in first + 1..n - 1
        <5>1. n - 1 \in Int
          BY <4>2
        <5>2. QED
          BY <1>2, <2>2, <3>1, <4>3, <5>1, Later
      <4>5. QED
        BY <1>1, <2>1, <2>3, <4>1, <4>4 DEF NoGap, Fetched
    <3>2. ASSUME NEW e \in first' + 1..position' PROVE e \in Accounted'
      <4>1. CASE committed = None
        BY <1>1, <2>1, <3>2, <4>1, Numbers
      <4>2. CASE committed # None
        BY <1>1, <2>1, <2>3, <3>2, <4>2 DEF Marks, AccountedTo
      <4>3. QED
        BY <4>1, <4>2
    <3>3. QED
      BY <3>1, <3>2 DEF NoGap, Fetched
  <2>6. QED
    BY <2>4, <2>5 DEF CInv
<1>9. CASE Prefetch
  <2>1. /\ owner \in Readers /\ position' = position + 1 /\ UNCHANGED <<owner, goroutines, topic, marked, history>>
        /\ \A q \in Readers : buffer'[q] = IF q = owner THEN Append(buffer[q], position + 1) ELSE buffer[q]
        /\ position + 1 \in Events
    BY <1>1, <1>3, <1>9, Numbers DEF Prefetch, Typed, Events
  <2>2. Accounted' = Accounted
    BY <1>3, <2>1
  <2>3. Marks'
    BY <1>1, <1>2, <2>1, <2>2, MarksKept
  <2>4. PICK b \in Seq(Events) : b = buffer[owner]
    BY <1>1, <2>1 DEF Typed
  <2>5. Rising(b) /\ \A m \in Elements(b) : m < position + 1
    <3>1. \A m \in Elements(b) : m \in Int
      <4>1. \A m \in Elements(b) : m \in Events
        BY DEF Elements
      <4>2. QED
        BY <4>1 DEF Events
    <3>2. Rising(b) /\ \A m \in Elements(b) : m <= position
      BY <1>1, <2>1, <2>4 DEF Buffers, Fetched
    <3>3. QED
      BY <1>2, <3>1, <3>2
  <2>6. Elements(buffer'[owner]) = Elements(buffer[owner]) \cup {position + 1}
    BY <2>1, <2>4, <2>5, Added
  <2>7. ASSUME NEW e \in first + 1..position PROVE e \in Accounted \cup Elements(buffer[owner])
    BY <1>1, <2>1, <2>7, Numbers DEF NoGap, Fetched
  <2>8. NoGap'
    <3>1. ASSUME NEW q \in Readers, NEW n \in Elements(buffer'[q]), NEW e \in first + 1..n - 1
          PROVE  e \in Accounted \cup Elements(buffer'[q])
      <4>1. CASE q = owner /\ n = position + 1
        BY <1>2, <2>6, <2>7, <3>1, <4>1
      <4>2. CASE q # owner \/ n \in Elements(buffer[q])
        <5>1. n \in Elements(buffer[q]) /\ Elements(buffer[q]) \subseteq Elements(buffer'[q])
          BY <2>1, <2>6, <3>1, <4>2
        <5>2. QED
          BY <1>1, <3>1, <5>1 DEF NoGap, Fetched
      <4>3. QED
        BY <2>6, <3>1, <4>1, <4>2
    <3>2. ASSUME NEW e \in first + 1..position + 1 PROVE e \in Accounted \cup Elements(buffer'[owner])
      BY <1>2, <2>6, <2>7, <3>2
    <3>3. QED
      BY <2>1, <2>2, <3>1, <3>2 DEF NoGap, Fetched
  <2>9. QED
    BY <2>3, <2>8 DEF CInv
<1>10. QED
  BY <1>4, <1>5, <1>6, <1>7, <1>8, <1>9

\* The adapter's operations and a restart keep the accounts.
LEMMA AdapterAccounts ==
    ASSUME CInv, SInv', Subscribe \/ Disconnect \/ Cancel \/ Restart
    PROVE  CInv'
<1> USE DEF process, readers, goroutines, topic, session, bounds, history
<1>1. SInv /\ Marks /\ NoGap /\ Typed
  BY DEF CInv, SInv
<1>2. first \in Nat /\ first <= first /\ 0 \notin Readers /\ open \subseteq Readers
  BY <1>1, Numbers
<1>3. UNCHANGED <<hand, finished, cut>> => Accounted' = Accounted
  BY DEF Accounted
<1>4. CASE Subscribe
  <2>1. /\ UNCHANGED <<owner, buffer, using, hand, topic, session, history>>
        /\ \A g \in Readers : loop'[g] = "commit" => loop[g] = "commit"
    BY <1>1, <1>4 DEF Subscribe, Typed
  <2>2. QED
    BY <1>1, <1>2, <1>3, <2>1, MarksKept, NoGapKept DEF CInv
<1>5. CASE Disconnect
  <2>1. /\ committed' \in {committed, None} \cup {marked[r] : r \in Readers}
        /\ \A r \in Readers : marked'[r] \in {marked[r], None}
        /\ owner' # 0 => owner' = owner
        /\ UNCHANGED <<buffer, goroutines, position, history>>
    BY <1>1, <1>2, <1>5 DEF Disconnect, LastCommit
  <2>2. QED
    BY <1>1, <1>2, <1>3, <2>1, MarksKept, NoGapKept DEF CInv
<1>6. CASE Cancel
  <2>1. UNCHANGED <<readers, goroutines, topic, session, history>>
    BY <1>6 DEF Cancel
  <2>2. QED
    BY <1>1, <1>2, <1>3, <2>1, MarksKept, NoGapKept DEF CInv
<1>7. CASE Restart
  <2>1. /\ owner' = 0 /\ cut' = cut \cup {hand[g] : g \in Readers}
        /\ \A r \in Readers : buffer'[r] = <<>> /\ loop'[r] = "none" /\ marked'[r] = None
        /\ UNCHANGED <<topic, first, finished>>
    BY <1>7 DEF Restart, ProcessStarts, NoMarks
  <2>2. Accounted \subseteq Accounted' \cup {0}
    BY <2>1 DEF Accounted
  <2>3. QED
    BY <1>1, <1>2, <2>1, <2>2, Emptied, MarksKept, NoGapKept DEF CInv
<1>8. QED
  BY <1>4, <1>5, <1>6, <1>7

\* A goroutine keeps the accounts: when it takes an event, all before it are
\* accounted for, and when it lets go of one, it is.
LEMMA LoopAccounts ==
    ASSUME CInv, SInv', NEW g \in Readers, LoopStep(g)
    PROVE  CInv'
<1> USE DEF process, readers, goroutines, topic, session, bounds, history
<1>1. SInv /\ Marks /\ NoGap /\ Typed /\ Goroutines /\ Buffers
  BY DEF CInv, SInv
<1>2. first \in Nat /\ first <= first /\ 0 \notin Readers /\ (owner # 0 => owner \in Readers)
  BY <1>1, Numbers
<1>3. CASE CallRead(g)
  <2>1. /\ UNCHANGED <<readers, hand, topic, session, history>>
        /\ \A h \in Readers : loop'[h] = "commit" => loop[h] = "commit"
    BY <1>1, <1>3 DEF CallRead, Typed
  <2>2. Accounted' = Accounted
    BY <2>1 DEF Accounted
  <2>3. QED
    BY <1>1, <1>2, <2>1, <2>2, MarksKept, NoGapKept DEF CInv
<1>4. CASE FetchFails(g) \/ CommitFails(g) \/ HandlerReturns(g) \/ (CommitMessages(g) /\ hand[g] \in Malformed)
  <2>1. PICK place \in {"call", "done"} : EndRound(g, place)
    <3>1. ASSUME NEW err PROVE AfterError(err) \in {"call", "done"}
      BY DEF AfterError
    <3>2. QED
      BY <1>4, <3>1 DEF FetchFails, CommitFails, HandlerReturns, CommitMessages
  <2>2. /\ UNCHANGED <<readers, topic, position, first>>
        /\ finished \subseteq finished' /\ cut \subseteq cut'
        /\ hand[g] \in finished' \cup Malformed \cup cut' \cup {0}
    BY <1>1, <1>4 DEF FetchFails, CommitFails, HandlerReturns, CommitMessages, Goroutines
  <2>3. Accounted \subseteq Accounted' \cup {0}
    BY <1>1, <2>1, <2>2, RoundEnds
  <2>4. \A h \in Readers : loop'[h] = "commit" => loop[h] = "commit" /\ hand'[h] = hand[h]
    BY <1>1, <2>1 DEF EndRound, Typed
  <2>5. \A r \in Readers : \/ marked'[r] \in {marked[r], None}
                           \/ \E h \in Readers : loop[h] = "commit" /\ marked'[r] = hand[h]
    BY <1>1, <1>4 DEF FetchFails, CommitFails, HandlerReturns, CommitMessages, Mark, Typed
  <2>6. QED
    BY <1>1, <1>2, <2>2, <2>3, <2>4, <2>5, MarksKept, NoGapKept DEF CInv
<1>5. CASE CommitMessages(g) /\ hand[g] \notin Malformed
  <2>1. /\ UNCHANGED <<readers, hand, topic, position, first, finished, cut>>
        /\ \A h \in Readers : loop'[h] = "commit" => loop[h] = "commit"
        /\ \A r \in Readers : \/ marked'[r] \in {marked[r], None}
                              \/ \E h \in Readers : loop[h] = "commit" /\ marked'[r] = hand[h]
    BY <1>1, <1>5 DEF CommitMessages, Mark, Typed
  <2>2. Accounted' = Accounted
    BY <2>1 DEF Accounted
  <2>3. QED
    BY <1>1, <1>2, <2>1, <2>2, MarksKept, NoGapKept DEF CInv
<1>6. CASE FetchMessage(g)
  <2>1. using[g] \in Readers
    <3>1. using[g] \in 0..MaxReaders /\ using[g] # 0
      BY <1>1, <1>6, Numbers DEF FetchMessage, Goroutines, Typed
    <3>2. QED
      BY <1>1, <3>1, Numbers DEF Readers
  <2>2. PICK b \in Seq(Events) : b = buffer[using[g]]
    BY <1>1, <2>1 DEF Typed
  <2>3. b # <<>> /\ Rising(b) /\ Elements(b) = Fetched(using[g])
    BY <1>1, <1>6, <2>1, <2>2 DEF FetchMessage, Buffers, Fetched
  <2>4. /\ Head(b) \in Events /\ Head(b) \in Elements(b) /\ Elements(Tail(b)) = Elements(b) \ {Head(b)}
        /\ \A n \in Elements(b) : Head(b) <= n
    BY <2>3, Rest
  <2>5. /\ hand[g] = 0 /\ hand' = [hand EXCEPT ![g] = Head(b)] /\ loop' = [loop EXCEPT ![g] = "commit"]
        /\ \A r \in Readers : buffer'[r] = IF r = using[g] THEN Tail(b) ELSE buffer[r]
        /\ UNCHANGED <<owner, topic, session, history>>
    BY <1>1, <1>6, <2>1, <2>2 DEF FetchMessage, Goroutines, Typed
  <2>6. \A h \in Readers : hand'[h] = (IF h = g THEN Head(b) ELSE hand[h])
                            /\ loop'[h] = (IF h = g THEN "commit" ELSE loop[h])
    BY <1>1, <2>5 DEF Typed
  <2>7. Accounted \subseteq Accounted' \cup {0} /\ Head(b) \in Accounted'
    BY <2>5, <2>6 DEF Accounted
  <2>8. \A e \in first' + 1..Head(b) : e \in Accounted'
    <3>1. ASSUME NEW e \in first + 1..Head(b) - 1 PROVE e \in Accounted'
      <4>1. e \in Accounted \cup Elements(b)
        BY <1>1, <2>1, <2>3, <2>4, <3>1 DEF NoGap
      <4>2. ~(Head(b) <= e) /\ e # 0
        BY <1>2, <2>4, <3>1 DEF Events
      <4>3. QED
        BY <2>4, <2>7, <4>1, <4>2
    <3>2. ASSUME NEW e \in first + 1..Head(b), e # Head(b) PROVE e \in first + 1..Head(b) - 1
      BY <1>2, <2>4, <3>2 DEF Events
    <3>3. QED
      BY <2>5, <2>7, <3>1, <3>2
  <2>9. Marks'
    BY <1>1, <1>2, <2>5, <2>6, <2>7, <2>8, MarksKept
  <2>10. \A r \in Readers : /\ Elements(buffer'[r]) \subseteq Elements(buffer[r])
                            /\ Elements(buffer[r]) \subseteq Elements(buffer'[r]) \cup Accounted'
    BY <2>1, <2>2, <2>4, <2>5, <2>7
  <2>11. NoGap'
    BY <1>1, <1>2, <2>5, <2>7, <2>10, NoGapKept
  <2>12. QED
    BY <2>9, <2>11 DEF CInv
<1>7. QED
  BY <1>3, <1>4, <1>5, <1>6 DEF LoopStep

\* The accounts hold initially.
LEMMA CInvInit == Init => CInv
<1> SUFFICES ASSUME Init PROVE CInv
  OBVIOUS
<1>1. \A e \in first + 1..None : FALSE
  BY DEF Init, None
<1>2. Marks
  BY <1>1 DEF Init, Marks, AccountedTo, NoMarks
<1>3. NoGap
  BY Emptied DEF Init, NoGap, Fetched
<1>4. QED
  BY <1>2, <1>3, SInvInit DEF CInv

\* Every step keeps the accounts.
LEMMA CInvStep == CInv /\ [Next]_vars => CInv'
<1> SUFFICES ASSUME CInv, [Next]_vars PROVE CInv'
  OBVIOUS
<1>1. SInv'
  BY SInvStep DEF CInv
<1>2. CASE UNCHANGED vars
  BY <1>1, <1>2 DEF vars, process, readers, goroutines, topic, session, bounds, history,
                    CInv, Marks, NoGap, AccountedTo, Accounted, Fetched
<1>3. CASE Next
  BY <1>1, <1>3, ClusterAccounts, AdapterAccounts, LoopAccounts DEF Next
<1>4. QED
  BY <1>2, <1>3

\* What a reader has committed or marked, and what a goroutine is about to mark,
\* has nothing before it that is not accounted for, because no reader has a gap
\* before an event it has fetched: also when goroutines share a reader, a reader
\* is closed between fetch and commit, or the partition comes back (kafka.go:195).
THEOREM ConsumerInvariance == Spec => []CInv
BY CInvInit, CInvStep, PTL DEF Spec

\* The group's offset passes no event that neither reached a handler nor was in
\* the hands of a goroutine (LostOnlyInHand): a ReadMessage that is cut between
\* fetch and commit is the only way to lose one (kafka.go:195-202).
THEOREM OffsetPassesOnlyTheOffered == Spec => []LostOnlyInHand
<1>1. CInv => LostOnlyInHand
  BY DEF CInv, Marks, AccountedTo, Accounted, LostOnlyInHand
<1>2. QED
  BY <1>1, ConsumerInvariance, PTL
-----------------------------------------------------------------------------
\* Sets of readers are finite, and counted by numbers.
LEMMA Countable ==
    ASSUME NEW S \in SUBSET Readers
    PROVE  IsFiniteSet(S) /\ Cardinality(S) \in Nat
<1>1. IsFiniteSet(Readers)
  BY BoundsAreNat, FS_Interval DEF Readers
<1>2. QED
  BY <1>1, FS_Subset, FS_CardinalityType

\* A part of a set counts no more than the set.
LEMMA CountingSubset ==
    ASSUME NEW S \in SUBSET Readers, NEW T \in SUBSET S
    PROVE  Cardinality(T) <= Cardinality(S)
BY Countable, FS_Subset

\* One more reader adds at most one.
LEMMA CountingOneMore ==
    ASSUME NEW S \in SUBSET Readers, NEW x \in Readers, NEW T \in SUBSET (S \cup {x})
    PROVE  Cardinality(T) <= Cardinality(S) + 1
<1>1. Cardinality(S) \in Nat /\ Cardinality(S \cup {x}) \in Nat /\ Cardinality(T) \in Nat /\ IsFiniteSet(S)
  BY Countable
<1>2. Cardinality(S \cup {x}) = Cardinality(S) \/ Cardinality(S \cup {x}) = Cardinality(S) + 1
  BY <1>1, FS_AddElement
<1>3. Cardinality(T) <= Cardinality(S \cup {x})
  BY CountingSubset
<1>4. QED
  BY <1>1, <1>2, <1>3

\* One reader less takes one away.
LEMMA CountingOneLess ==
    ASSUME NEW S \in SUBSET Readers, NEW x \in S, NEW T \in SUBSET (S \ {x})
    PROVE  Cardinality(T) + 1 <= Cardinality(S)
<1>1. Cardinality(S) \in Nat /\ Cardinality(S \ {x}) \in Nat /\ Cardinality(T) \in Nat /\ IsFiniteSet(S)
  BY Countable
<1>2. Cardinality(S \ {x}) = Cardinality(S) - 1
  BY <1>1, FS_RemoveElement
<1>3. Cardinality(T) <= Cardinality(S \ {x})
  BY CountingSubset
<1>4. QED
  BY <1>1, <1>2, <1>3

\* What is counted for an event.
Counted(e) == Cardinality(FetchedBy(e)) + Cardinality(TakenBy(e)) + Ahead(e)

\* The parts of the count are numbers.
LEMMA CountedTyped ==
    ASSUME NEW e \in Events
    PROVE  /\ FetchedBy(e) \in SUBSET Readers /\ TakenBy(e) \in SUBSET Readers
           /\ Cardinality(FetchedBy(e)) \in Nat /\ Cardinality(TakenBy(e)) \in Nat
           /\ Ahead(e) \in 0..1
           /\ FetchedBy(e)' \in SUBSET Readers /\ TakenBy(e)' \in SUBSET Readers
           /\ Cardinality(FetchedBy(e)') \in Nat /\ Cardinality(TakenBy(e)') \in Nat
           /\ Ahead(e)' \in 0..1
<1>1. /\ FetchedBy(e) \in SUBSET Readers /\ TakenBy(e) \in SUBSET Readers
      /\ FetchedBy(e)' \in SUBSET Readers /\ TakenBy(e)' \in SUBSET Readers
  BY DEF FetchedBy, TakenBy
<1>2. Ahead(e) \in 0..1 /\ Ahead(e)' \in 0..1
  BY DEF Ahead
<1>3. QED
  BY <1>1, <1>2, Countable

\* The count of an event goes down, or stays, when nothing is added to its parts.
LEMMA CountedKept ==
    ASSUME NEW e \in Events, FetchedBy(e)' \subseteq FetchedBy(e), TakenBy(e)' \subseteq TakenBy(e),
           Ahead(e)' <= Ahead(e)
    PROVE  Counted(e)' <= Counted(e)
<1>1. Cardinality(FetchedBy(e)') <= Cardinality(FetchedBy(e)) /\ Cardinality(TakenBy(e)') <= Cardinality(TakenBy(e))
  BY CountedTyped, CountingSubset
<1>2. QED
  BY <1>1, CountedTyped DEF Counted

\* Steps in which no reader and no goroutine gets an event, and the partition goes
\* to nobody.
LEMMA BalanceKept ==
    ASSUME SInv, Balance, due' = due, position' = position,
           owner' # 0 => owner' = owner,
           \A r \in Readers : Elements(buffer'[r]) \subseteq Elements(buffer[r]),
           \A g \in Readers : loop'[g] = "commit" => loop[g] = "commit" /\ hand'[g] = hand[g]
    PROVE  Balance'
<1> SUFFICES ASSUME NEW e \in Events PROVE Counted(e)' <= due'[e]
  BY DEF Balance, Counted
<1>1. FetchedBy(e)' \subseteq FetchedBy(e) /\ TakenBy(e)' \subseteq TakenBy(e)
  BY DEF FetchedBy, TakenBy, Fetched
<1>2. Ahead(e)' <= Ahead(e)
  <2>1. owner # 0 \/ owner' = 0
    OBVIOUS
  <2>2. QED
    BY <2>1 DEF Ahead
<1>3. Counted(e)' <= Counted(e)
  BY <1>1, <1>2, CountedKept
<1>4. Counted(e) <= due[e] /\ due[e] \in Int
  BY DEF SInv, Typed, Balance, Counted
<1>5. Counted(e) \in Nat /\ Counted(e)' \in Nat
  BY CountedTyped DEF Counted
<1>6. QED
  BY <1>3, <1>4, <1>5

\* The cluster and the library keep the balance: an assignment makes every event
\* ahead of it due once more.
LEMMA ClusterBalance ==
    ASSUME SInv, Balance,
           \/ EventArrives \/ GenerationEnds \/ Prefetch
           \/ \E r \in Readers : CommitInterval(r) \/ Assign(r) \/ AssignNothing(r)
    PROVE  Balance'
<1> USE DEF process, readers, goroutines, topic, session, bounds, history
<1>1. Typed /\ Buffers
  BY DEF SInv
<1>2. CASE EventArrives \/ GenerationEnds \/ \E r \in Readers : CommitInterval(r) \/ AssignNothing(r)
  <2>1. /\ due' = due /\ position' = position /\ (owner' # 0 => owner' = owner)
        /\ UNCHANGED goroutines
        /\ \A q \in Readers : buffer'[q] = buffer[q] \/ buffer'[q] = <<>>
    BY <1>1, <1>2 DEF EventArrives, GenerationEnds, CommitInterval, AssignNothing, Typed
  <2>2. QED
    BY <2>1, Emptied, BalanceKept
<1>3. ASSUME NEW r \in Readers, Assign(r) PROVE Balance'
  <2> SUFFICES ASSUME NEW e \in Events PROVE Counted(e)' <= due'[e]
    BY DEF Balance, Counted
  <2>1. /\ owner = 0 /\ UNCHANGED goroutines
        /\ \A q \in Readers : buffer'[q] = buffer[q] \/ buffer'[q] = <<>>
        /\ due'[e] = IF e > position' THEN due[e] + 1 ELSE due[e]
    BY <1>1, <1>3 DEF Assign, Typed
  <2>2. FetchedBy(e)' \subseteq FetchedBy(e) /\ TakenBy(e)' \subseteq TakenBy(e)
    BY <2>1, Emptied DEF FetchedBy, TakenBy, Fetched
  <2>3. Cardinality(FetchedBy(e)') <= Cardinality(FetchedBy(e)) /\ Cardinality(TakenBy(e)') <= Cardinality(TakenBy(e))
    BY <2>2, CountedTyped, CountingSubset
  <2>4. Cardinality(FetchedBy(e)) + Cardinality(TakenBy(e)) + Ahead(e) <= due[e] /\ due[e] \in Int
    BY <1>1 DEF Typed, Balance
  <2>5. Ahead(e) = 0 /\ Ahead(e)' = IF owner' # 0 /\ e > position' THEN 1 ELSE 0
    <3>1. position' \in Int /\ e \in Int
      BY <1>1, <1>3, Numbers DEF Assign
    <3>2. QED
      BY <2>1, <3>1 DEF Ahead
  <2>6. QED
    BY <2>1, <2>3, <2>4, <2>5, CountedTyped DEF Counted
<1>4. CASE Prefetch
  <2> SUFFICES ASSUME NEW e \in Events PROVE Counted(e)' <= due'[e]
    BY DEF Balance, Counted
  <2>1. /\ owner \in Readers /\ owner # 0 /\ position' = position + 1 /\ position + 1 \in Events
        /\ UNCHANGED <<owner, goroutines, due>>
        /\ \A q \in Readers : buffer'[q] = IF q = owner THEN Append(buffer[q], position + 1) ELSE buffer[q]
    BY <1>1, <1>4, Numbers DEF Prefetch, Typed, Events
  <2>2. Elements(buffer'[owner]) = Elements(buffer[owner]) \cup {position + 1}
    <3>1. PICK b \in Seq(Events) : b = buffer[owner]
      BY <1>1, <2>1 DEF Typed
    <3>2. Rising(b) /\ \A m \in Elements(b) : m <= position
      BY <1>1, <2>1, <3>1 DEF Buffers, Fetched
    <3>3. \A m \in Elements(b) : m \in Int
      <4>1. \A m \in Elements(b) : m \in Events
        BY DEF Elements
      <4>2. QED
        BY <4>1 DEF Events
    <3>4. \A m \in Elements(b) : m < position + 1
      BY <1>1, <3>2, <3>3, Numbers
    <3>5. QED
      BY <2>1, <3>1, <3>2, <3>4, Added
  <2>3. TakenBy(e)' = TakenBy(e)
    BY <2>1 DEF TakenBy
  <2>4. Counted(e) <= due[e] /\ due[e] \in Int
    BY <1>1 DEF Typed, Balance, Counted
  <2>5. position \in Int /\ e \in Int
    BY <1>1, Numbers
  <2>6. CASE e = position + 1
    <3>1. FetchedBy(e)' \subseteq FetchedBy(e) \cup {owner}
      BY <2>1 DEF FetchedBy, Fetched
    <3>2. Cardinality(FetchedBy(e)') <= Cardinality(FetchedBy(e)) + 1
      BY <2>1, <3>1, CountedTyped, CountingOneMore
    <3>3. Ahead(e) = 1 /\ Ahead(e)' = 0
      BY <2>1, <2>5, <2>6 DEF Ahead
    <3>4. QED
      BY <2>1, <2>3, <2>4, <3>2, <3>3, CountedTyped DEF Counted
  <2>7. CASE e # position + 1
    <3>1. FetchedBy(e)' \subseteq FetchedBy(e)
      BY <2>1, <2>2, <2>7 DEF FetchedBy, Fetched
    <3>2. Ahead(e)' <= Ahead(e)
      BY <2>1, <2>5 DEF Ahead
    <3>3. Counted(e)' <= Counted(e)
      BY <2>3, <3>1, <3>2, CountedKept
    <3>4. Counted(e) \in Nat /\ Counted(e)' \in Nat
      BY CountedTyped DEF Counted
    <3>5. QED
      BY <2>1, <2>4, <3>3, <3>4
  <2>8. QED
    BY <2>6, <2>7
<1>5. QED
  BY <1>2, <1>3, <1>4

\* The adapter's operations and a restart keep the balance.
LEMMA AdapterBalance ==
    ASSUME SInv, Balance, Subscribe \/ Disconnect \/ Cancel \/ Restart
    PROVE  Balance'
<1> USE DEF process, readers, goroutines, topic, session, bounds, history
<1>1. Typed
  BY DEF SInv
<1>2. /\ due' = due /\ position' = position /\ (owner' # 0 => owner' = owner)
      /\ \A q \in Readers : buffer'[q] = buffer[q] \/ buffer'[q] = <<>>
      /\ \A g \in Readers : loop'[g] = "commit" => loop[g] = "commit" /\ hand'[g] = hand[g]
  <2>1. CASE Subscribe
    BY <1>1, <2>1 DEF Subscribe, Typed
  <2>2. CASE Disconnect
    BY <2>2 DEF Disconnect
  <2>3. CASE Cancel
    BY <2>3 DEF Cancel
  <2>4. CASE Restart
    BY <2>4 DEF Restart, ProcessStarts
  <2>5. QED
    BY <2>1, <2>2, <2>3, <2>4
<1>3. QED
  BY <1>2, Emptied, BalanceKept

\* A goroutine keeps the balance: what it takes leaves the reader, and what it gives
\* to the handler is due no more.
LEMMA LoopBalance ==
    ASSUME SInv, Balance, NEW g \in Readers, LoopStep(g)
    PROVE  Balance'
<1> USE DEF process, readers, goroutines, topic, session, bounds, history
<1>1. Typed /\ Goroutines /\ Buffers
  BY DEF SInv
<1>2. CASE CallRead(g)
  <2>1. /\ UNCHANGED <<readers, position, due, hand>>
        /\ \A h \in Readers : loop'[h] = "commit" => loop[h] = "commit"
    BY <1>1, <1>2 DEF CallRead, Typed
  <2>2. QED
    BY <2>1, BalanceKept
<1>3. CASE FetchFails(g) \/ CommitFails(g) \/ HandlerReturns(g) \/ (CommitMessages(g) /\ hand[g] \in Malformed)
  <2>1. PICK place \in {"call", "done"} : EndRound(g, place)
    <3>1. ASSUME NEW err PROVE AfterError(err) \in {"call", "done"}
      BY DEF AfterError
    <3>2. QED
      BY <1>3, <3>1 DEF FetchFails, CommitFails, HandlerReturns, CommitMessages
  <2>2. UNCHANGED <<readers, position, due>>
    BY <1>3 DEF FetchFails, CommitFails, HandlerReturns, CommitMessages
  <2>3. \A h \in Readers : loop'[h] = "commit" => loop[h] = "commit" /\ hand'[h] = hand[h]
    BY <1>1, <2>1 DEF EndRound, Typed
  <2>4. QED
    BY <2>2, <2>3, BalanceKept
<1>4. CASE CommitMessages(g) /\ hand[g] \notin Malformed
  <2> SUFFICES ASSUME NEW e \in Events PROVE Counted(e)' <= due'[e]
    BY DEF Balance, Counted
  <2>1. /\ UNCHANGED <<readers, hand, position>> /\ loop[g] = "commit"
        /\ \A h \in Readers : loop'[h] = IF h = g THEN "handle" ELSE loop[h]
        /\ due'[e] = IF e = hand[g] THEN due[e] - 1 ELSE due[e]
    BY <1>1, <1>4 DEF CommitMessages, Typed
  <2>2. FetchedBy(e)' = FetchedBy(e) /\ Ahead(e)' = Ahead(e)
    BY <2>1 DEF FetchedBy, Fetched, Ahead
  <2>3. TakenBy(e)' \subseteq TakenBy(e) \ {g}
    BY <2>1 DEF TakenBy
  <2>4. Counted(e) <= due[e] /\ due[e] \in Int
    BY <1>1 DEF Typed, Balance, Counted
  <2>5. CASE e = hand[g]
    <3>1. g \in TakenBy(e)
      BY <2>1, <2>5 DEF TakenBy
    <3>2. Cardinality(TakenBy(e)') + 1 <= Cardinality(TakenBy(e))
      BY <2>3, <3>1, CountedTyped, CountingOneLess
    <3>3. QED
      BY <2>1, <2>2, <2>4, <2>5, <3>2, CountedTyped DEF Counted
  <2>6. CASE e # hand[g]
    <3>1. Cardinality(TakenBy(e)') <= Cardinality(TakenBy(e))
      BY <2>3, CountedTyped, CountingSubset
    <3>2. QED
      BY <2>1, <2>2, <2>4, <2>6, <3>1, CountedTyped DEF Counted
  <2>7. QED
    BY <2>5, <2>6
<1>5. CASE FetchMessage(g)
  <2> SUFFICES ASSUME NEW e \in Events PROVE Counted(e)' <= due'[e]
    BY DEF Balance, Counted
  <2>1. using[g] \in Readers
    <3>1. using[g] \in 0..MaxReaders /\ using[g] # 0
      BY <1>1, <1>5, Numbers DEF FetchMessage, Goroutines, Typed
    <3>2. QED
      BY <1>1, <3>1, Numbers DEF Readers
  <2>2. PICK b \in Seq(Events) : b = buffer[using[g]]
    BY <1>1, <2>1 DEF Typed
  <2>3. b # <<>> /\ Rising(b)
    BY <1>1, <1>5, <2>1, <2>2 DEF FetchMessage, Buffers
  <2>4. Head(b) \in Elements(b) /\ Elements(Tail(b)) = Elements(b) \ {Head(b)}
    BY <2>3, Rest
  <2>5. /\ \A h \in Readers : hand'[h] = (IF h = g THEN Head(b) ELSE hand[h])
                              /\ loop'[h] = (IF h = g THEN "commit" ELSE loop[h])
        /\ \A r \in Readers : buffer'[r] = IF r = using[g] THEN Tail(b) ELSE buffer[r]
        /\ UNCHANGED <<owner, position, due>>
    BY <1>1, <1>5, <2>1, <2>2 DEF FetchMessage, Typed
  <2>6. Ahead(e)' = Ahead(e) /\ due'[e] = due[e]
    BY <2>5 DEF Ahead
  <2>7. Counted(e) <= due[e] /\ due[e] \in Int
    BY <1>1 DEF Typed, Balance, Counted
  <2>8. CASE e = Head(b)
    <3>1. using[g] \in FetchedBy(e) /\ FetchedBy(e)' \subseteq FetchedBy(e) \ {using[g]}
      BY <2>1, <2>2, <2>4, <2>5, <2>8 DEF FetchedBy, Fetched
    <3>2. Cardinality(FetchedBy(e)') + 1 <= Cardinality(FetchedBy(e))
      BY <3>1, CountedTyped, CountingOneLess
    <3>3. TakenBy(e)' \subseteq TakenBy(e) \cup {g}
      BY <2>5 DEF TakenBy
    <3>4. Cardinality(TakenBy(e)') <= Cardinality(TakenBy(e)) + 1
      BY <3>3, CountedTyped, CountingOneMore
    <3>5. /\ Cardinality(FetchedBy(e)) \in Nat /\ Cardinality(TakenBy(e)) \in Nat /\ Ahead(e) \in 0..1
          /\ Cardinality(FetchedBy(e)') \in Nat /\ Cardinality(TakenBy(e)') \in Nat
      BY CountedTyped
    <3>6. QED
      BY <2>6, <2>7, <3>2, <3>4, <3>5 DEF Counted
  <2>9. CASE e # Head(b)
    <3>1. FetchedBy(e)' \subseteq FetchedBy(e)
      BY <2>2, <2>4, <2>5 DEF FetchedBy, Fetched
    <3>2. TakenBy(e)' \subseteq TakenBy(e)
      BY <2>5, <2>9 DEF TakenBy
    <3>3. Cardinality(FetchedBy(e)') <= Cardinality(FetchedBy(e)) /\ Cardinality(TakenBy(e)') <= Cardinality(TakenBy(e))
      BY <3>1, <3>2, CountedTyped, CountingSubset
    <3>4. QED
      BY <2>6, <2>7, <3>3, CountedTyped DEF Counted
  <2>10. QED
    BY <2>8, <2>9
<1>6. QED
  BY <1>2, <1>3, <1>4, <1>5 DEF LoopStep

\* The balance holds initially.
LEMMA BalanceInit == Init => Balance
<1> SUFFICES ASSUME Init, NEW e \in Events
             PROVE  Cardinality(FetchedBy(e)) + Cardinality(TakenBy(e)) + Ahead(e) <= due[e]
  BY DEF Balance
<1>1. FetchedBy(e) = {} /\ TakenBy(e) = {}
  BY Emptied DEF Init, FetchedBy, TakenBy, Fetched
<1>2. Ahead(e) = 0 /\ due[e] = 0
  BY DEF Init, Ahead
<1>3. QED
  BY <1>1, <1>2, FS_EmptySet

\* What is still to be given to a handler - fetched by a reader, taken by a
\* goroutine, or ahead of the owner - is never more than what is due: a reader that
\* is closed or has lost the partition keeps what it fetched, and gives it without
\* the next owner's being given twice (kafka.go:195 and the reader field).
THEOREM BalanceInvariance == Spec => []Balance
<1>1. SInv /\ Balance /\ [Next]_vars => Balance'
  <2>1. CASE UNCHANGED vars
    BY <2>1 DEF vars, process, readers, goroutines, topic, session, bounds, history,
                Balance, FetchedBy, TakenBy, Ahead, Fetched
  <2>2. CASE Next
    BY <2>2, ClusterBalance, AdapterBalance, LoopBalance DEF Next
  <2>3. QED
    BY <2>1, <2>2
<1>2. QED
  BY <1>1, SInvInit, SInvStep, BalanceInit, PTL DEF Spec

\* No assignment of the partition has an event given to a handler twice, by any
\* number of readers and goroutines (GivenOncePerAssignment).
THEOREM GivenOncePerAssignmentCorrect == Spec => []GivenOncePerAssignment
<1>1. SInv /\ Balance => GivenOncePerAssignment
  <2> SUFFICES ASSUME SInv, Balance, NEW e \in Events PROVE due[e] >= 0
    BY DEF GivenOncePerAssignment
  <2>1. Cardinality(FetchedBy(e)) + Cardinality(TakenBy(e)) + Ahead(e) <= due[e] /\ due[e] \in Int
    BY DEF Balance, SInv, Typed
  <2>2. QED
    BY <2>1, CountedTyped
<1>2. QED
  BY <1>1, SInvInit, SInvStep, BalanceInvariance, PTL DEF Spec
=============================================================================
