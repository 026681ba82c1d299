---------------------------- MODULE KafkaConsumer ----------------------------
(***************************************************************************)
(* Subscribe of the Kafka adapter (internal/broker/adapters/kafka.go): a   *)
(* reader of the consumer group and a goroutine that loops over            *)
(* ReadMessage.  The goroutine uses the adapter's reader field, without    *)
(* the lock, anew in every round; another Subscribe replaces the field and *)
(* Disconnect closes the reader it finds there.  The topic has one         *)
(* partition; the group, the readers' prefetching and their periodic       *)
(* commits are modelled as kafka-go (v0.4.47) does them.  The process may  *)
(* end at any time and start again: what survives is the topic and the     *)
(* group's offset.  Events are numbered by their place in the partition.   *)
(***************************************************************************)
EXTENDS Integers, Sequences, SequencesExt

CONSTANTS
    LastEvent,      \* events are 1..LastEvent (bound of the model)
    Malformed,      \* events FromJSON rejects
    Failing,        \* events a handler fails for
    MaxReaders,     \* calls of Subscribe in a process (bound of the model)
    MaxRestarts,    \* (bound of the model)
    MaxRebalances   \* generations of the group that end (bound of the model)

Events == 1..LastEvent
Readers == 1..MaxReaders

ASSUME BoundsAreNat == {LastEvent, MaxReaders, MaxRestarts, MaxRebalances} \subseteq Nat

ASSUME BadAreEvents == Malformed \cup Failing \subseteq Events

VARIABLES
    connected, reader, cancelled,  \* the adapter, and the context of Subscribe
    open, owner, buffer,           \* readers not closed, the one that has the
                                   \*   partition, and what each has fetched
    loop, using, hand,             \* the goroutines: place, reader, event
    arrived, committed,            \* the partition and the group's offset
    position, marked,              \* how far the owner has fetched, and what
                                   \*   each reader is still to commit
    restarts, rebalances,
    first, due, finished, cut
                   \* history: where the group began; how often an event was
                   \*   assigned, as still ahead, and not given to a handler; the
                   \*   events handlers returned from; those a goroutine had taken
                   \*   when the process, its context or its reader ended

process == <<connected, reader, cancelled>>
readers == <<open, owner, buffer>>
goroutines == <<loop, using, hand>>
topic == <<arrived, committed>>
session == <<position, marked>>
bounds == <<restarts, rebalances>>
history == <<first, due, finished, cut>>

vars == <<process, readers, goroutines, topic, session, bounds, history>>

None == -1      \* nothing is committed, or to be committed
-----------------------------------------------------------------------------
TypeOK ==
    /\ {connected, cancelled} \subseteq BOOLEAN
    /\ reader \in 0..MaxReaders /\ open \subseteq 1..reader /\ owner \in open \cup {0}
    /\ \A r \in Readers : buffer[r] \in Seq(Events) /\ IsInjective(buffer[r])
    /\ loop \in [Readers -> {"none", "call", "fetch", "commit", "handle", "done"}]
    /\ using \in [Readers -> 0..reader] /\ hand \in [Readers -> Events \cup {0}]
    /\ arrived \in 0..LastEvent /\ committed \in None..arrived
    /\ position \in 0..arrived /\ marked \in [Readers -> None..arrived]
    /\ restarts \in 0..MaxRestarts /\ rebalances \in 0..MaxRebalances

NoMarks == [r \in Readers |-> None]

ProcessStarts ==
    /\ connected' = TRUE /\ reader' = 0 /\ cancelled' = FALSE
    /\ open' = {} /\ owner' = 0 /\ buffer' = [r \in Readers |-> <<>>]
    /\ loop' = [g \in Readers |-> "none"]
    /\ using' = [g \in Readers |-> 0] /\ hand' = [g \in Readers |-> 0]
    /\ marked' = NoMarks

\* Connect has succeeded.
Init ==
    /\ connected = TRUE /\ reader = 0 /\ cancelled = FALSE
    /\ open = {} /\ owner = 0 /\ buffer = [r \in Readers |-> <<>>]
    /\ loop = [g \in Readers |-> "none"]
    /\ using = [g \in Readers |-> 0] /\ hand = [g \in Readers |-> 0]
    /\ arrived = 0 /\ committed = None
    /\ position = 0 /\ marked = NoMarks
    /\ restarts = 0 /\ rebalances = 0
    /\ first = 0 /\ due = [e \in Events |-> 0] /\ finished = {} /\ cut = {}
-----------------------------------------------------------------------------
(***************************************************************************)
(* The cluster and the library.  A commit interval is set: CommitMessages  *)
(* only marks the event, the reader commits the highest mark every second  *)
(* and forgets it, and tries once more when its generation ends.  A late   *)
(* mark may take the group's offset back.                                  *)
(***************************************************************************)
EventArrives ==
    /\ arrived < LastEvent
    /\ arrived' = arrived + 1
    /\ UNCHANGED <<process, readers, goroutines, committed, session, bounds, history>>

CommitInterval(r) ==
    /\ r \in open /\ marked[r] # None
    /\ committed' = marked[r]
    /\ marked' = [marked EXCEPT ![r] = None]
    /\ UNCHANGED <<process, readers, goroutines, arrived, position, bounds, history>>

\* The last commit of the readers in rs, which may fail.
LastCommit(rs) ==
    /\ committed' \in {committed} \cup ({marked[r] : r \in rs} \ {None})
    /\ marked' = [r \in Readers |-> IF r \in rs THEN None ELSE marked[r]]

\* The group's generation ends (a member came or went, a session timed out, the
\* coordinator moved) and nobody has the partition until the next one.  What its
\* owner has fetched can still be read.
GenerationEnds ==
    /\ owner # 0 /\ rebalances < MaxRebalances
    /\ rebalances' = rebalances + 1
    /\ LastCommit(open)
    /\ owner' = 0
    /\ UNCHANGED <<process, open, buffer, goroutines, arrived, position, restarts, history>>

\* Some open reader, the last owner or another, gets the partition.  It goes on
\* after the group's offset, or at the end of the partition when the group has
\* none (StartOffset), without what it had fetched before.
Assign(r) ==
    /\ owner = 0 /\ r \in open
    /\ owner' = r
    /\ buffer' = [buffer EXCEPT ![r] = <<>>]
    /\ position' = IF committed = None THEN arrived ELSE committed
    /\ first' = IF committed = None THEN arrived ELSE first
    /\ due' = [e \in Events |-> IF e > position' THEN due[e] + 1 ELSE due[e]]
    /\ UNCHANGED <<process, open, goroutines, topic, marked, bounds, finished, cut>>

\* A reader joins a generation that has no partition for it.
AssignNothing(r) ==
    /\ r \in open \ {owner} /\ buffer[r] # <<>>
    /\ buffer' = [buffer EXCEPT ![r] = <<>>]
    /\ UNCHANGED <<process, open, owner, goroutines, topic, session, bounds, history>>

Prefetch ==
    /\ owner # 0 /\ position < arrived
    /\ position' = position + 1
    /\ buffer' = [buffer EXCEPT ![owner] = Append(@, position + 1)]
    /\ UNCHANGED <<process, open, owner, goroutines, topic, marked, bounds, history>>
-----------------------------------------------------------------------------
(***************************************************************************)
(* The adapter and the caller's context.                                   *)
(***************************************************************************)
Subscribe ==
    /\ connected /\ reader < MaxReaders
    /\ reader' = reader + 1
    /\ open' = open \cup {reader'}
    /\ loop' = [loop EXCEPT ![reader'] = "call"]
    /\ UNCHANGED <<connected, cancelled, owner, buffer, using, hand, topic, session, bounds, history>>

\* Closes the writer and the current reader, which stays in the field.
Disconnect ==
    /\ connected
    /\ connected' = FALSE
    /\ open' = open \ {reader}
    /\ owner' = IF owner = reader THEN 0 ELSE owner
    /\ LastCommit(open \cap {reader})
    /\ UNCHANGED <<reader, cancelled, buffer, goroutines, arrived, position, bounds, history>>

Cancel ==
    /\ ~cancelled
    /\ cancelled' = TRUE
    /\ UNCHANGED <<connected, reader, readers, goroutines, topic, session, bounds, history>>

Restart ==
    /\ restarts < MaxRestarts
    /\ restarts' = restarts + 1
    /\ ProcessStarts
    /\ cut' = cut \cup {hand[g] : g \in Readers}
    /\ UNCHANGED <<topic, position, rebalances, first, due, finished>>
-----------------------------------------------------------------------------
(***************************************************************************)
(* The goroutine.  ReadMessage is FetchMessage and then CommitMessages;    *)
(* between the two another goroutine may use the reader, and the reader    *)
(* or the context may end.  Its errors are chains, the outermost first.    *)
(***************************************************************************)
Canceled == <<"context canceled">>
EOF == <<"EOF">>
ErrClosedPipe == <<"io: read/write on closed pipe">>

\* What the loop does when ReadMessage has failed.
AfterError(err) == IF err = Canceled THEN "done" ELSE "call"

\* The round is over; another begins, or none.
EndRound(g, place) ==
    /\ loop' = [loop EXCEPT ![g] = place]
    /\ using' = [using EXCEPT ![g] = 0] /\ hand' = [hand EXCEPT ![g] = 0]

CallRead(g) ==
    /\ loop[g] = "call"
    /\ using' = [using EXCEPT ![g] = reader]
    /\ loop' = [loop EXCEPT ![g] = "fetch"]
    /\ UNCHANGED <<process, readers, hand, topic, session, bounds, history>>

\* A reader that is closed still gives what it has fetched.
FetchMessage(g) ==
    /\ loop[g] = "fetch" /\ buffer[using[g]] # <<>>
    /\ hand' = [hand EXCEPT ![g] = Head(buffer[using[g]])]
    /\ buffer' = [buffer EXCEPT ![using[g]] = Tail(@)]
    /\ loop' = [loop EXCEPT ![g] = "commit"]
    /\ UNCHANGED <<process, open, owner, using, topic, session, bounds, history>>

\* The context has ended, or the reader is closed and has nothing left.
FetchFails(g) ==
    /\ loop[g] = "fetch"
    /\ \E cause \in (IF cancelled THEN {Canceled} ELSE {})
                     \cup (IF using[g] \notin open /\ buffer[using[g]] = <<>> THEN {EOF} ELSE {}) :
          EndRound(g, AfterError(<<"fetching message">> \o cause))
    /\ UNCHANGED <<process, readers, topic, session, bounds, history>>

\* Mutant: all that has been fetched is marked with the event.
MarkFetched(e) == position

\* What CommitMessages has the reader commit.
Mark(e) == e

\* The event is marked, parsed and given to the handler, or skipped.  A reader
\* that is closed takes the mark and never commits it.
CommitMessages(g) ==
    /\ loop[g] = "commit"
    /\ marked' = [marked EXCEPT ![using[g]] = IF @ < Mark(hand[g]) THEN Mark(hand[g]) ELSE @]
    /\ IF hand[g] \in Malformed
       THEN EndRound(g, "call") /\ UNCHANGED due
       ELSE /\ loop' = [loop EXCEPT ![g] = "handle"]
            /\ due' = [due EXCEPT ![hand[g]] = @ - 1]
            /\ UNCHANGED <<using, hand>>
    /\ UNCHANGED <<process, readers, topic, position, bounds, first, finished, cut>>

\* The reader was closed or the context ended after the event was taken:
\* ReadMessage returns an error and nobody has the event any more.
CommitFails(g) ==
    /\ loop[g] = "commit"
    /\ \E cause \in (IF cancelled THEN {Canceled} ELSE {})
                     \cup (IF using[g] \notin open THEN {ErrClosedPipe} ELSE {}) :
          EndRound(g, AfterError(<<"committing message">> \o cause))
    /\ cut' = cut \cup {hand[g]}
    /\ UNCHANGED <<process, readers, topic, session, bounds, first, due, finished>>

\* Mutant: an event whose handler has failed is put back to be read again.
HandlerReturnsSeeksBack(g) ==
    /\ loop[g] = "handle"
    /\ finished' = finished \cup {hand[g]}
    /\ buffer' = [buffer EXCEPT ![using[g]] = IF hand[g] \in Failing THEN <<hand[g]>> \o @ ELSE @]
    /\ EndRound(g, "call")
    /\ UNCHANGED <<process, open, owner, topic, session, bounds, first, due, cut>>

\* Mutant: an error ends the loop.
HandlerReturnsEndsLoop(g) ==
    /\ loop[g] = "handle"
    /\ finished' = finished \cup {hand[g]}
    /\ EndRound(g, IF hand[g] \in Failing THEN "done" ELSE "call")
    /\ UNCHANGED <<process, readers, topic, session, bounds, first, due, cut>>

\* With an error or without: the loop goes on.
HandlerReturns(g) ==
    /\ loop[g] = "handle"
    /\ finished' = finished \cup {hand[g]}
    /\ EndRound(g, "call")
    /\ UNCHANGED <<process, readers, topic, session, bounds, first, due, cut>>
-----------------------------------------------------------------------------
LoopStep(g) ==
    \/ CallRead(g) \/ FetchMessage(g) \/ FetchFails(g)
    \/ CommitMessages(g) \/ CommitFails(g) \/ HandlerReturns(g)

Next ==
    \/ EventArrives \/ Prefetch \/ GenerationEnds \/ Subscribe \/ Disconnect \/ Cancel \/ Restart
    \/ \E r \in Readers : CommitInterval(r) \/ Assign(r) \/ AssignNothing(r) \/ LoopStep(r)

(***************************************************************************)
(* A goroutine that can run does, the handler returns, the partition is    *)
(* assigned and fetched.  That generations stop ending is the bound's.     *)
(***************************************************************************)
Fairness ==
    /\ WF_vars(Prefetch)
    /\ \A r \in Readers : WF_vars(Assign(r)) /\ WF_vars(LoopStep(r))

Spec == Init /\ [][Next]_vars

FairSpec == Spec /\ Fairness
-----------------------------------------------------------------------------
(***************************************************************************)
(* Properties.                                                             *)
(***************************************************************************)

\* The group's offset never passes an event that did not reach a handler: what
\* is committed has been through a handler, or a goroutine has it, or had taken
\* it when the process, its context or its reader ended, or nobody can parse it
\* (kafka.go:195, ReadMessage marks an event before the handler sees it, another
\* goroutine may mark a later one first, and a mark may come late).
LostOnlyInHand ==
    \A e \in first + 1..committed :
        e \in finished \cup Malformed \cup {hand[g] : g \in Readers} \cup cut

\* A handler gets an event at most once for each time the partition was assigned
\* with the event still ahead: neither two goroutines that share a reader nor a
\* reader that was closed or has lost the partition give it twice on one
\* assignment (kafka.go:195, the reader field, and kafka.go:89).
GivenOncePerAssignment ==
    \A e \in Events : due[e] >= 0

\* While a single subscription stands, every event that is neither committed nor
\* older than the group reaches the handler, whatever the handler says to others
\* and whoever loses the partition in between (kafka.go, continue).
EveryEventOffered ==
    \A e \in Events \ Malformed :
        committed # None /\ committed < e /\ first < e /\ e <= arrived
            ~> e \in finished \/ reader # 1 \/ ~connected \/ cancelled

\* An event a handler has failed for is not committed, so that it comes again
\* (kafka.go:214, "Message will be automatically retried by Kafka").
HandlerErrorRetried ==
    \A e \in finished \cap Failing : committed < e
=============================================================================
