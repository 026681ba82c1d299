------------------------------ MODULE RWMutex ------------------------------
(***************************************************************************)
(* Go's sync.RWMutex, as the adapters use it (fields mu and stats.mu).     *)
(* The value of a lock records the goroutines that hold the read side and  *)
(* the one goroutine, if any, that has called Lock.  A call of Lock first  *)
(* announces itself and from then on keeps new readers out; it goes in     *)
(* when the readers that were already there have left.  The module is a    *)
(* module of operators on lock values: the users own the variables.        *)
(***************************************************************************)

LockValue(P) == [readers : SUBSET P, writer : SUBSET P]

Unlocked == [readers |-> {}, writer |-> {}]

\* RLock is granted: no writer holds the lock or waits for it.
CanRLock(m) == m.writer = {}

RLock(m, p) == [m EXCEPT !.readers = @ \cup {p}]

RUnlock(m, p) == [m EXCEPT !.readers = @ \ {p}]

\* Lock, first half: exclude the other writers and every new reader.
CanAnnounce(m) == m.writer = {}

Announce(m, p) == [m EXCEPT !.writer = {p}]

\* Lock, second half: p is the announced writer and the readers have drained.
CanEnter(m, p) == m.writer = {p} /\ m.readers = {}

Unlock(m) == [m EXCEPT !.writer = {}]
=============================================================================
