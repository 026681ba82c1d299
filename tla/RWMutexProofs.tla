---------------------------- MODULE RWMutexProofs ----------------------------
(***************************************************************************)
(* What the operations of RWMutex yield; the proofs about the adapters use *)
(* it.                                                                     *)
(***************************************************************************)
EXTENDS RWMutex, TLAPS

\* Every operation on a lock yields a lock value (Go's sync.RWMutex).
LEMMA LockOperations ==
    ASSUME NEW P, NEW m \in LockValue(P), NEW p \in P
    PROVE  /\ Unlocked \in LockValue(P)
           /\ RLock(m, p) \in LockValue(P)
           /\ RUnlock(m, p) \in LockValue(P)
           /\ Announce(m, p) \in LockValue(P)
           /\ Unlock(m) \in LockValue(P)
BY DEF LockValue, Unlocked, RLock, RUnlock, Announce, Unlock
=============================================================================
