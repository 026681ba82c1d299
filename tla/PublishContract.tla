-------------------------- MODULE PublishContract --------------------------
(***************************************************************************)
(* What Broker.Publish promises its caller, whichever adapter is behind    *)
(* the interface (internal/broker/broker.go).  A call is answered once:    *)
(* "ok" only when the message has been handed to the broker, "refused"     *)
(* (not connected) only when it has not been and never will be, "error"    *)
(* with no promise about the message.  The contract does not say which     *)
(* answer a call gets: that is the adapter's business.                     *)
(***************************************************************************)
CONSTANT Calls        \* the calls of Publish

VARIABLES
    outcome,          \* what each call has returned so far
    handed            \* the calls whose message the broker has been given

vars == <<outcome, handed>>

Outcomes == {"idle", "pending", "ok", "error", "refused"}

TypeOK ==
    /\ outcome \in [Calls -> Outcomes]
    /\ handed \in SUBSET Calls

Init ==
    /\ outcome = [c \in Calls |-> "idle"]
    /\ handed = {}

Call(c) ==
    /\ outcome[c] = "idle"
    /\ outcome' = [outcome EXCEPT ![c] = "pending"]
    /\ UNCHANGED handed

\* A client library may still deliver what it has already reported as failed.
HandOver(c) ==
    /\ outcome[c] \in {"pending", "error"}
    /\ handed' = handed \cup {c}
    /\ UNCHANGED outcome

ReturnOk(c) ==
    /\ outcome[c] = "pending"
    /\ c \in handed
    /\ outcome' = [outcome EXCEPT ![c] = "ok"]
    /\ UNCHANGED handed

ReturnError(c) ==
    /\ outcome[c] = "pending"
    /\ outcome' = [outcome EXCEPT ![c] = "error"]
    /\ UNCHANGED handed

Refuse(c) ==
    /\ outcome[c] = "pending"
    /\ c \notin handed
    /\ outcome' = [outcome EXCEPT ![c] = "refused"]
    /\ UNCHANGED handed

Next ==
    \E c \in Calls :
        \/ Call(c)
        \/ HandOver(c)
        \/ ReturnOk(c)
        \/ ReturnError(c)
        \/ Refuse(c)

Spec == Init /\ [][Next]_vars
=============================================================================
