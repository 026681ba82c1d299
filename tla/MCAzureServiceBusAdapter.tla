---------------------- MODULE MCAzureServiceBusAdapter ----------------------
(***************************************************************************)
(* Model checking of AzureServiceBusAdapter.  Publishing and receiving     *)
(* meet in mu and in what Disconnect closes, never in an event: in a       *)
(* behaviour of a run events arrive or publishes and stats requests are    *)
(* made, beside the owner and Subscribe, which go with both.  The second   *)
(* of two events cannot be parsed.                                         *)
(***************************************************************************)
EXTENDS AzureServiceBusAdapter

MalformedEvents == {2}

OneSide ==
    \/ \A e \in Events : state[e] = "absent"
    \/ /\ \A c \in Calls : callPc[c] = "idle"
       /\ \A h \in Probes : probePc[h] = "idle"

OneSideSpec == Init /\ [][Next /\ OneSide']_vars /\ Fairness
=============================================================================
