------------------------- MODULE MCRequestPipeline -------------------------
(***************************************************************************)
(* Model checking of RequestPipeline: sets of inputs, and a restriction.   *)
(* Requests meet in the limiter and in the broker, and the limiter does    *)
(* not see what they contain: in a behaviour of gateway_traffic there are  *)
(* two requests that may end in different places, or more that are alike.  *)
(* They are numbered as they are received, since no step tells one request *)
(* from another.                                                           *)
(***************************************************************************)
EXTENDS RequestPipeline, FiniteSets

\* A publish request that names its fields as the end-to-end tests do.
PublishInput ==
    [route |-> "publish", key |-> "right", form |-> "wellFormed", eventType |-> "given",
     source |-> "given", data |-> "given", timestamp |-> "given", ids |-> {"body"}]

\* Everything that differs in one request: all bodies behind the right key, and
\* all routes and keys with the body of PublishInput.
ContentInputs ==
    {i \in AllInputs : i.route = "publish" /\ i.key = "right"}
        \cup [route : Routes, key : Keys, form : Forms, eventType : {"given"}, source : {"given"},
              data : {"given"}, timestamp : {"given"}, ids : {{"body"}}]

\* Requests that end in each of the places a request can end in.
TrafficInputs ==
    {PublishInput,
     [PublishInput EXCEPT !.key = "wrong"],
     [PublishInput EXCEPT !.data = "empty"],
     [PublishInput EXCEPT !.form = "tooLarge"],
     [PublishInput EXCEPT !.route = "unknown"],
     [PublishInput EXCEPT !.route = "health"]}

FourRequests == 1..4

Received == {r \in Requests : pc[r] # "idle"}

InTurn == \A r \in Received : 1..r \subseteq Received

TwoOrAlike ==
    \/ Cardinality(Received) <= 2
    \/ \A r \in Received : input[r] = [PublishInput EXCEPT !.route = "health"]
=============================================================================
