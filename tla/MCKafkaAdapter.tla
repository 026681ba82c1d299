--------------------------- MODULE MCKafkaAdapter ---------------------------
(***************************************************************************)
(* Model checking of KafkaAdapter.  No symmetry: the run checks liveness,  *)
(* too.                                                                    *)
(***************************************************************************)
EXTENDS KafkaAdapter
=============================================================================
