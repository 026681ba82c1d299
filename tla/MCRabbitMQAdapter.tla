------------------------- MODULE MCRabbitMQAdapter -------------------------
(***************************************************************************)
(* Model checking of RabbitMQAdapter.  No symmetry: the runs check         *)
(* liveness, too.                                                          *)
(***************************************************************************)
EXTENDS RabbitMQAdapter
=============================================================================
