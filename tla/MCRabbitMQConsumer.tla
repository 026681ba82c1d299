------------------------- MODULE MCRabbitMQConsumer -------------------------
(***************************************************************************)
(* Model checking of RabbitMQConsumer: the first of three events is        *)
(* poison, the last one cannot be parsed.                                  *)
(***************************************************************************)
EXTENDS RabbitMQConsumer

MalformedEvents == {3}
PoisonEvents == {1}
=============================================================================
