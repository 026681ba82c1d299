--------------------------- MODULE MCKafkaConsumer ---------------------------
(***************************************************************************)
(* Model checking of KafkaConsumer: of three events the handlers fail for  *)
(* the first and the second cannot be parsed.  One subscription meets a    *)
(* restart and two ends of a generation, two meet one of either.           *)
(***************************************************************************)
EXTENDS KafkaConsumer

MalformedEvents == {2}

FailingEvents == {1}

FewBreaks == reader <= 1 \/ restarts + rebalances <= 1
=============================================================================
