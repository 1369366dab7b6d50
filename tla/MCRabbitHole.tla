---------------------------- MODULE MCRabbitHole -----------------------------
(* RabbitHole for TLC: intervals that stop and that start reconnecting.     *)
EXTENDS RabbitHole

SomeIntervals == {0, 1}
=============================================================================
