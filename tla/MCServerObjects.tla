--------------------------- MODULE MCServerObjects ----------------------------
(* ServerObjects for TLC: two peers and two ports, zero, and a number that   *)
(* is no port.                                                               *)
EXTENDS ServerObjects

Args == {0, 10000, 10001, 65536}
=============================================================================
