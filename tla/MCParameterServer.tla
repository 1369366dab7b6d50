-------------------------- MODULE MCParameterServer --------------------------
(* ParameterServer for TLC: two ports, zero, and a number that is no port.  *)
EXTENDS ParameterServer

Args == {0, 10000, 10001, 65536}
=============================================================================
