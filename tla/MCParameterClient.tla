-------------------------- MODULE MCParameterClient --------------------------
(* ParameterClient for TLC.  Connections are interchangeable, where nothing *)
(* that must happen is checked.                                             *)
EXTENDS ParameterClient, TLC

Symmetry == Permutations(Conn)
=============================================================================
