---------------------------- MODULE MCParameters -----------------------------
(* Parameters for TLC: few ids, of three bits, so that they run out and that *)
(* a number may be cut to one of them.  Symbols are interchangeable.         *)
EXTENDS ParameterLists, TLC

Symmetry == Permutations(Symbol)
=============================================================================
