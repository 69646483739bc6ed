------------------------------ MODULE MCTerminal ------------------------------
(***************************************************************************)
(* A small instance of Terminal: two orders or positions of other origin,  *)
(* so that one can move while the other stays.                             *)
(***************************************************************************)
EXTENDS Terminal, TLC

CONSTANTS i1, i2

MCItems == {i1, i2}

Symmetry == Permutations(MCItems)
=============================================================================
