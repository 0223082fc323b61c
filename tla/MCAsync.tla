------------------------------ MODULE MCAsync ------------------------------
(* Instances of Async for TLC.                                               *)
EXTENDS Async, TLC

CONSTANTS s1, s2, u1, u2

Symmetry == Permutations(Users) \cup Permutations(Settlers)
=============================================================================
