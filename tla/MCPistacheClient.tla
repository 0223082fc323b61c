-------------------------- MODULE MCPistacheClient --------------------------
(* Instances of PistacheClient for TLC: the requests and threads are model   *)
(* values, and so interchangeable where no liveness is checked.              *)
EXTENDS PistacheClient, TLC

CONSTANTS u1, u2, t1, t2, r1, r2, r3, r4

\* Requests differ in being timed or not.
Symmetry == Permutations(Users) \cup Permutations(Requests \ Timed) \cup Permutations(Timed)
=============================================================================
