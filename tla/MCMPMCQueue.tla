---------------------------- MODULE MCMPMCQueue ----------------------------
(***************************************************************************)
(* TLC instance of MPMCQueue.  Threads and values are interchangeable: no  *)
(* definition tells two of them apart.                                     *)
(***************************************************************************)
EXTENDS MPMCQueueProofs, TLC

Symmetry == Permutations(Threads) \cup Permutations(Values)
=============================================================================
