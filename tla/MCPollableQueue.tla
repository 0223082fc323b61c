-------------------------- MODULE MCPollableQueue --------------------------
(***************************************************************************)
(* TLC instance of PollableQueue.                                          *)
(***************************************************************************)
EXTENDS PollableQueueProofs, TLC
=============================================================================
