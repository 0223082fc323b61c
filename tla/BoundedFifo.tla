---------------------------- MODULE BoundedFifo ----------------------------
(***************************************************************************)
(* What a bounded queue shared by threads promises: values leave in the    *)
(* order in which they were accepted, each to exactly one thread, and      *)
(* never more than Capacity of them are inside.  The queue is kept as the  *)
(* log of all accepted values with a cursor behind the last one taken.     *)
(***************************************************************************)
EXTENDS Naturals, Sequences

CONSTANTS Threads, Values, Capacity, Nothing

VARIABLES
  log,    \* every value accepted so far, oldest first
  taken,  \* how many of them have left
  hand    \* the value a thread has taken and not yet returned to its caller

Init ==
  /\ log = <<>>
  /\ taken = 0
  /\ hand = [t \in Threads |-> Nothing]

Put(v) ==
  /\ Len(log) < taken + Capacity
  /\ log' = Append(log, v)
  /\ UNCHANGED <<taken, hand>>

Take(t) ==
  /\ taken < Len(log)
  /\ hand[t] = Nothing
  /\ taken' = taken + 1
  /\ hand' = [hand EXCEPT ![t] = log[taken + 1]]
  /\ UNCHANGED log

Return(t) ==
  /\ hand[t] # Nothing
  /\ hand' = [hand EXCEPT ![t] = Nothing]
  /\ UNCHANGED <<log, taken>>

Next ==
  \/ \E v \in Values : Put(v)
  \/ \E t \in Threads : Take(t) \/ Return(t)

Spec == Init /\ [][Next]_<<log, taken, hand>>
=============================================================================
