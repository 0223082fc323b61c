----------------------------- MODULE WhenProofs -----------------------------
(***************************************************************************)
(* What whenAll and whenAny keep for any number of promises.               *)
(***************************************************************************)
EXTENDS When, FiniteSetTheorems, TLAPS

\* Each continuation is called at most once, so `resolved' counts the results
\* that are in place; that is what ties it to N.
Counted ==
  /\ \A i \in due : src[i] # "Pending" /\ i \notin data.results /\ i <= attached
  /\ \A i \in data.results : src[i] = "Fulfilled" /\ i <= attached
  /\ policy # "any" => data.resolved = Cardinality(data.results)

\* A combined promise is settled only when Data is closed or complete.
Closed ==
  policy # "any" /\ outer # "Pending" => data.closed \/ data.results = Promises

IInv == TypeOK /\ Counted /\ Closed /\ OutcomeRight /\ RangeNeverThrows

\* The sets of promises are finite, and a set of N of them is all of them.
LEMMA PromisesFinite ==
  /\ IsFiniteSet(Promises)
  /\ Cardinality(Promises) = N
  /\ \A S \in SUBSET Promises :
       /\ IsFiniteSet(S)
       /\ Cardinality(S) \in 0 .. N
       /\ Cardinality(S) = N => S = Promises
       /\ \A i \in Promises \ S : Cardinality(S \cup {i}) = Cardinality(S) + 1
<1>1. IsFiniteSet(Promises) /\ Cardinality(Promises) = N
  BY FS_Interval, WhenAssumption DEF Promises
<1>2. ASSUME NEW S \in SUBSET Promises
      PROVE  /\ IsFiniteSet(S)
             /\ Cardinality(S) \in 0 .. N
             /\ Cardinality(S) = N => S = Promises
             /\ \A i \in Promises \ S : Cardinality(S \cup {i}) = Cardinality(S) + 1
  <2>1. IsFiniteSet(S) /\ Cardinality(S) <= N /\ (Cardinality(S) = N => S = Promises)
    BY <1>1, FS_Subset
  <2>2. Cardinality(S) \in Nat
    BY <2>1, FS_CardinalityType
  <2>3. \A i \in Promises \ S : Cardinality(S \cup {i}) = Cardinality(S) + 1
    BY <2>1, FS_AddElement
  <2>. QED BY <2>1, <2>2, <2>3, WhenAssumption
<1>. QED BY <1>1, <1>2

LEMMA InitEstablishes == Init => IInv
<1>1. Cardinality({}) = 0
  BY FS_EmptySet
<1>. QED
  BY <1>1, WhenAssumption
  DEF Init, IInv, TypeOK, Counted, Closed, OutcomeRight, RangeNeverThrows, NeverThrows, Promises

\* Settling a promise and attaching a continuation leave Data alone.
LEMMA SettleKeeps ==
  ASSUME IInv, NEW i \in Promises, NEW how \in {"Fulfilled", "Rejected"}, Settle(i, how)
  PROVE  IInv'
<1>. USE DEF IInv, Settle
<1>1. TypeOK'
  BY DEF TypeOK
<1>2. Counted'
  BY DEF TypeOK, Counted
<1>3. OutcomeRight'
  BY DEF TypeOK, Counted, OutcomeRight
<1>. QED BY <1>1, <1>2, <1>3 DEF Closed, RangeNeverThrows, NeverThrows

LEMMA AttachKeeps ==
  ASSUME IInv, Attach
  PROVE  IInv'
<1>. USE DEF IInv, Attach
<1>1. TypeOK'
  BY WhenAssumption DEF TypeOK, Promises
<1>2. Counted'
  BY WhenAssumption DEF TypeOK, Counted, Promises
<1>. QED BY <1>1, <1>2 DEF Closed, OutcomeRight, RangeNeverThrows, NeverThrows

\* The continuation of a fulfilled promise, for both forms of whenAll: the new
\* result is not there yet, so the count and the set grow together.
LEMMA ResolveAllKeeps ==
  ASSUME IInv, NEW i \in Promises, ResolveAll(i)
  PROVE  IInv'
<1>. USE DEF IInv, ResolveAll, Call
<1>1. CASE data.closed
  BY <1>1 DEF TypeOK, Counted, Closed, OutcomeRight, RangeNeverThrows, NeverThrows
<1>2. CASE ~data.closed
  <2>. DEFINE R == data.results \cup {i}
  <2>1. /\ data' = [data EXCEPT !.results = R, !.resolved = @ + 1]
        /\ i \notin data.results
        /\ R \in SUBSET Promises
    BY <1>2 DEF TypeOK, Counted
  <2>2. /\ Cardinality(R) = data.resolved + 1
        /\ Cardinality(R) \in 0 .. N
        /\ Cardinality(R) = N <=> R = Promises
    BY <2>1, PromisesFinite DEF TypeOK, Counted
  <2>3. /\ data'.results = R
        /\ data'.resolved = data.resolved + 1
        /\ data'.closed = data.closed
    BY <2>1 DEF TypeOK
  <2>4. outer = "Pending"
    BY <1>2, <2>1 DEF Closed
  <2>5. TypeOK'
    BY <1>2, <2>1, <2>2, <2>3, <2>4 DEF TypeOK, SettleOuter
  <2>6. Counted'
    BY <2>1, <2>2, <2>3 DEF TypeOK, Counted
  <2>7. /\ (outer' = "Fulfilled" /\ R = Promises) \/ outer' = "Pending"
        /\ thrown' = thrown
    BY <1>2, <2>2, <2>4 DEF SettleOuter
  <2>8. Closed' /\ OutcomeRight' /\ RangeNeverThrows'
    BY <2>3, <2>6, <2>7 DEF Counted, Closed, OutcomeRight, RangeNeverThrows, NeverThrows
  <2>. QED BY <2>5, <2>6, <2>8
<1>. QED BY <1>1, <1>2

LEMMA ResolveAnyKeeps ==
  ASSUME IInv, NEW i \in Promises, ResolveAny(i)
  PROVE  IInv'
<1>. USE DEF IInv, ResolveAny, Call
<1>1. CASE data.closed
  BY <1>1 DEF TypeOK, Counted, Closed, OutcomeRight, RangeNeverThrows, NeverThrows
<1>2. CASE ~data.closed
  <2>. DEFINE D == [resolved : 0 .. N, closed : BOOLEAN, results : SUBSET Promises]
  <2>0. data \in D /\ data' = [data EXCEPT !.closed = TRUE, !.results = {i}]
    BY <1>2 DEF TypeOK
  <2>1. data'.results = {i} /\ data'.resolved = data.resolved /\ data' \in D
    BY <2>0
  <2>2. TypeOK'
    BY <1>2, <2>1 DEF TypeOK, SettleOuter
  <2>3. Counted'
    BY <2>1 DEF TypeOK, Counted
  <2>4. OutcomeRight'
    BY <1>2, <2>1 DEF TypeOK, OutcomeRight, SettleOuter
  <2>. QED BY <2>2, <2>3, <2>4 DEF Closed, RangeNeverThrows
<1>. QED BY <1>1, <1>2

\* A rejection leaves the results alone.
LEMMA RejectKeeps ==
  ASSUME IInv, NEW i \in Promises, Reject(i)
  PROVE  IInv'
BY DEF IInv, Reject, Call, SettleOuter, TypeOK, Counted, Closed, OutcomeRight, RangeNeverThrows

LEMMA RejectRangeKeeps ==
  ASSUME IInv, NEW i \in Promises, RejectRange(i)
  PROVE  IInv'
<1>. USE DEF IInv, RejectRange, Call
<1>1. CASE data.closed
  BY <1>1 DEF TypeOK, Counted, Closed, OutcomeRight, RangeNeverThrows, NeverThrows
<1>2. CASE ~data.closed
  <2>1. i \notin data.results
    BY DEF Counted
  <2>2. outer = "Pending"
    BY <1>2, <2>1 DEF Closed
  <2>. QED
    BY <1>2, <2>2
    DEF TypeOK, Counted, Closed, OutcomeRight, RangeNeverThrows, NeverThrows, SettleOuter
<1>. QED BY <1>1, <1>2

\* The invariant of whenAll and whenAny holds in every reachable state.
THEOREM InvariantHolds == Spec => []IInv
<1>1. IInv /\ [Next]_vars => IInv'
  <2>. SUFFICES ASSUME IInv, [Next]_vars PROVE IInv'
    OBVIOUS
  <2>1. CASE Attach
    BY <2>1, AttachKeeps
  <2>2. ASSUME NEW i \in Promises, Handle(i) PROVE IInv'
    BY <2>2, ResolveAllKeeps, ResolveAnyKeeps, RejectKeeps, RejectRangeKeeps DEF Handle
  <2>3. ASSUME NEW i \in Promises, Settle(i, "Fulfilled") \/ Settle(i, "Rejected") PROVE IInv'
    BY <2>3, SettleKeeps
  <2>4. CASE UNCHANGED vars
    BY <2>4
    DEF vars, IInv, TypeOK, Counted, Closed, OutcomeRight, RangeNeverThrows, NeverThrows
  <2>. QED BY <2>1, <2>2, <2>3, <2>4 DEF Next
<1>. QED BY <1>1, InitEstablishes, PTL DEF Spec

\* Every variable of whenAll and whenAny keeps its type; `resolved' never
\* passes the number of promises.
THEOREM TypeCorrect == Spec => []TypeOK
BY InvariantHolds, PTL DEF IInv

\* The combined promise has the outcome its promises have, however many there
\* are and in whatever order and by whatever threads they are settled.
THEOREM OutcomeIsRight == Spec => []OutcomeRight
BY InvariantHolds, PTL DEF IInv

\* whenAll over a range never makes the settling of one of its promises throw.
THEOREM RangeIsSafe == Spec => []RangeNeverThrows
BY InvariantHolds, PTL DEF IInv
=============================================================================
