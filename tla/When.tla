-------------------------------- MODULE When --------------------------------
(***************************************************************************)
(* whenAll and whenAny of include/pistache/async.h: continuations on every *)
(* promise of a list share one Data, under whose mutex they count and      *)
(* settle the combined promise.  The promises are settled by any threads,  *)
(* before, during and after the loop that attaches the continuations.      *)
(***************************************************************************)
EXTENDS Integers, FiniteSets

CONSTANTS
  N,          \* number of promises
  Policies    \* "all": whenAll(args...), "range": whenAll(first, last), "any": whenAny

ASSUME WhenAssumption == N \in Nat \ {0} /\ Policies \subseteq {"all", "range", "any"}

Promises == 1 .. N

VARIABLES
  policy,
  src,       \* per promise, its state
  attached,  \* how many have their continuation
  due,       \* promises whose continuation is being called
  data,      \* Data: resolved, closed (rejected or done), results
  outer,     \* the combined promise
  thrown     \* promises whose settling thread got an exception out of the continuation

vars == <<policy, src, attached, due, data, outer, thrown>>

Init ==
  /\ policy \in Policies
  /\ src = [i \in Promises |-> "Pending"]
  /\ attached = 0
  /\ due = {}
  /\ data = [resolved |-> 0, closed |-> FALSE, results |-> {}]
  /\ outer = "Pending"
  /\ thrown = {}

\* A promise is settled, once, by whichever thread has its Resolver.
Settle(i, how) ==
  /\ src[i] = "Pending"
  /\ src' = [src EXCEPT ![i] = how]
  /\ due' = IF i <= attached THEN due \cup {i} ELSE due
  /\ UNCHANGED <<policy, attached, data, outer, thrown>>

\* then() on the next promise; a settled one calls the continuation at once.
Attach ==
  LET i == attached + 1 IN
  /\ i \in Promises
  /\ attached' = i
  /\ due' = IF src[i] # "Pending" THEN due \cup {i} ELSE due
  /\ UNCHANGED <<policy, src, data, outer, thrown>>

\* data->resolve or data->reject: a combined promise that is settled throws.
SettleOuter(i, how) ==
  /\ outer' = IF outer = "Pending" THEN how ELSE outer
  /\ thrown' = IF outer = "Pending" THEN thrown ELSE thrown \cup {i}

\* Mutant: a continuation may be called again.
CallAgain(i) == i \in due /\ UNCHANGED <<policy, src, attached, due>>

\* The continuation of promise i is called.
Call(i) == i \in due /\ due' = due \ {i} /\ UNCHANGED <<policy, src, attached>>

\* Mutant: the results are taken to be complete one early.
ResolveAllEarly(i) ==
  /\ Call(i)
  /\ src[i] = "Fulfilled"
  /\ policy \in {"all", "range"}
  /\ IF data.closed THEN UNCHANGED <<data, outer, thrown>>
     ELSE /\ data' = [data EXCEPT !.results = @ \cup {i}, !.resolved = @ + 1]
          /\ IF data.resolved + 2 = N THEN SettleOuter(i, "Fulfilled")
             ELSE UNCHANGED <<outer, thrown>>

\* Mutant: the count is compared before it is raised.
ResolveAllStale(i) ==
  /\ Call(i)
  /\ src[i] = "Fulfilled"
  /\ policy \in {"all", "range"}
  /\ IF data.closed THEN UNCHANGED <<data, outer, thrown>>
     ELSE /\ data' = [data EXCEPT !.results = @ \cup {i}, !.resolved = @ + 1]
          /\ IF data.resolved = N THEN SettleOuter(i, "Fulfilled")
             ELSE UNCHANGED <<outer, thrown>>

\* resolveT and resolveVoid of whenAll, both forms
ResolveAll(i) ==
  /\ Call(i)
  /\ src[i] = "Fulfilled"
  /\ policy \in {"all", "range"}
  /\ IF data.closed THEN UNCHANGED <<data, outer, thrown>>
     ELSE /\ data' = [data EXCEPT !.results = @ \cup {i}, !.resolved = @ + 1]
          /\ IF data.resolved + 1 = N THEN SettleOuter(i, "Fulfilled")
             ELSE UNCHANGED <<outer, thrown>>

\* resolveT and resolveVoid of whenAny
ResolveAny(i) ==
  /\ Call(i)
  /\ src[i] = "Fulfilled"
  /\ policy = "any"
  /\ IF data.closed THEN UNCHANGED <<data, outer, thrown>>
     ELSE /\ SettleOuter(i, "Fulfilled")
          /\ data' = [data EXCEPT !.closed = TRUE, !.results = {i}]

\* All::reject and Any::reject do not look whether they are too late.
Reject(i) ==
  /\ Call(i)
  /\ src[i] = "Rejected"
  /\ policy \in {"all", "any"}
  /\ data' = [data EXCEPT !.closed = TRUE]
  /\ SettleOuter(i, "Rejected")

\* Mutant: nor does that of WhenAllRange.
RejectRangeLate(i) ==
  /\ Call(i)
  /\ src[i] = "Rejected"
  /\ policy = "range"
  /\ data' = [data EXCEPT !.closed = TRUE]
  /\ SettleOuter(i, "Rejected")

\* The handler of WhenAllRange does.
RejectRange(i) ==
  /\ Call(i)
  /\ src[i] = "Rejected"
  /\ policy = "range"
  /\ IF data.closed THEN UNCHANGED <<data, outer, thrown>>
     ELSE /\ data' = [data EXCEPT !.closed = TRUE]
          /\ SettleOuter(i, "Rejected")

Handle(i) == ResolveAll(i) \/ ResolveAny(i) \/ Reject(i) \/ RejectRange(i)

Next ==
  \/ Attach
  \/ \E i \in Promises : Handle(i) \/ Settle(i, "Fulfilled") \/ Settle(i, "Rejected")

Spec == Init /\ [][Next]_vars

\* The loop and the continuations go on; a promise need not be settled.
FairSpec == Spec /\ WF_vars(Attach) /\ \A i \in Promises : WF_vars(Handle(i))

-----------------------------------------------------------------------------
TypeOK ==
  /\ policy \in Policies
  /\ src \in [Promises -> {"Pending", "Fulfilled", "Rejected"}]
  /\ attached \in 0 .. N
  /\ due \subseteq Promises
  /\ data \in [resolved : 0 .. N, closed : BOOLEAN, results : SUBSET Promises]
  /\ outer \in {"Pending", "Fulfilled", "Rejected"}
  /\ thrown \subseteq Promises

\* whenAll is fulfilled only with every result in place and every promise
\* fulfilled, whenAny only with the result of a fulfilled one; neither is
\* rejected unless one of the promises is.
OutcomeRight ==
  /\ outer = "Fulfilled" =>
       /\ \A i \in data.results : src[i] = "Fulfilled"
       /\ IF policy = "any" THEN data.results # {} ELSE data.results = Promises
  /\ outer = "Rejected" => \E i \in Promises : src[i] = "Rejected"

\* When all the promises are settled, the combined one is.
WhenSettles ==
  (\A i \in Promises : src[i] # "Pending") ~> (outer # "Pending")

\* Settling one of the promises never throws back at the thread that does it.
NeverThrows == thrown = {}

\* The form of whenAll that takes a range keeps that.
RangeNeverThrows == policy = "range" => NeverThrows
=============================================================================
