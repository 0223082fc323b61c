------------------------------- MODULE Async -------------------------------
(***************************************************************************)
(* Pistache's promises (include/pistache/async.h): one promise that some    *)
(* threads settle while others attach continuations to it and to the       *)
(* promises that then() returns.                                           *)
(*                                                                         *)
(* Core 0 is the promise.  Continuation k has the core it was attached to  *)
(* (of) and the core of the promise then() returned, its chain_, which is  *)
(* core k.  A callback returns a value, nothing, or a promise that settles *)
(* later; a rejection handler either rethrows (Async::Throw) or returns.   *)
(* Every thread has the stack of the loops over `requests' it is in, since *)
(* a continuation that settles its chain_ loops over the requests of that  *)
(* core in turn.  Callbacks that throw, or call then() on the promise they *)
(* run for, are not modelled.                                              *)
(***************************************************************************)
EXTENDS Integers, Sequences, FiniteSets

CONSTANTS
  Settlers,    \* threads with the Resolver and the Rejection of the promise
  Users,       \* threads that call then()
  NConts,      \* number of calls of then()
  Serialised,  \* TRUE: no other thread is at work while a chained then() runs
  None

Conts == 1 .. NConts
Cores == 0 .. NConts
Threads == Settlers \cup Users

ASSUME AsyncAssumption == NConts \in Nat /\ Serialised \in BOOLEAN

\* A thread that settles and also attaches counts as one of each.
ASSUME ThreadsAssumption == Settlers \cap Users = {} /\ None \notin Threads \cup Cores

Settled == {"Fulfilled", "Rejected"}

VARIABLES
  core,   \* per core: its state, the holder of mtx, its requests
  cont,   \* per continuation: of, kind, onReject, resolveCount, rejectCount; inner:
          \* the promise its callback returned
  th      \* per thread: pc, the core it works on, its continuation, the loops it is in

vars == <<core, cont, th>>

\* A continuation that then() has not made yet.
Unmade == [of |-> None, kind |-> "value", onReject |-> "return",
           resolveCount |-> 0, rejectCount |-> 0, inner |-> "none"]

Idle == [pc |-> "idle", core |-> 0, cont |-> None, how |-> "Fulfilled", loops |-> <<>>]

Init ==
  /\ core = [c \in Cores |-> [state |-> "Pending", mtx |-> None, requests |-> <<>>]]
  /\ cont = [k \in Conts |-> Unmade]
  /\ th = [x \in Threads |-> Idle]

\* A loop over the requests of core c, its end fixed when it starts.
Loop(c, how) == [core |-> c, i |-> 1, n |-> Len(core[c].requests), how |-> how]

\* A chained then() is under way, and what it must not overlap with if the
\* threads serialise themselves.
Chaining == \E u \in Users : th[u].pc # "idle" /\ th[u].core # 0
MayStart(x, c) ==
  Serialised => /\ ~Chaining
                /\ c # 0 => \A y \in Threads \ {x} : th[y].pc = "idle"

-----------------------------------------------------------------------------
\* Mutant: the state is not looked at.
SettleUnchecked(x, how) ==
  /\ th[x].pc = "idle"
  /\ MayStart(x, 0)
  /\ th' = [th EXCEPT ![x].pc = "settle", ![x].core = 0, ![x].how = how]
  /\ UNCHANGED <<core, cont>>

\* Resolver::operator() and Rejection::operator(): the look at the state, which
\* throws if the promise is settled, is not under the lock ...
Settle(x, how) ==
  /\ th[x].pc = "idle"
  /\ MayStart(x, 0)
  /\ core[0].state = "Pending"
  /\ th' = [th EXCEPT ![x].pc = "settle", ![x].core = 0, ![x].how = how]
  /\ UNCHANGED <<core, cont>>

\* ... under which the state is set and the requests are run.
SettleLocked(x) ==
  /\ th[x].pc = "settle"
  /\ core[0].mtx = None
  /\ core' = [core EXCEPT ![0].mtx = x, ![0].state = th[x].how]
  /\ th' = [th EXCEPT ![x].pc = "run", ![x].loops = <<Loop(0, th[x].how)>>]
  /\ UNCHANGED cont

-----------------------------------------------------------------------------
\* Promise::then() makes the next continuation ...
Then(u, c, kind, onReject) ==
  LET made == {k \in Conts : cont[k].of # None}
      k == Cardinality(made) + 1
  IN
  /\ th[u].pc = "idle"
  /\ MayStart(u, c)
  /\ k \in Conts
  /\ c \in made \cup {0}
  /\ cont' = [cont EXCEPT ![k].of = c, ![k].kind = kind, ![k].onReject = onReject]
  /\ th' = [th EXCEPT ![u].pc = "then", ![u].core = c, ![u].cont = k]
  /\ UNCHANGED core

\* ... locks mtx
ThenLock(u) ==
  /\ th[u].pc = "then"
  /\ core[th[u].core].mtx = None
  /\ core' = [core EXCEPT ![th[u].core].mtx = u]
  /\ th' = [th EXCEPT ![u].pc = "attach"]
  /\ UNCHANGED cont

\* Continuable::resolve and reject of continuation k, on thread x whose other
\* loops are `loops'.  A callback that returns a value fulfils chain_ and a
\* handler that throws rejects it; the requests of chain_ are then run, without
\* the mtx of chain_.
Invoke(x, k, how, loops) ==
  LET fresh == IF how = "Fulfilled" THEN cont[k].resolveCount = 0 ELSE cont[k].rejectCount = 0
      settles == fresh /\ IF how = "Fulfilled" THEN cont[k].kind = "value"
                          ELSE cont[k].onReject = "throw"
  IN
  /\ cont' = [cont EXCEPT
       ![k].resolveCount = IF fresh /\ how = "Fulfilled" THEN @ + 1 ELSE @,
       ![k].rejectCount = IF fresh /\ how = "Rejected" THEN @ + 1 ELSE @,
       ![k].inner = IF fresh /\ how = "Fulfilled" /\ cont[k].kind = "promise"
                    THEN "pending" ELSE @]
  /\ core' = [core EXCEPT ![k].state = IF settles THEN how ELSE @]
  /\ th' = [th EXCEPT ![x].pc = "run",
                      ![x].loops = IF settles THEN <<Loop(k, how)>> \o loops ELSE loops]

\* Mutant: a settled promise does not run a new continuation.
ThenAttachLate(u) ==
  /\ th[u].pc = "attach"
  /\ th' = [th EXCEPT ![u].pc = "push"]
  /\ UNCHANGED <<core, cont>>

\* and, if the promise is settled, runs it at once;
ThenAttach(u) ==
  /\ th[u].pc = "attach"
  /\ IF core[th[u].core].state \in Settled
       THEN Invoke(u, th[u].cont, core[th[u].core].state, <<>>)
       ELSE th' = [th EXCEPT ![u].pc = "push"] /\ UNCHANGED <<core, cont>>

\* Mutant: what is pushed has been moved from.
ThenPushMoved(u) ==
  /\ th[u].pc = "push"
  /\ core' = [core EXCEPT ![th[u].core].mtx = None, ![th[u].core].requests = Append(@, None)]
  /\ th' = [th EXCEPT ![u] = Idle]
  /\ UNCHANGED cont

\* it joins the requests in any case.
ThenPush(u) ==
  LET c == th[u].core IN
  /\ th[u].pc = "push"
  /\ core' = [core EXCEPT ![c].mtx = None, ![c].requests = Append(@, th[u].cont)]
  /\ th' = [th EXCEPT ![u] = Idle]
  /\ UNCHANGED cont

-----------------------------------------------------------------------------
\* Mutant: the loop of a rejection calls resolve.
RunNextResolves(x) ==
  LET loop == Head(th[x].loops)
      next == [loop EXCEPT !.i = @ + 1]
  IN
  /\ th[x].pc = "run"
  /\ th[x].loops # <<>>
  /\ loop.i <= loop.n
  /\ Invoke(x, core[loop.core].requests[loop.i], "Fulfilled", <<next>> \o Tail(th[x].loops))

\* The innermost loop of a thread calls its next request ...
RunNext(x) ==
  LET loop == Head(th[x].loops)
      next == [loop EXCEPT !.i = @ + 1]
  IN
  /\ th[x].pc = "run"
  /\ th[x].loops # <<>>
  /\ loop.i <= loop.n
  /\ Invoke(x, core[loop.core].requests[loop.i], loop.how, <<next>> \o Tail(th[x].loops))

\* ... or is over.
RunEnd(x) ==
  /\ th[x].pc = "run"
  /\ th[x].loops # <<>>
  /\ Head(th[x].loops).i > Head(th[x].loops).n
  /\ th' = [th EXCEPT ![x].loops = Tail(@)]
  /\ UNCHANGED <<core, cont>>

\* The settling call unlocks and returns; then() goes on to push.
RunDone(x) ==
  LET c == th[x].core IN
  /\ th[x].pc = "run"
  /\ th[x].loops = <<>>
  /\ IF x \in Users
       THEN th' = [th EXCEPT ![x].pc = "push"] /\ UNCHANGED core
       ELSE /\ core' = [core EXCEPT ![c].mtx = IF @ = x THEN None ELSE @]
            /\ th' = [th EXCEPT ![x] = Idle]
  /\ UNCHANGED cont

\* The promise that the callback of continuation k returned is settled: its own
\* continuation, the Chainer or the handler beside it, settles chain_ and runs
\* the requests of chain_, again without the mtx of chain_.
SettleInner(x, k, how) ==
  /\ th[x].pc = "idle"
  /\ MayStart(x, 0)
  /\ cont[k].inner = "pending"
  /\ cont' = [cont EXCEPT ![k].inner = "settled"]
  /\ core' = [core EXCEPT ![k].state = how]
  /\ th' = [th EXCEPT ![x].pc = "run", ![x].core = k, ![x].loops = <<Loop(k, how)>>]

-----------------------------------------------------------------------------
Work(x) ==
  \/ x \in Settlers /\ SettleLocked(x)
  \/ x \in Users /\ (ThenLock(x) \/ ThenAttach(x) \/ ThenPush(x))
  \/ RunNext(x)
  \/ RunEnd(x)
  \/ RunDone(x)

Next ==
  \/ \E x \in Settlers, how \in Settled :
       Settle(x, how) \/ \E k \in Conts : SettleInner(x, k, how)
  \/ \E u \in Users, c \in Cores, kind \in {"value", "void", "promise"},
        onReject \in {"throw", "return"} : Then(u, c, kind, onReject)
  \/ \E x \in Threads : Work(x)

Spec == Init /\ [][Next]_vars

\* A thread inside then(), a Resolver or a Rejection goes on; nobody is obliged
\* to call one.
FairSpec == Spec /\ \A x \in Threads : WF_vars(Work(x))

-----------------------------------------------------------------------------
TypeOK ==
  /\ core \in [Cores -> [state : {"Pending"} \cup Settled, mtx : Threads \cup {None},
                         requests : Seq(Conts)]]
  /\ cont \in [Conts ->
       [of : Cores \cup {None}, kind : {"value", "void", "promise"},
        onReject : {"throw", "return"}, resolveCount : Nat, rejectCount : Nat,
        inner : {"none", "pending", "settled"}]]
  /\ th \in [Threads ->
       [pc : {"idle", "settle", "then", "attach", "push", "run"}, core : Cores,
        cont : Conts \cup {None}, how : Settled,
        loops : Seq([core : Cores, i : Nat, n : Nat, how : Settled])]]

\* A continuation runs once at the most, although it stays among the requests
\* after then() has run it, and on the side its promise took: the callback for
\* a fulfilled one, the handler for a rejected one.
ContinuationsOnce ==
  \A k \in Conts :
    /\ cont[k].resolveCount + cont[k].rejectCount <= 1
    /\ cont[k].resolveCount = 1 => core[cont[k].of].state = "Fulfilled"
    /\ cont[k].rejectCount = 1 => core[cont[k].of].state = "Rejected"

\* What every state keeps: the types, and no continuation run twice or on the
\* wrong side.
AsyncSound == TypeOK /\ ContinuationsOnce

\* A settled promise stays as it is ("Attempt to resolve a fulfilled promise").
SettledOnce ==
  [][\A c \in Cores : core[c].state \in Settled => core'[c].state = core[c].state]_vars

\* Every continuation of a promise that is settled runs, whichever came first,
\* the settling or the then().
EveryContinuationRuns ==
  \A k \in Conts :
    (cont[k].of # None /\ core[cont[k].of].state \in Settled)
      ~> (cont[k].resolveCount + cont[k].rejectCount >= 1)
=============================================================================
