---------------------------- MODULE AsyncProofs ----------------------------
(***************************************************************************)
(* What a Pistache promise keeps for any number of continuations and of    *)
(* threads that attach them, while one thread at most settles it.          *)
(***************************************************************************)
EXTENDS Async, FiniteSetTheorems, TLAPS

\* The look at the state in Settle is not under the lock: two settlers pass it
\* both, and nothing below holds for them.
OneSettler == \A s, t \in Settlers : s = t

Made(k) == cont[k].of # None

\* then() makes continuations one after the other, each for an older core, and
\* one that was not made has done nothing.
Prefix ==
  \A k \in Conts :
    IF Made(k) THEN cont[k].of < k /\ \A j \in 1 .. k : Made(j)
    ELSE cont[k].resolveCount = 0 /\ cont[k].rejectCount = 0

\* The requests of a core are continuations of it.
Requested ==
  \A c \in Cores : \A i \in 1 .. Len(core[c].requests) : cont[core[c].requests[i]].of = c

\* A loop runs over requests that are there, on the side its core took.
GoodLoop(l) == l.i >= 1 /\ l.n <= Len(core[l.core].requests) /\ l.how = core[l.core].state
GoodLoops(loops) == \A i \in 1 .. Len(loops) : GoodLoop(loops[i])
Looping == \A x \in Threads : GoodLoops(th[x].loops)

\* A thread inside then() works for a continuation of its core; the one that
\* is about to settle the promise finds it as it was when it looked.
Threading ==
  \A x \in Threads :
    /\ x \in Users /\ th[x].pc # "idle" => th[x].cont \in Conts /\ cont[th[x].cont].of = th[x].core
    /\ th[x].pc = "settle" => x \in Settlers /\ th[x].core = 0 /\ core[0].state = "Pending"

\* chain_ is settled by the continuation that ran, or by the promise that its
\* callback returned: never by both.
Decided ==
  \A k \in Conts :
    /\ cont[k].resolveCount = 0 /\ cont[k].rejectCount = 0 =>
         core[k].state = "Pending" /\ cont[k].inner = "none"
    /\ cont[k].inner = "pending" => core[k].state = "Pending"

IInv ==
  /\ TypeOK /\ Prefix /\ Requested /\ Looping /\ Threading /\ Decided /\ ContinuationsOnce

\* What a step may not change.
Kept == \A c \in Cores : core[c].state \in Settled => core'[c].state = core[c].state

-----------------------------------------------------------------------------
\* The types by name, so that a step needs to look only at what it changes.
LoopType == [core : Cores, i : Nat, n : Nat, how : Settled]
Stacks == Seq(LoopType)
Requests == Seq(Conts)
CoreType == [state : {"Pending"} \cup Settled, mtx : Threads \cup {None}, requests : Requests]
ContType ==
  [of : Cores \cup {None}, kind : {"value", "void", "promise"}, onReject : {"throw", "return"},
   resolveCount : Nat, rejectCount : Nat, inner : {"none", "pending", "settled"}]
ThreadType ==
  [pc : {"idle", "settle", "then", "attach", "push", "run"}, core : Cores,
   cont : Conts \cup {None}, how : Settled, loops : Stacks]

LEMMA Types ==
  TypeOK <=> /\ core \in [Cores -> CoreType]
             /\ cont \in [Conts -> ContType]
             /\ th \in [Threads -> ThreadType]
BY DEF TypeOK, CoreType, ContType, ThreadType, LoopType, Stacks, Requests

LEMMA TypesPrimed ==
  TypeOK' <=> /\ core' \in [Cores -> CoreType]
              /\ cont' \in [Conts -> ContType]
              /\ th' \in [Threads -> ThreadType]
BY DEF TypeOK, CoreType, ContType, ThreadType, LoopType, Stacks, Requests

LEMMA InitEstablishes == Init => IInv
BY AsyncAssumption, ThreadsAssumption
DEF Init, IInv, TypeOK, Prefix, Made, Requested, Looping, GoodLoops, GoodLoop, Threading,
    Decided, ContinuationsOnce, Idle, Unmade, Conts, Cores, Settled, Threads

LEMMA Segment ==
  ASSUME NEW m \in Nat
  PROVE  IsFiniteSet(1 .. m) /\ Cardinality(1 .. m) = m
BY FS_Interval

\* then() numbers continuations without a gap.
LEMMA NextContinuation ==
  ASSUME Prefix, NEW n \in Conts, n = Cardinality({k \in Conts : Made(k)}) + 1
  PROVE  ~Made(n) /\ \A j \in 1 .. n - 1 : Made(j)
<1>. DEFINE made == {k \in Conts : Made(k)}
<1>1. IsFiniteSet(Conts) /\ IsFiniteSet(made)
  <2>1. IsFiniteSet(Conts)
    BY FS_Interval, AsyncAssumption DEF Conts
  <2>2. made \in SUBSET Conts
    OBVIOUS
  <2>. QED BY <2>1, <2>2, FS_Subset
<1>2. Cardinality(made) \in Nat /\ n = Cardinality(made) + 1
  BY <1>1, FS_CardinalityType
<1>3. ASSUME Made(n) PROVE FALSE
  <2>0. \A j \in 1 .. n : j \in Conts
    BY AsyncAssumption DEF Conts
  <2>1. (1 .. n) \subseteq made
    BY <1>3, <2>0 DEF Prefix
  <2>2. Cardinality(1 .. n) <= Cardinality(made)
    BY <2>1, <1>1, FS_Subset
  <2>3. Cardinality(1 .. n) = n
    BY Segment, <1>2
  <2>. QED BY <2>2, <2>3, <1>2
<1>4. ASSUME NEW j \in 1 .. n - 1, ~Made(j) PROVE FALSE
  <2>1. made \subseteq (1 .. j - 1)
    BY <1>4, AsyncAssumption DEF Prefix, Conts
  <2>2. IsFiniteSet(1 .. j - 1) /\ Cardinality(1 .. j - 1) = j - 1
    <3>1. j - 1 \in Nat
      BY <1>2
    <3>. QED BY <3>1, Segment
  <2>3. Cardinality(made) <= j - 1
    BY <2>1, <2>2, FS_Subset
  <2>. QED BY <2>3, <1>2
<1>. QED BY <1>3, <1>4

LEMMA SettleKeeps ==
  ASSUME IInv, NEW x \in Settlers, NEW how \in Settled, Settle(x, how)
  PROVE  IInv' /\ Kept
<1>. USE DEF IInv, Settle
<1>1. x \in Threads /\ x \notin Users /\ 0 \in Cores
  BY AsyncAssumption, ThreadsAssumption DEF Threads, Cores
<1>2. TypeOK'
  BY <1>1, Types, TypesPrimed, ZenonT(60) DEF ThreadType
<1>3. Prefix' /\ Requested' /\ Decided' /\ ContinuationsOnce' /\ Kept
  BY DEF Prefix, Made, Requested, Decided, ContinuationsOnce, Kept
<1>4. Looping'
  BY <1>1, ZenonT(60) DEF TypeOK, Looping, GoodLoops, GoodLoop
<1>5. Threading'
  BY <1>1, ThreadsAssumption DEF TypeOK, Threading
<1>. QED BY <1>2, <1>3, <1>4, <1>5

\* The only step that settles the promise: the one settler has looked.
LEMMA SettleLockedKeeps ==
  ASSUME OneSettler, IInv, NEW x \in Settlers, SettleLocked(x)
  PROVE  IInv' /\ Kept
<1>1. x \in Threads /\ x \notin Users /\ 0 \in Cores /\ 0 \notin Conts
  BY AsyncAssumption, ThreadsAssumption DEF Threads, Cores, Conts
<1>. DEFINE how == th[x].how
            loop == Loop(0, how)
<1>2. /\ core \in [Cores -> CoreType] /\ th \in [Threads -> ThreadType]
      /\ core[0].state = "Pending" /\ how \in Settled /\ th[x].core = 0
      /\ core[0].requests \in Requests
  BY <1>1, Types DEF IInv, Threading, SettleLocked, ThreadType, CoreType
<1>3. /\ core' = [core EXCEPT ![0].mtx = x, ![0].state = how]
      /\ th' = [th EXCEPT ![x].pc = "run", ![x].loops = <<loop>>]
      /\ cont' = cont
  BY DEF SettleLocked
<1>4. /\ core'[0].state = how
      /\ core'[0].requests = core[0].requests
      /\ \A c \in Cores : c # 0 => core'[c] = core[c]
      /\ core' \in [Cores -> CoreType]
  BY <1>1, <1>2, <1>3, ZenonT(60) DEF CoreType
<1>5. /\ loop \in LoopType /\ loop.i = 1 /\ loop.n = Len(core[0].requests)
      /\ loop.core = 0 /\ loop.how = how
  BY <1>1, <1>2 DEF Loop, LoopType, Requests
<1>6. /\ th'[x].pc = "run" /\ th'[x].loops = <<loop>>
      /\ \A y \in Threads : y # x => th'[y] = th[y]
      /\ th' \in [Threads -> ThreadType]
  <2>1. <<loop>> \in Stacks
    BY <1>5 DEF Stacks
  <2>. HIDE DEF loop
  <2>. QED BY <2>1, <1>1, <1>2, <1>3, ZenonT(60) DEF ThreadType
<1>. HIDE DEF how, loop
<1>7. TypeOK'
  BY <1>3, <1>4, <1>6, Types, TypesPrimed DEF IInv
<1>8. Prefix' /\ Requested'
  <2>1. \A c \in Cores : core'[c].requests = core[c].requests
    BY <1>4
  <2>. QED BY <2>1, <1>3 DEF IInv, Prefix, Made, Requested
<1>9. Decided' /\ ContinuationsOnce' /\ Kept
  <2>1. \A k \in Conts : core'[k] = core[k]
    BY <1>1, <1>4, AsyncAssumption DEF Conts, Cores
  <2>2. Decided'
    BY <2>1, <1>3 DEF IInv, Decided
  <2>3. ContinuationsOnce'
    BY <1>2, <1>3, <1>4 DEF IInv, ContinuationsOnce, Prefix, Made, TypeOK, Settled
  <2>. QED BY <2>2, <2>3, <1>2, <1>4 DEF Kept, Settled
<1>10. Looping'
  <2>1. ASSUME NEW y \in Threads, NEW i \in 1 .. Len(th'[y].loops)
        PROVE  GoodLoop(th[y].loops[i])'
    <3>1. CASE y = x
      <4>1. th'[y].loops[i] = loop
        BY <3>1, <2>1, <1>6
      <4>. QED BY <4>1, <1>2, <1>4, <1>5 DEF GoodLoop, Requests
    <3>2. CASE y # x
      <4>1. th'[y].loops = th[y].loops /\ th[y].loops \in Stacks
        BY <3>2, <1>2, <1>6 DEF ThreadType
      <4>2. GoodLoop(th[y].loops[i]) /\ th[y].loops[i] \in LoopType
        BY <4>1, <2>1 DEF IInv, Looping, GoodLoops, Stacks
      <4>3. th[y].loops[i].core # 0 /\ th[y].loops[i].core \in Cores
        BY <4>2, <1>2 DEF GoodLoop, Settled, LoopType
      <4>. QED BY <4>1, <4>2, <4>3, <1>4 DEF GoodLoop
    <3>. QED BY <3>1, <3>2
  <2>. QED BY <2>1 DEF Looping, GoodLoops
<1>11. Threading'
  BY <1>1, <1>3, <1>6, ThreadsAssumption DEF IInv, OneSettler, Threading
<1>. QED BY <1>7, <1>8, <1>9, <1>10, <1>11 DEF IInv

\* A loop that is under way is not disturbed by a request that joins or by a
\* core that settles.
LEMMA LoopStays ==
  ASSUME NEW l \in LoopType, GoodLoop(l), Kept,
         \A c \in Cores : Len(core[c].requests) <= Len(core'[c].requests),
         core \in [Cores -> CoreType], core' \in [Cores -> CoreType]
  PROVE  l.i >= 1 /\ l.n <= Len(core'[l.core].requests) /\ l.how = core'[l.core].state
<1>1. l.core \in Cores /\ l.n \in Nat /\ l.how \in Settled
  BY DEF LoopType
<1>2. Len(core[l.core].requests) \in Nat /\ Len(core'[l.core].requests) \in Nat
  BY <1>1 DEF CoreType, Requests
<1>. QED BY <1>1, <1>2 DEF GoodLoop, Kept

\* A continuation that runs settles a chain_ that is pending, since nothing ran
\* it before: the two counts cannot both be used, one for each side.
LEMMA InvokeKeeps ==
  ASSUME IInv, NEW x \in Threads, NEW k \in Conts, NEW how \in Settled, NEW loops \in Stacks,
         Made(k), core[cont[k].of].state = how, th[x].pc \in {"attach", "run"},
         \A i \in 1 .. Len(loops) : GoodLoop(loops[i]),
         Invoke(x, k, how, loops)
  PROVE  IInv' /\ Kept
<1>. DEFINE fresh == IF how = "Fulfilled" THEN cont[k].resolveCount = 0
                     ELSE cont[k].rejectCount = 0
            settles == fresh /\ IF how = "Fulfilled" THEN cont[k].kind = "value"
                                ELSE cont[k].onReject = "throw"
            of == cont[k].of
            loop == Loop(k, how)
            stack == IF settles THEN <<loop>> \o loops ELSE loops
<1>1. /\ core \in [Cores -> CoreType] /\ cont \in [Conts -> ContType]
      /\ th \in [Threads -> ThreadType]
  BY Types DEF IInv
<1>2. k \in Cores /\ k # 0 /\ of \in Cores /\ of # k /\ \A j \in Conts : j \in Cores
  <2>1. of \in Cores /\ of < k
    BY <1>1 DEF IInv, Prefix, Made, ContType
  <2>. QED BY <2>1, AsyncAssumption DEF Conts, Cores
<1>3. fresh => /\ cont[k].resolveCount = 0 /\ cont[k].rejectCount = 0
               /\ core[k].state = "Pending" /\ cont[k].inner = "none"
  <2>1. cont[k].resolveCount \in Nat /\ cont[k].rejectCount \in Nat
    BY <1>1 DEF ContType
  <2>2. fresh => cont[k].resolveCount = 0 /\ cont[k].rejectCount = 0
    BY <2>1 DEF IInv, ContinuationsOnce, Settled
  <2>. QED BY <2>2 DEF IInv, Decided
<1>4. /\ core' = [core EXCEPT ![k].state = IF settles THEN how ELSE @]
      /\ cont' = [cont EXCEPT
           ![k].resolveCount = IF fresh /\ how = "Fulfilled" THEN @ + 1 ELSE @,
           ![k].rejectCount = IF fresh /\ how = "Rejected" THEN @ + 1 ELSE @,
           ![k].inner = IF fresh /\ how = "Fulfilled" /\ cont[k].kind = "promise"
                        THEN "pending" ELSE @]
      /\ th' = [th EXCEPT ![x].pc = "run", ![x].loops = stack]
  BY DEF Invoke
<1>5. /\ \A c \in Cores : core'[c].requests = core[c].requests
      /\ \A c \in Cores \ {k} : core'[c] = core[c]
      /\ core'[k].state = IF settles THEN how ELSE core[k].state
      /\ core' \in [Cores -> CoreType]
  <2>. HIDE DEF settles
  <2>. QED BY <1>1, <1>2, <1>4 DEF CoreType
<1>6. /\ \A j \in Conts : cont'[j].of = cont[j].of
      /\ \A j \in Conts \ {k} : cont'[j] = cont[j]
      /\ cont'[k].resolveCount = IF fresh /\ how = "Fulfilled" THEN 1 ELSE cont[k].resolveCount
      /\ cont'[k].rejectCount = IF fresh /\ how = "Rejected" THEN 1 ELSE cont[k].rejectCount
      /\ cont'[k].inner = IF fresh /\ how = "Fulfilled" /\ cont[k].kind = "promise"
                          THEN "pending" ELSE cont[k].inner
      /\ cont' \in [Conts -> ContType]
  <2>1. cont[k] \in ContType /\ cont[k].resolveCount + 1 \in Nat /\ cont[k].rejectCount + 1 \in Nat
    BY <1>1 DEF ContType
  <2>2. fresh => cont[k].resolveCount + 1 = 1 /\ cont[k].rejectCount + 1 = 1
    BY <1>3
  <2>. HIDE DEF fresh
  <2>. QED BY <2>1, <2>2, <1>1, <1>4 DEF ContType
<1>7. /\ loop \in LoopType /\ loop.i = 1 /\ loop.n = Len(core[k].requests)
      /\ loop.core = k /\ loop.how = how
  BY <1>1, <1>2 DEF Loop, LoopType, CoreType, Requests
<1>8. stack \in Stacks
  <2>. HIDE DEF settles, loop
  <2>. QED BY <1>7 DEF Stacks
<1>9. /\ th'[x].pc = "run" /\ th'[x].loops = stack
      /\ th'[x].core = th[x].core /\ th'[x].cont = th[x].cont
      /\ \A y \in Threads : y # x => th'[y] = th[y]
      /\ th' \in [Threads -> ThreadType]
  <2>. HIDE DEF stack
  <2>. QED BY <1>1, <1>4, <1>8, ZenonT(60) DEF ThreadType
<1>10. settles => fresh
  OBVIOUS
<1>11. how = "Fulfilled" \/ how = "Rejected"
  BY DEF Settled
<1>12. cont[k].resolveCount \in Nat /\ cont[k].rejectCount \in Nat
  BY <1>1 DEF ContType
<1>13. settles => ~(how = "Fulfilled" /\ cont[k].kind = "promise")
  OBVIOUS
<1>14. ~fresh => IF how = "Fulfilled" THEN cont[k].resolveCount # 0
                 ELSE cont[k].rejectCount # 0
  OBVIOUS
<1>. HIDE DEF fresh, settles, loop
<1>15. TypeOK' /\ Kept
  BY <1>3, <1>5, <1>6, <1>9, <1>10, TypesPrimed DEF Kept, Settled
<1>16. Prefix'
  <2>1. \A j \in Conts : \A i \in 1 .. j : i \in Conts
    BY AsyncAssumption DEF Conts
  <2>2. \A j \in Conts : Made(j)' <=> Made(j)
    BY <1>6 DEF Made
  <2>3. ASSUME NEW j \in Conts, Made(j)
        PROVE  cont'[j].of < j /\ \A i \in 1 .. j : Made(i)'
    BY <2>1, <2>2, <2>3, <1>6 DEF IInv, Prefix
  <2>4. ASSUME NEW j \in Conts, ~Made(j)
        PROVE  cont'[j].resolveCount = 0 /\ cont'[j].rejectCount = 0
    BY <2>4, <1>6 DEF IInv, Prefix
  <2>. QED BY <2>2, <2>3, <2>4 DEF Prefix
<1>17. Requested'
  <2>1. \A c \in Cores : \A i \in 1 .. Len(core[c].requests) : core[c].requests[i] \in Conts
    BY <1>1 DEF CoreType, Requests
  <2>. QED BY <2>1, <1>5, <1>6 DEF IInv, Requested
<1>18. Looping'
  <2>1. \A l \in LoopType : GoodLoop(l) =>
          l.i >= 1 /\ l.n <= Len(core'[l.core].requests) /\ l.how = core'[l.core].state
    <3>1. \A c \in Cores : Len(core[c].requests) <= Len(core'[c].requests)
      BY <1>1, <1>5 DEF CoreType, Requests
    <3>. QED BY <3>1, <1>1, <1>5, <1>15, LoopStays
  <2>2. ASSUME NEW y \in Threads, NEW i \in 1 .. Len(th'[y].loops)
        PROVE  GoodLoop(th[y].loops[i])'
    <3>1. CASE y # x
      <4>1. th'[y].loops = th[y].loops /\ th[y].loops \in Stacks
        BY <3>1, <1>1, <1>9 DEF ThreadType
      <4>2. GoodLoop(th[y].loops[i]) /\ th[y].loops[i] \in LoopType
        BY <4>1, <2>2 DEF IInv, Looping, GoodLoops, Stacks
      <4>. QED BY <4>1, <4>2, <2>1 DEF GoodLoop
    <3>2. CASE y = x /\ settles /\ i = 1
      <4>1. th'[y].loops[i] = loop
        BY <3>2, <1>9 DEF Stacks
      <4>2. core'[k].requests = core[k].requests /\ core'[k].state = how
        BY <3>2, <1>2, <1>5
      <4>3. Len(core[k].requests) \in Nat
        BY <1>1, <1>2 DEF CoreType, Requests
      <4>. QED BY <4>1, <4>2, <4>3, <1>7 DEF GoodLoop
    <3>3. CASE y = x /\ ~(settles /\ i = 1)
      <4>1. \E j \in 1 .. Len(loops) : th'[y].loops[i] = loops[j]
        BY <3>3, <2>2, <1>9 DEF Stacks
      <4>2. PICK j \in 1 .. Len(loops) : th'[y].loops[i] = loops[j]
        BY <4>1
      <4>3. GoodLoop(loops[j]) /\ loops[j] \in LoopType
        BY <4>2 DEF Stacks
      <4>. QED BY <4>2, <4>3, <2>1 DEF GoodLoop
    <3>. QED BY <3>1, <3>2, <3>3
  <2>. QED BY <2>2 DEF Looping, GoodLoops
<1>19. Threading'
  <2>1. core'[0] = core[0]
    BY <1>2, <1>5, AsyncAssumption DEF Cores
  <2>2. ASSUME NEW y \in Threads PROVE y \in Users /\ th'[y].pc # "idle" =>
          th'[y].cont \in Conts /\ cont'[th'[y].cont].of = th'[y].core
    BY <1>6, <1>9 DEF IInv, Threading
  <2>3. ASSUME NEW y \in Threads, th'[y].pc = "settle"
        PROVE  y \in Settlers /\ th'[y].core = 0 /\ core'[0].state = "Pending"
    BY <2>1, <2>3, <1>9 DEF IInv, Threading
  <2>. QED BY <2>2, <2>3 DEF Threading
<1>20. Decided'
  <2>1. ASSUME NEW j \in Conts, j # k
        PROVE  cont'[j] = cont[j] /\ core'[j] = core[j]
    BY <2>1, <1>2, <1>5, <1>6
  <2>2. ~(cont'[k].resolveCount = 0 /\ cont'[k].rejectCount = 0)
    BY <1>6, <1>11, <1>14
  <2>3. cont'[k].inner = "pending" => core'[k].state = "Pending"
    BY <1>3, <1>5, <1>6, <1>10, <1>13 DEF IInv, Decided
  <2>. QED BY <2>1, <2>2, <2>3 DEF IInv, Decided
<1>21. ContinuationsOnce'
  <2>1. core'[of] = core[of] /\ core[of].state = how /\ cont'[k].of = of
    BY <1>2, <1>5, <1>6
  <2>2. /\ cont'[k].resolveCount + cont'[k].rejectCount <= 1
        /\ cont'[k].resolveCount = 1 => core'[cont'[k].of].state = "Fulfilled"
        /\ cont'[k].rejectCount = 1 => core'[cont'[k].of].state = "Rejected"
    <3>1. /\ cont[k].resolveCount + cont[k].rejectCount <= 1
          /\ cont[k].resolveCount = 1 => how = "Fulfilled"
          /\ cont[k].rejectCount = 1 => how = "Rejected"
      BY <2>1 DEF IInv, ContinuationsOnce
    <3>2. CASE fresh
      BY <3>2, <2>1, <1>3, <1>6, <1>11
    <3>3. CASE ~fresh
      <4>1. /\ cont'[k].resolveCount = cont[k].resolveCount
            /\ cont'[k].rejectCount = cont[k].rejectCount
        BY <3>3, <1>6
      <4>. QED BY <4>1, <3>1, <2>1
    <3>. QED BY <3>2, <3>3
  <2>3. ASSUME NEW j \in Conts, j # k
        PROVE  /\ cont'[j].resolveCount + cont'[j].rejectCount <= 1
               /\ cont'[j].resolveCount = 1 => core'[cont'[j].of].state = "Fulfilled"
               /\ cont'[j].rejectCount = 1 => core'[cont'[j].of].state = "Rejected"
    <3>1. cont'[j] = cont[j]
      BY <2>3, <1>6
    <3>2. CASE Made(j)
      <4>1. cont[j].of \in Cores
        BY <3>2, <1>1 DEF ContType, Made
      <4>. QED BY <3>1, <4>1, <1>15 DEF IInv, ContinuationsOnce, Kept, Settled
    <3>3. CASE ~Made(j)
      BY <3>1, <3>3 DEF IInv, Prefix
    <3>. QED BY <3>2, <3>3
  <2>. QED BY <2>2, <2>3 DEF ContinuationsOnce
<1>. QED BY <1>15, <1>16, <1>17, <1>18, <1>19, <1>20, <1>21 DEF IInv

-----------------------------------------------------------------------------
\* The steps that settle nothing and run nothing leave most of the invariant
\* as it is: the cores keep their states, and requests only join.
LEMMA QuietStep ==
  ASSUME IInv, TypeOK', Prefix', Requested', Threading',
         \A c \in Cores : /\ core'[c].state = core[c].state
                          /\ Len(core[c].requests) <= Len(core'[c].requests),
         \A k \in Conts : /\ cont'[k].resolveCount = cont[k].resolveCount
                          /\ cont'[k].rejectCount = cont[k].rejectCount
                          /\ cont'[k].inner = cont[k].inner
                          /\ Made(k) => cont'[k].of = cont[k].of,
         \A x \in Threads : \/ th'[x].loops \in {th[x].loops, <<>>}
                            \/ th[x].loops # <<>> /\ th'[x].loops = Tail(th[x].loops)
  PROVE  IInv' /\ Kept
<1>1. /\ core \in [Cores -> CoreType] /\ cont \in [Conts -> ContType]
      /\ th \in [Threads -> ThreadType] /\ core' \in [Cores -> CoreType]
  BY Types, TypesPrimed DEF IInv
<1>2. Kept
  BY DEF Kept
<1>3. \A k \in Conts : k \in Cores
  BY AsyncAssumption DEF Conts, Cores
<1>4. Decided'
  BY <1>3 DEF IInv, Decided
<1>5. ContinuationsOnce'
  <2>1. ASSUME NEW k \in Conts
        PROVE  /\ cont'[k].resolveCount + cont'[k].rejectCount <= 1
               /\ cont'[k].resolveCount = 1 => core'[cont'[k].of].state = "Fulfilled"
               /\ cont'[k].rejectCount = 1 => core'[cont'[k].of].state = "Rejected"
    <3>1. CASE Made(k)
      <4>1. cont[k].of \in Cores
        BY <3>1, <1>1 DEF ContType, Made
      <4>. QED BY <3>1, <4>1 DEF IInv, ContinuationsOnce
    <3>2. CASE ~Made(k)
      BY <3>2 DEF IInv, Prefix
    <3>. QED BY <3>1, <3>2
  <2>. QED BY <2>1 DEF ContinuationsOnce
<1>6. Looping'
  <2>1. ASSUME NEW x \in Threads, NEW i \in 1 .. Len(th'[x].loops)
        PROVE  GoodLoop(th[x].loops[i])'
    <3>1. th[x].loops \in Stacks
      BY <1>1 DEF ThreadType
    <3>2. \E j \in 1 .. Len(th[x].loops) : th'[x].loops[i] = th[x].loops[j]
      <4>1. CASE th'[x].loops = th[x].loops
        BY <4>1, <2>1
      <4>2. CASE th'[x].loops = <<>>
        BY <4>2, <2>1
      <4>3. CASE th'[x].loops = Tail(th[x].loops) /\ th[x].loops # <<>>
        <5>1. i + 1 \in 1 .. Len(th[x].loops) /\ th'[x].loops[i] = th[x].loops[i + 1]
          BY <4>3, <3>1, <2>1 DEF Stacks
        <5>. QED BY <5>1
      <4>. QED BY <4>1, <4>2, <4>3
    <3>3. PICK j \in 1 .. Len(th[x].loops) : th'[x].loops[i] = th[x].loops[j]
      BY <3>2
    <3>4. GoodLoop(th[x].loops[j]) /\ th[x].loops[j] \in LoopType
      BY <3>1, <3>3 DEF IInv, Looping, GoodLoops, Stacks
    <3>. QED BY <3>3, <3>4, <1>1, <1>2, LoopStays DEF GoodLoop
  <2>. QED BY <2>1 DEF Looping, GoodLoops
<1>. QED BY <1>2, <1>4, <1>5, <1>6 DEF IInv

LEMMA ThenKeeps ==
  ASSUME IInv, NEW u \in Users, NEW c \in Cores, NEW kind \in {"value", "void", "promise"},
         NEW onReject \in {"throw", "return"}, Then(u, c, kind, onReject)
  PROVE  IInv' /\ Kept
<1>. DEFINE n == Cardinality({k \in Conts : Made(k)}) + 1
<1>1. /\ n \in Conts /\ (c = 0 \/ (Made(c) /\ c \in Conts))
      /\ cont' = [cont EXCEPT ![n].of = c, ![n].kind = kind, ![n].onReject = onReject]
      /\ th' = [th EXCEPT ![u].pc = "then", ![u].core = c, ![u].cont = n]
      /\ core' = core
  BY DEF Then, Made
<1>2. ~Made(n) /\ \A j \in 1 .. n - 1 : Made(j)
  BY <1>1, NextContinuation DEF IInv
<1>. HIDE DEF n
<1>3. /\ cont \in [Conts -> ContType] /\ th \in [Threads -> ThreadType] /\ u \in Threads
  BY Types DEF IInv, Threads
<1>4. n # 0 /\ c < n /\ n \in Int /\ c # None
  <2>1. n \in 1 .. NConts /\ c \in 0 .. NConts
    BY <1>1 DEF Conts, Cores
  <2>2. ~(c >= n)
    <3>1. c \in Conts /\ c >= n => FALSE
      BY <1>1, <1>2, <2>1, AsyncAssumption DEF IInv, Prefix, Conts
    <3>. QED BY <3>1, <1>1, <2>1, AsyncAssumption
  <2>. QED BY <2>1, <2>2, ThreadsAssumption, AsyncAssumption
<1>5. /\ cont'[n].of = c
      /\ cont'[n].resolveCount = cont[n].resolveCount /\ cont'[n].rejectCount = cont[n].rejectCount
      /\ cont'[n].inner = cont[n].inner
      /\ \A k \in Conts \ {n} : cont'[k] = cont[k]
      /\ cont' \in [Conts -> ContType]
  <2>1. [cont[n] EXCEPT !.of = c, !.kind = kind, !.onReject = onReject] \in ContType
    BY <1>1, <1>3 DEF ContType
  <2>2. /\ cont'[n] = [cont[n] EXCEPT !.of = c, !.kind = kind, !.onReject = onReject]
        /\ \A k \in Conts \ {n} : cont'[k] = cont[k]
        /\ cont' \in [Conts -> ContType]
    BY <2>1, <1>1, <1>3
  <2>3. cont[n] \in ContType
    BY <1>1, <1>3
  <2>. QED BY <2>2, <2>3 DEF ContType
<1>6. /\ th'[u].pc = "then" /\ th'[u].core = c /\ th'[u].cont = n
      /\ \A x \in Threads : th'[x].loops = th[x].loops
      /\ \A x \in Threads \ {u} : th'[x] = th[x]
      /\ th' \in [Threads -> ThreadType]
  <2>1. [th[u] EXCEPT !.pc = "then", !.core = c, !.cont = n] \in ThreadType
    BY <1>1, <1>3 DEF ThreadType
  <2>2. /\ th'[u] = [th[u] EXCEPT !.pc = "then", !.core = c, !.cont = n]
        /\ \A x \in Threads \ {u} : th'[x] = th[x]
        /\ th' \in [Threads -> ThreadType]
    BY <2>1, <1>1, <1>3
  <2>3. th[u] \in ThreadType
    BY <1>3
  <2>. QED BY <2>2, <2>3 DEF ThreadType
<1>7. \A k \in Conts : Made(k)' <=> Made(k) \/ k = n
  BY <1>4, <1>5 DEF Made
<1>8. TypeOK'
  BY <1>1, <1>5, <1>6, Types, TypesPrimed DEF IInv
<1>9. Prefix'
  <2>1. \A j \in Conts : \A i \in 1 .. j : i \in Conts
    BY AsyncAssumption DEF Conts
  <2>2. ASSUME NEW j \in Conts, Made(j)
        PROVE  cont'[j].of < j /\ \A i \in 1 .. j : Made(i)'
    BY <2>1, <2>2, <1>2, <1>5, <1>7 DEF IInv, Prefix
  <2>3. cont'[n].of < n /\ \A i \in 1 .. n : Made(i)'
    <3>1. \A i \in 1 .. n : i = n \/ i \in 1 .. n - 1
      BY <1>4
    <3>. QED BY <3>1, <2>1, <1>1, <1>2, <1>4, <1>5, <1>7
  <2>4. ASSUME NEW j \in Conts, ~Made(j), j # n
        PROVE  cont'[j].resolveCount = 0 /\ cont'[j].rejectCount = 0
    BY <2>4, <1>5 DEF IInv, Prefix
  <2>. QED BY <2>2, <2>3, <2>4, <1>7 DEF Prefix
<1>10. Requested'
  <2>1. ASSUME NEW d \in Cores, NEW i \in 1 .. Len(core[d].requests)
        PROVE  cont'[core[d].requests[i]].of = d
    <3>1. core[d].requests[i] \in Conts /\ cont[core[d].requests[i]].of = d
      BY <2>1, Types DEF IInv, Requested, CoreType, Requests
    <3>2. d # None
      BY ThreadsAssumption
    <3>. QED BY <3>1, <3>2, <1>2, <1>5 DEF Made
  <2>. QED BY <2>1, <1>1 DEF Requested
<1>11. Threading'
  <2>1. ASSUME NEW y \in Threads, y \in Users, th'[y].pc # "idle"
        PROVE  th'[y].cont \in Conts /\ cont'[th'[y].cont].of = th'[y].core
    <3>1. CASE y = u
      BY <3>1, <1>1, <1>5, <1>6
    <3>2. CASE y # u
      <4>1. th'[y] = th[y] /\ th[y].cont \in Conts /\ cont[th[y].cont].of = th[y].core
        BY <3>2, <2>1, <1>6 DEF IInv, Threading
      <4>2. th[y].core \in Cores /\ th[y].core # None
        BY <1>3, ThreadsAssumption DEF ThreadType
      <4>. QED BY <4>1, <4>2, <1>2, <1>5 DEF Made
    <3>. QED BY <3>1, <3>2
  <2>2. ASSUME NEW y \in Threads, th'[y].pc = "settle"
        PROVE  y \in Settlers /\ th'[y].core = 0 /\ core'[0].state = "Pending"
    BY <2>2, <1>1, <1>6 DEF IInv, Threading
  <2>. QED BY <2>1, <2>2 DEF Threading
<1>12. \A d \in Cores : Len(core[d].requests) \in Nat
  BY Types DEF IInv, CoreType, Requests
<1>. QED BY <1>1, <1>2, <1>5, <1>6, <1>8, <1>9, <1>10, <1>11, <1>12, QuietStep

LEMMA ThenLockKeeps ==
  ASSUME IInv, NEW u \in Users, ThenLock(u)
  PROVE  IInv' /\ Kept
<1>. DEFINE c == th[u].core
<1>1. /\ th[u].pc = "then" /\ cont' = cont
      /\ core' = [core EXCEPT ![c].mtx = u]
      /\ th' = [th EXCEPT ![u].pc = "attach"]
  BY DEF ThenLock
<1>2. /\ core \in [Cores -> CoreType] /\ th \in [Threads -> ThreadType] /\ u \in Threads
      /\ c \in Cores
  BY Types DEF IInv, Threads, ThreadType
<1>3. /\ \A d \in Cores : core'[d].state = core[d].state /\ core'[d].requests = core[d].requests
      /\ core' \in [Cores -> CoreType]
  BY <1>1, <1>2 DEF CoreType
<1>4. /\ th'[u].pc = "attach"
      /\ \A x \in Threads : /\ th'[x].loops = th[x].loops /\ th'[x].core = th[x].core
                            /\ th'[x].cont = th[x].cont
      /\ \A x \in Threads \ {u} : th'[x] = th[x]
      /\ th' \in [Threads -> ThreadType]
  BY <1>1, <1>2 DEF ThreadType
<1>5. TypeOK'
  BY <1>1, <1>3, <1>4, Types, TypesPrimed DEF IInv
<1>6. Prefix' /\ Requested'
  BY <1>1, <1>3 DEF IInv, Prefix, Made, Requested
<1>7. Threading'
  <2>1. 0 \in Cores
    BY AsyncAssumption DEF Cores
  <2>. QED BY <2>1, <1>1, <1>3, <1>4 DEF IInv, Threading
<1>8. \A d \in Cores : Len(core[d].requests) \in Nat
  BY <1>2 DEF CoreType, Requests
<1>. QED BY <1>1, <1>3, <1>4, <1>5, <1>6, <1>7, <1>8, QuietStep

LEMMA ThenAttachKeeps ==
  ASSUME IInv, NEW u \in Users, ThenAttach(u)
  PROVE  IInv' /\ Kept
<1>. DEFINE c == th[u].core
            k == th[u].cont
<1>1. /\ th[u].pc = "attach" /\ u \in Threads
      /\ core \in [Cores -> CoreType] /\ th \in [Threads -> ThreadType]
      /\ c \in Cores
  BY Types DEF IInv, Threads, ThreadType, ThenAttach
<1>2. k \in Conts /\ cont[k].of = c /\ Made(k)
  BY <1>1, ThreadsAssumption DEF IInv, Threading, Made
<1>3. CASE core[c].state \in Settled
  <2>1. Invoke(u, k, core[c].state, <<>>)
    BY <1>3 DEF ThenAttach
  <2>2. <<>> \in Stacks /\ \A i \in 1 .. Len(<<>>) : GoodLoop(<<>>[i])
    BY DEF Stacks
  <2>. QED BY <1>1, <1>2, <1>3, <2>1, <2>2, InvokeKeeps
<1>4. CASE core[c].state \notin Settled
  <2>1. th' = [th EXCEPT ![u].pc = "push"] /\ core' = core /\ cont' = cont
    BY <1>4 DEF ThenAttach
  <2>2. /\ th'[u].pc = "push"
        /\ \A x \in Threads : /\ th'[x].loops = th[x].loops /\ th'[x].core = th[x].core
                              /\ th'[x].cont = th[x].cont
        /\ \A x \in Threads \ {u} : th'[x] = th[x]
        /\ th' \in [Threads -> ThreadType]
    BY <1>1, <2>1 DEF ThreadType
  <2>3. TypeOK'
    BY <2>1, <2>2, Types, TypesPrimed DEF IInv
  <2>4. Prefix' /\ Requested'
    BY <2>1 DEF IInv, Prefix, Made, Requested
  <2>5. Threading'
    BY <1>1, <2>1, <2>2 DEF IInv, Threading
  <2>6. \A d \in Cores : Len(core[d].requests) \in Nat
    BY <1>1 DEF CoreType, Requests
  <2>. QED BY <2>1, <2>2, <2>3, <2>4, <2>5, <2>6, QuietStep
<1>. QED BY <1>3, <1>4

LEMMA ThenPushKeeps ==
  ASSUME IInv, NEW u \in Users, ThenPush(u)
  PROVE  IInv' /\ Kept
<1>. DEFINE c == th[u].core
            k == th[u].cont
<1>1. /\ th[u].pc = "push" /\ cont' = cont
      /\ core' = [core EXCEPT ![c].mtx = None, ![c].requests = Append(@, k)]
      /\ th' = [th EXCEPT ![u] = Idle]
  BY DEF ThenPush
<1>2. /\ core \in [Cores -> CoreType] /\ th \in [Threads -> ThreadType] /\ u \in Threads
      /\ c \in Cores
  BY Types DEF IInv, Threads, ThreadType
<1>3. k \in Conts /\ cont[k].of = c
  BY <1>1, <1>2 DEF IInv, Threading
<1>4. core[c].requests \in Requests /\ Append(core[c].requests, k) \in Requests
  BY <1>2, <1>3 DEF CoreType, Requests
<1>5. /\ core'[c].requests = Append(core[c].requests, k)
      /\ \A d \in Cores : core'[d].state = core[d].state
      /\ \A d \in Cores \ {c} : core'[d] = core[d]
      /\ core' \in [Cores -> CoreType]
  BY <1>1, <1>2, <1>4 DEF CoreType
<1>6. Idle \in ThreadType
  BY AsyncAssumption DEF Idle, ThreadType, Stacks, Settled, Cores
<1>7. /\ th'[u] = Idle
      /\ \A x \in Threads \ {u} : th'[x] = th[x]
      /\ th' \in [Threads -> ThreadType]
  BY <1>1, <1>2, <1>6
<1>8. TypeOK'
  BY <1>1, <1>5, <1>7, Types, TypesPrimed DEF IInv
<1>9. Requested'
  <2>1. ASSUME NEW d \in Cores, NEW i \in 1 .. Len(core'[d].requests)
        PROVE  cont[core'[d].requests[i]].of = d
    <3>1. CASE d = c
      <4>1. \/ i \in 1 .. Len(core[c].requests) /\ core'[c].requests[i] = core[c].requests[i]
            \/ core'[c].requests[i] = k
        BY <3>1, <2>1, <1>3, <1>4, <1>5 DEF Requests
      <4>. QED BY <3>1, <4>1, <1>3 DEF IInv, Requested
    <3>2. CASE d # c
      BY <3>2, <2>1, <1>5 DEF IInv, Requested
    <3>. QED BY <3>1, <3>2
  <2>. QED BY <2>1, <1>1 DEF Requested
<1>10. Prefix'
  BY <1>1 DEF IInv, Prefix, Made
<1>11. Threading'
  <2>1. 0 \in Cores /\ th'[u].pc = "idle"
    BY <1>7, AsyncAssumption DEF Cores, Idle
  <2>. QED BY <2>1, <1>1, <1>5, <1>7 DEF IInv, Threading
<1>12. \A d \in Cores : Len(core[d].requests) <= Len(core'[d].requests)
  <2>1. \A d \in Cores : core[d].requests \in Requests
    BY <1>2 DEF CoreType
  <2>2. Len(core'[c].requests) = Len(core[c].requests) + 1
    BY <1>3, <1>4, <1>5 DEF Requests
  <2>. QED BY <2>1, <2>2, <1>5 DEF Requests
<1>13. th'[u].loops = <<>>
  BY <1>7 DEF Idle
<1>. QED BY <1>1, <1>5, <1>7, <1>8, <1>9, <1>10, <1>11, <1>12, <1>13, QuietStep

-----------------------------------------------------------------------------
\* The first of the loops of a thread, and the others.
LEMMA LoopsSplit ==
  ASSUME NEW s \in Stacks, s # <<>>, GoodLoops(s)
  PROVE  /\ Head(s) \in LoopType /\ GoodLoop(Head(s))
         /\ Tail(s) \in Stacks /\ GoodLoops(Tail(s))
<1>1. Len(s) \in Nat \ {0} /\ Head(s) = s[1] /\ \A i \in 1 .. Len(s) : s[i] \in LoopType
  BY DEF Stacks
<1>2. 1 \in 1 .. Len(s)
  BY <1>1
<1>3. Tail(s) \in Stacks /\ Len(Tail(s)) = Len(s) - 1 /\ \A i \in 1 .. Len(Tail(s)) : Tail(s)[i] = s[i + 1]
  BY DEF Stacks
<1>4. ASSUME NEW i \in 1 .. Len(Tail(s)) PROVE GoodLoop(Tail(s)[i])
  <2>1. i + 1 \in 1 .. Len(s)
    BY <1>1, <1>3
  <2>. QED BY <1>3, <2>1 DEF GoodLoops
<1>. QED BY <1>1, <1>2, <1>3, <1>4 DEF GoodLoops

LEMMA RequestThere ==
  ASSUME IInv, NEW c \in Cores, NEW i \in Nat, 1 <= i, i <= Len(core[c].requests)
  PROVE  LET k == core[c].requests[i] IN k \in Conts /\ cont[k].of = c
<1>1. core[c].requests \in Seq(Conts)
  BY Types DEF IInv, CoreType, Requests
<1>2. i \in 1 .. Len(core[c].requests)
  BY <1>1
<1>3. core[c].requests[i] \in Conts
  BY <1>1, <1>2
<1>4. cont[core[c].requests[i]].of = c
  BY <1>2 DEF IInv, Requested
<1>. QED BY <1>3, <1>4

\* The request that a loop calls is there and is a continuation of its core.
LEMMA RunNextKeeps ==
  ASSUME IInv, NEW x \in Threads, RunNext(x)
  PROVE  IInv' /\ Kept
<1>. DEFINE loop == Head(th[x].loops)
            next == [loop EXCEPT !.i = @ + 1]
            k == core[loop.core].requests[loop.i]
            loops == <<next>> \o Tail(th[x].loops)
<1>1. /\ th[x].pc = "run" /\ th[x].loops # <<>> /\ loop.i <= loop.n
      /\ Invoke(x, k, loop.how, loops)
  BY DEF RunNext
<1>2. th[x].loops \in Stacks /\ GoodLoops(th[x].loops)
  BY Types DEF IInv, ThreadType, Looping
<1>3. /\ GoodLoop(loop) /\ loop \in LoopType
      /\ Tail(th[x].loops) \in Stacks /\ GoodLoops(Tail(th[x].loops))
  BY <1>1, <1>2, LoopsSplit
<1>4. /\ loop.core \in Cores /\ core[loop.core].requests \in Requests
      /\ loop.how \in Settled /\ loop.i \in Nat /\ loop.n \in Nat
  <2>. HIDE DEF loop
  <2>. QED BY <1>3, Types DEF IInv, CoreType, LoopType
<1>5. k \in Conts /\ cont[k].of = loop.core
  <2>. HIDE DEF loop
  <2>1. 1 <= loop.i /\ loop.i <= loop.n /\ loop.n <= Len(core[loop.core].requests)
    BY <1>1, <1>3, <1>4 DEF GoodLoop
  <2>2. Len(core[loop.core].requests) \in Nat
    BY <1>4 DEF Requests
  <2>3. loop.i <= Len(core[loop.core].requests)
    BY <1>4, <2>1, <2>2
  <2>. QED BY <1>4, <2>1, <2>3, RequestThere
<1>6. Made(k) /\ core[cont[k].of].state = loop.how
  BY <1>3, <1>4, <1>5, ThreadsAssumption DEF GoodLoop, Made
<1>7. next \in LoopType /\ GoodLoop(next)
  BY <1>3 DEF LoopType, GoodLoop
<1>8. Tail(th[x].loops) \in Stacks /\ \A i \in 1 .. Len(Tail(th[x].loops)) : GoodLoop(Tail(th[x].loops)[i])
  BY <1>3 DEF GoodLoops
<1>9. loops \in Stacks /\ \A i \in 1 .. Len(loops) : GoodLoop(loops[i])
  <2>. DEFINE rest == Tail(th[x].loops)
  <2>. HIDE DEF next, rest
  <2>1. <<next>> \o rest \in Stacks /\ Len(<<next>> \o rest) = 1 + Len(rest)
    BY <1>7, <1>8 DEF Stacks, rest
  <2>2. ASSUME NEW i \in 1 .. Len(<<next>> \o rest) PROVE GoodLoop((<<next>> \o rest)[i])
    <3>1. CASE i = 1
      BY <3>1, <2>1, <1>7, <1>8 DEF Stacks, rest
    <3>2. CASE i # 1
      <4>1. i - 1 \in 1 .. Len(rest) /\ (<<next>> \o rest)[i] = rest[i - 1]
        BY <3>2, <2>1, <2>2, <1>7, <1>8 DEF Stacks, rest
      <4>. QED BY <4>1, <1>8 DEF rest
    <3>. QED BY <3>1, <3>2
  <2>. QED BY <2>1, <2>2 DEF rest
<1>. HIDE DEF loop, next, k, loops
<1>. QED BY <1>1, <1>4, <1>5, <1>6, <1>9, InvokeKeeps

LEMMA RunEndKeeps ==
  ASSUME IInv, NEW x \in Threads, RunEnd(x)
  PROVE  IInv' /\ Kept
<1>1. /\ core' = core /\ cont' = cont /\ th[x].pc = "run" /\ th[x].loops # <<>>
      /\ th' = [th EXCEPT ![x].loops = Tail(@)]
  BY DEF RunEnd
<1>2. /\ core \in [Cores -> CoreType] /\ th \in [Threads -> ThreadType]
      /\ Tail(th[x].loops) \in Stacks
  BY <1>1, Types DEF IInv, ThreadType, Stacks
<1>3. /\ th'[x].loops = Tail(th[x].loops)
      /\ \A y \in Threads : /\ th'[y].pc = th[y].pc /\ th'[y].core = th[y].core
                            /\ th'[y].cont = th[y].cont
      /\ \A y \in Threads \ {x} : th'[y] = th[y]
      /\ th' \in [Threads -> ThreadType]
  BY <1>1, <1>2 DEF ThreadType
<1>4. TypeOK'
  BY <1>1, <1>3, Types, TypesPrimed DEF IInv
<1>5. Prefix' /\ Requested' /\ Threading'
  BY <1>1, <1>3 DEF IInv, Prefix, Made, Requested, Threading
<1>6. \A d \in Cores : Len(core[d].requests) \in Nat
  BY <1>2 DEF CoreType, Requests
<1>. QED BY <1>1, <1>3, <1>4, <1>5, <1>6, QuietStep

LEMMA RunDoneKeeps ==
  ASSUME IInv, NEW x \in Threads, RunDone(x)
  PROVE  IInv' /\ Kept
<1>. DEFINE c == th[x].core
<1>1. /\ core \in [Cores -> CoreType] /\ th \in [Threads -> ThreadType] /\ c \in Cores
      /\ cont' = cont /\ th[x].pc = "run" /\ th[x].loops = <<>>
  BY Types DEF IInv, ThreadType, RunDone
<1>2. /\ \/ th'[x] = [th[x] EXCEPT !.pc = "push"]
         \/ th'[x] = Idle /\ x \notin Users
      /\ \A y \in Threads \ {x} : th'[y] = th[y]
      /\ th' \in [Threads -> ThreadType]
  <2>1. Idle \in ThreadType
    BY AsyncAssumption DEF Idle, ThreadType, Stacks, Settled, Cores
  <2>2. [th[x] EXCEPT !.pc = "push"] \in ThreadType
    BY <1>1 DEF ThreadType
  <2>. QED BY <1>1, <2>1, <2>2 DEF RunDone
<1>3. /\ \A d \in Cores : core'[d].state = core[d].state /\ core'[d].requests = core[d].requests
      /\ core' \in [Cores -> CoreType]
  <2>1. core' = core \/ core' = [core EXCEPT ![c].mtx = IF @ = x THEN None ELSE @]
    BY <1>1 DEF RunDone
  <2>2. CASE core' = core
    BY <2>2, <1>1
  <2>3. CASE core' = [core EXCEPT ![c].mtx = IF @ = x THEN None ELSE @]
    BY <2>3, <1>1 DEF CoreType
  <2>. QED BY <2>1, <2>2, <2>3
<1>4. /\ th'[x].loops = <<>> /\ th'[x].pc \in {"push", "idle"}
      /\ x \in Users => th'[x].core = th[x].core /\ th'[x].cont = th[x].cont
  BY <1>1, <1>2 DEF ThreadType, Idle
<1>5. TypeOK'
  BY <1>1, <1>2, <1>3, Types, TypesPrimed DEF IInv
<1>6. Prefix' /\ Requested'
  BY <1>1, <1>3 DEF IInv, Prefix, Made, Requested
<1>7. Threading'
  <2>1. 0 \in Cores
    BY AsyncAssumption DEF Cores
  <2>. QED BY <2>1, <1>1, <1>2, <1>3, <1>4 DEF IInv, Threading
<1>8. \A d \in Cores : Len(core[d].requests) \in Nat
  BY <1>1 DEF CoreType, Requests
<1>. QED BY <1>1, <1>2, <1>3, <1>4, <1>5, <1>6, <1>7, <1>8, QuietStep

\* The promise that a callback returned settles a chain_ that nobody settled.
LEMMA SettleInnerKeeps ==
  ASSUME IInv, NEW x \in Settlers, NEW k \in Conts, NEW how \in Settled,
         SettleInner(x, k, how)
  PROVE  IInv' /\ Kept
<1>. DEFINE loop == Loop(k, how)
<1>1. /\ cont[k].inner = "pending" /\ th[x].pc = "idle"
      /\ cont' = [cont EXCEPT ![k].inner = "settled"]
      /\ core' = [core EXCEPT ![k].state = how]
      /\ th' = [th EXCEPT ![x].pc = "run", ![x].core = k, ![x].loops = <<loop>>]
  BY DEF SettleInner
<1>2. /\ core \in [Cores -> CoreType] /\ cont \in [Conts -> ContType]
      /\ th \in [Threads -> ThreadType] /\ x \in Threads /\ x \notin Users
      /\ \A j \in Conts : j \in Cores /\ j # 0
      /\ 0 \in Cores
  BY Types, ThreadsAssumption, AsyncAssumption DEF IInv, Threads, Conts, Cores
<1>3. core[k].state = "Pending"
  BY <1>1 DEF IInv, Decided
<1>4. /\ core'[k].state = how
      /\ \A c \in Cores : core'[c].requests = core[c].requests
      /\ \A c \in Cores \ {k} : core'[c] = core[c]
      /\ core' \in [Cores -> CoreType]
  BY <1>1, <1>2 DEF CoreType
<1>5. /\ cont'[k].inner = "settled"
      /\ \A j \in Conts : /\ cont'[j].of = cont[j].of
                          /\ cont'[j].resolveCount = cont[j].resolveCount
                          /\ cont'[j].rejectCount = cont[j].rejectCount
      /\ \A j \in Conts \ {k} : cont'[j] = cont[j]
      /\ cont' \in [Conts -> ContType]
  BY <1>1, <1>2 DEF ContType
<1>6. /\ loop \in LoopType /\ loop.i = 1 /\ loop.n = Len(core[k].requests)
      /\ loop.core = k /\ loop.how = how
  BY <1>2 DEF Loop, LoopType, CoreType, Requests
<1>7. /\ th'[x].pc = "run" /\ th'[x].loops = <<loop>>
      /\ \A y \in Threads \ {x} : th'[y] = th[y]
      /\ th' \in [Threads -> ThreadType]
  <2>1. <<loop>> \in Stacks
    BY <1>6 DEF Stacks
  <2>. HIDE DEF loop
  <2>2. [th[x] EXCEPT !.pc = "run", !.core = k, !.loops = <<loop>>] \in ThreadType
    BY <2>1, <1>2 DEF ThreadType
  <2>3. th'[x] = [th[x] EXCEPT !.pc = "run", !.core = k, !.loops = <<loop>>]
    BY <1>1, <1>2
  <2>4. th[x] \in ThreadType
    BY <1>2
  <2>5. th'[x].pc = "run" /\ th'[x].loops = <<loop>>
    BY <2>3, <2>4 DEF ThreadType
  <2>. QED BY <2>2, <2>3, <2>5, <1>1, <1>2
<1>. HIDE DEF loop
<1>8. TypeOK' /\ Kept
  BY <1>3, <1>4, <1>5, <1>7, TypesPrimed DEF Kept, Settled
<1>9. Prefix' /\ Requested'
  <2>1. \A c \in Cores : \A i \in 1 .. Len(core[c].requests) : core[c].requests[i] \in Conts
    BY <1>2 DEF CoreType, Requests
  <2>2. Requested'
    BY <2>1, <1>4, <1>5 DEF IInv, Requested
  <2>3. \A j \in Conts : \A i \in 1 .. j : i \in Conts
    BY AsyncAssumption DEF Conts
  <2>. QED BY <2>2, <2>3, <1>5 DEF IInv, Prefix, Made
<1>10. Decided' /\ Threading'
  <2>1. \A j \in Conts \ {k} : core'[j] = core[j]
    BY <1>2, <1>4
  <2>2. Decided'
    BY <2>1, <1>1, <1>4, <1>5 DEF IInv, Decided
  <2>3. Threading'
    BY <1>2, <1>4, <1>5, <1>7 DEF IInv, Threading
  <2>. QED BY <2>2, <2>3
<1>11. ContinuationsOnce'
  <2>1. ASSUME NEW j \in Conts
        PROVE  /\ cont'[j].resolveCount + cont'[j].rejectCount <= 1
               /\ cont'[j].resolveCount = 1 => core'[cont'[j].of].state = "Fulfilled"
               /\ cont'[j].rejectCount = 1 => core'[cont'[j].of].state = "Rejected"
    <3>1. CASE Made(j)
      <4>1. cont[j].of \in Cores
        BY <3>1, <1>2 DEF ContType, Made
      <4>. QED BY <4>1, <1>5, <1>8 DEF IInv, ContinuationsOnce, Kept, Settled
    <3>2. CASE ~Made(j)
      BY <3>2, <1>5 DEF IInv, Prefix
    <3>. QED BY <3>1, <3>2
  <2>. QED BY <2>1 DEF ContinuationsOnce
<1>12. Looping'
  <2>1. /\ \A c \in Cores : Len(core[c].requests) \in Nat
        /\ \A c \in Cores : Len(core[c].requests) <= Len(core'[c].requests)
    BY <1>2, <1>4 DEF CoreType, Requests
  <2>2. ASSUME NEW y \in Threads, NEW i \in 1 .. Len(th'[y].loops)
        PROVE  GoodLoop(th[y].loops[i])'
    <3>1. CASE y # x
      <4>1. th'[y].loops = th[y].loops /\ th[y].loops \in Stacks
        BY <3>1, <1>2, <1>7 DEF ThreadType
      <4>2. GoodLoop(th[y].loops[i]) /\ th[y].loops[i] \in LoopType
        BY <4>1, <2>2 DEF IInv, Looping, GoodLoops, Stacks
      <4>. QED BY <4>1, <4>2, <2>1, <1>2, <1>4, <1>8, LoopStays DEF GoodLoop
    <3>2. CASE y = x
      <4>1. th'[y].loops[i] = loop
        BY <3>2, <2>2, <1>7
      <4>. QED BY <4>1, <2>1, <1>2, <1>4, <1>6 DEF GoodLoop
    <3>. QED BY <3>1, <3>2
  <2>. QED BY <2>2 DEF Looping, GoodLoops
<1>. QED BY <1>8, <1>9, <1>10, <1>11, <1>12 DEF IInv

-----------------------------------------------------------------------------
LEMMA StepKeeps ==
  ASSUME OneSettler, IInv, [Next]_vars
  PROVE  IInv' /\ (Kept \/ UNCHANGED vars)
<1>1. ASSUME NEW x \in Settlers, NEW how \in Settled, Settle(x, how) PROVE IInv' /\ Kept
  BY <1>1, SettleKeeps
<1>2. ASSUME NEW x \in Settlers, NEW how \in Settled, NEW k \in Conts, SettleInner(x, k, how)
      PROVE  IInv' /\ Kept
  BY <1>2, SettleInnerKeeps
<1>3. ASSUME NEW u \in Users, NEW c \in Cores, NEW kind \in {"value", "void", "promise"},
             NEW onReject \in {"throw", "return"}, Then(u, c, kind, onReject)
      PROVE  IInv' /\ Kept
  BY <1>3, ThenKeeps
<1>4. ASSUME NEW x \in Threads, Work(x) PROVE IInv' /\ Kept
  <2>1. CASE x \in Settlers /\ SettleLocked(x)
    BY <2>1, SettleLockedKeeps
  <2>2. CASE x \in Users /\ (ThenLock(x) \/ ThenAttach(x) \/ ThenPush(x))
    BY <2>2, ThenLockKeeps, ThenAttachKeeps, ThenPushKeeps
  <2>3. CASE RunNext(x) \/ RunEnd(x) \/ RunDone(x)
    BY <2>3, RunNextKeeps, RunEndKeeps, RunDoneKeeps
  <2>. QED BY <1>4, <2>1, <2>2, <2>3 DEF Work
<1>5. ASSUME UNCHANGED vars PROVE IInv'
  <2>1. core' = core /\ cont' = cont /\ th' = th
    BY <1>5 DEF vars
  <2>2. TypeOK'
    BY <2>1, Types, TypesPrimed DEF IInv
  <2>3. Looping'
    BY <2>1 DEF IInv, Looping, GoodLoops, GoodLoop
  <2>. QED
    BY <2>1, <2>2, <2>3
    DEF IInv, Prefix, Made, Requested, Threading, Decided, ContinuationsOnce
<1>. QED BY <1>1, <1>2, <1>3, <1>4, <1>5 DEF Next

\* While one thread at most settles it, a promise runs every continuation once
\* at the most and on the side it took, however many then() calls race with the
\* settling and with each other (Continuable::resolve and reject, the loops of
\* Resolver and Rejection over `requests', Promise::then).
THEOREM AsyncIsSound == ASSUME OneSettler PROVE Spec => []AsyncSound
<1>1. IInv /\ [Next]_vars => IInv'
  BY StepKeeps
<1>2. IInv => AsyncSound
  BY DEF IInv, AsyncSound
<1>. QED BY <1>1, <1>2, InitEstablishes, PTL DEF Spec

\* Under the same assumption no core that is settled changes its state: what
\* the exception of Resolver::operator() stands for holds of chained promises
\* as well, which have no such check.
THEOREM SettledForGood == ASSUME OneSettler PROVE Spec => SettledOnce
<1>1. IInv /\ [Next]_vars => IInv'
  BY StepKeeps
<1>2. IInv /\ [Next]_vars =>
        [\A c \in Cores : core[c].state \in Settled => core'[c].state = core[c].state]_vars
  BY StepKeeps DEF Kept
<1>. QED BY <1>1, <1>2, InitEstablishes, PTL DEF Spec, SettledOnce
=============================================================================
