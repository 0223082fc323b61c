-------------------------- MODULE MPMCQueueProofs --------------------------
(***************************************************************************)
(* The ring of MPMCQueue, proved for every number of threads, values and   *)
(* cells.  The argument follows the life of a ticket i through its cell    *)
(* cellIndex(i): the cell's sequence is i while the ticket is being        *)
(* filled, i+1 while its value waits or is read, and i+Size once it is     *)
(* released to the next lap.                                               *)
(***************************************************************************)
EXTENDS MPMCQueue, TLAPS

\* A thread that claimed a ticket finds its cell in the state of that ticket.
WritersHold ==
  \A t \in Threads : Writing(t) =>
    /\ index[t] < enqueueIndex
    /\ sequence[cellIndex(index[t])] = index[t]

ReadersHold ==
  \A t \in Threads : Reading(t) =>
    /\ index[t] < dequeueIndex
    /\ sequence[cellIndex(index[t])] = index[t] + 1

\* A ticket is claimed once on each side.
TicketsDistinct ==
  \A t, u \in Threads : t # u /\ index[t] = index[u] =>
    /\ ~(Writing(t) /\ Writing(u))
    /\ ~(Reading(t) /\ Reading(u))

Counters ==
  /\ dequeueIndex <= enqueueIndex
  /\ enqueueIndex <= dequeueIndex + Size
  /\ Len(claimed) = enqueueIndex

\* A ticket between the two counters is being filled or is published.
LiveTickets ==
  \A i \in dequeueIndex .. enqueueIndex - 1 :
    \/ sequence[cellIndex(i)] = i + 1
    \/ /\ sequence[cellIndex(i)] = i
       /\ \E t \in Threads : Writing(t) /\ index[t] = i

\* A ticket below both counters is being read or has been released.
DeadTickets ==
  \A i \in 0 .. dequeueIndex - 1 :
    \/ sequence[cellIndex(i)] >= i + Size
    \/ \E t \in Threads : Reading(t) /\ index[t] = i

\* The next lap of tickets has not been reached by its cells.
FutureTickets ==
  \A i \in enqueueIndex .. enqueueIndex + Size - 1 : sequence[cellIndex(i)] <= i

\* A cell's sequence starts at the cell's number and never falls below it.
Fresh == \A c \in Cells : sequence[c] >= c

\* What a thread read before its compare_exchange still holds if that succeeds.
ReadyToClaim ==
  \A t \in Threads :
    /\ pc[t] \in {"enqSeq", "enqLoad", "enqCas"} => index[t] <= enqueueIndex
    /\ pc[t] \in {"deqSeq", "deqLoad", "deqCas"} => index[t] <= dequeueIndex
    /\ pc[t] = "enqCas" /\ index[t] = enqueueIndex =>
         sequence[cellIndex(index[t])] = index[t]
    /\ pc[t] = "deqCas" /\ index[t] = dequeueIndex =>
         sequence[cellIndex(index[t])] = index[t] + 1

\* The value of a ticket travels unharmed from the producer to the consumer.
DataIntact ==
  /\ \A t \in Threads :
       /\ Writing(t) => item[t] = claimed[index[t] + 1]
       /\ pc[t] = "enqPub" => data[cellIndex(index[t])] = claimed[index[t] + 1]
       /\ pc[t] = "deqData" => data[cellIndex(index[t])] = claimed[index[t] + 1]
       /\ pc[t] = "deqPub" => item[t] = claimed[index[t] + 1]
  /\ \A i \in dequeueIndex .. enqueueIndex - 1 :
       sequence[cellIndex(i)] = i + 1 => data[cellIndex(i)] = claimed[i + 1]

Tickets ==
  /\ WritersHold
  /\ ReadersHold
  /\ TicketsDistinct
  /\ Counters
  /\ LiveTickets
  /\ DeadTickets
  /\ FutureTickets
  /\ Fresh
  /\ ReadyToClaim

IInv == TypeOK /\ Tickets /\ DataIntact

-----------------------------------------------------------------------------
\* Arithmetic of the ring: a cell index is a cell, tickets of one cell are at
\* least a lap apart, and a lap leads back to the same cell.
LEMMA CellIsCell == ASSUME NEW i \in Nat PROVE cellIndex(i) \in Cells
  BY SizeAssumption, SMT DEF cellIndex, Cells

LEMMA Division ==
  ASSUME NEW i \in Nat
  PROVE  i \div Size \in Nat /\ i = Size * (i \div Size) + cellIndex(i)
  BY SizeAssumption, SMT DEF cellIndex

LEMMA LapsApart ==
  ASSUME NEW i \in Nat, NEW j \in Nat, i < j, cellIndex(i) = cellIndex(j)
  PROVE  i + Size <= j
  <1> DEFINE p == i \div Size
             q == j \div Size
  <1>0. /\ p \in Nat /\ i = Size * p + cellIndex(i)
        /\ q \in Nat /\ j = Size * q + cellIndex(j)
        /\ cellIndex(i) \in 0 .. Size - 1
    BY Division, CellIsCell DEF Cells
  <1> HIDE DEF p, q
  <1>1. p \in Nat /\ q \in Nat /\ j - i = Size * q - Size * p
    BY <1>0, SizeAssumption, SMT
  <1>2. j - i = Size * (q - p)
    BY <1>1, SizeAssumption, SMT
  <1>3. q - p >= 1
    <2> SUFFICES ASSUME q - p <= 0 PROVE FALSE
      BY <1>1
    <2> QED BY <1>1, <1>2, SizeAssumption, SMT
  <1>4. Size * (q - p) >= Size
    BY <1>1, <1>3, SizeAssumption, SMT
  <1> QED BY <1>1, <1>2, <1>4, SizeAssumption

LEMMA RemainderUnique ==
  ASSUME NEW a \in Nat, NEW b \in Nat, NEW r \in Cells, NEW s \in Cells,
         Size * a + r + Size = Size * b + s
  PROVE  r = s
  <1> USE DEF Cells
  <1>1. Size * (b - a) = Size + r - s
    BY SizeAssumption, SMT
  <1>2. PICK k \in Int : k = b - a
    OBVIOUS
  <1>3. Size * k = Size + r - s
    BY <1>1, <1>2
  <1>4. CASE k = 1
    BY <1>3, <1>4, SizeAssumption
  <1>5. CASE k <= 0
    <2>1. Size * k <= 0
      BY <1>5, SizeAssumption
    <2> QED BY <2>1, <1>3, SizeAssumption
  <1>6. CASE k >= 2
    <2>1. Size * k >= Size * 2
      BY <1>6, SizeAssumption
    <2> QED BY <2>1, <1>3, SizeAssumption
  <1> QED BY <1>4, <1>5, <1>6

LEMMA NextLap == ASSUME NEW i \in Nat PROVE cellIndex(i + Size) = cellIndex(i)
  <1>1. i + Size \in Nat
    BY SizeAssumption
  <1>2. PICK a \in Nat : i = Size * a + cellIndex(i)
    BY Division, Zenon
  <1>3. PICK b \in Nat : i + Size = Size * b + cellIndex(i + Size)
    BY Division, <1>1, Zenon
  <1>4. PICK r \in Cells : r = cellIndex(i)
    BY CellIsCell, Zenon
  <1>5. PICK s \in Cells : s = cellIndex(i + Size)
    BY CellIsCell, <1>1, Zenon
  <1>6. i = Size * a + r /\ i + Size = Size * b + s
    BY <1>2, <1>3, <1>4, <1>5, Zenon
  <1>7. Size * a + r + Size = Size * b + s
    BY <1>6, Zenon
  <1> QED BY <1>7, RemainderUnique, <1>4, <1>5, Zenon

-----------------------------------------------------------------------------
LEMMA TypePreserved == TypeOK /\ [Next]_vars => TypeOK'
  <1> SUFFICES ASSUME TypeOK, [Next]_vars PROVE TypeOK'
    OBVIOUS
  <1> USE DEF TypeOK, Labels, Goto
  <1>1. CASE UNCHANGED vars
    BY <1>1 DEF vars
  <1>2. ASSUME NEW t \in Threads, Step(t) PROVE TypeOK'
    <2> index[t] \in Nat /\ cellIndex(index[t]) \in Cells
      BY CellIsCell
    <2>1. ASSUME NEW v \in Values, EnqueueStart(t, v) PROVE TypeOK'
      BY <2>1 DEF EnqueueStart
    <2>2. CASE EnqueueSeq(t)
      BY <2>2 DEF EnqueueSeq
    <2>3. CASE EnqueueReload(t)
      BY <2>3 DEF EnqueueReload
    <2>4. CASE EnqueueClaim(t)
      BY <2>4 DEF EnqueueClaim
    <2>5. CASE EnqueueCasFail(t)
      BY <2>5 DEF EnqueueCasFail
    <2>6. CASE EnqueueWrite(t)
      BY <2>6 DEF EnqueueWrite
    <2>7. CASE EnqueuePublish(t)
      BY <2>7 DEF EnqueuePublish
    <2>8. CASE DequeueStart(t)
      BY <2>8 DEF DequeueStart
    <2>9. CASE DequeueSeq(t)
      BY <2>9 DEF DequeueSeq
    <2>10. CASE DequeueReload(t)
      BY <2>10 DEF DequeueReload
    <2>11. CASE DequeueClaim(t)
      BY <2>11 DEF DequeueClaim
    <2>12. CASE DequeueCasFail(t)
      BY <2>12 DEF DequeueCasFail
    <2>13. CASE DequeueRead(t)
      BY <2>13 DEF DequeueRead
    <2>14. CASE DequeueRelease(t)
      BY <2>14, SizeAssumption DEF DequeueRelease
    <2> QED
      BY <1>2, <2>1, <2>2, <2>3, <2>4, <2>5, <2>6, <2>7, <2>8, <2>9, <2>10,
         <2>11, <2>12, <2>13, <2>14 DEF Step
  <1> QED BY <1>1, <1>2 DEF Next

\* Every variable keeps its type through every step of enqueue() and dequeue().
THEOREM TypeCorrect == Spec => []TypeOK
  <1>1. Init => TypeOK
    BY SizeAssumption DEF Init, TypeOK, Cells, Labels
  <1> QED BY <1>1, TypePreserved, PTL DEF Spec

-----------------------------------------------------------------------------
\* Threads inside the second half of an operation never share a cell: two
\* writers or two readers would hold one ticket, and the tickets of a writer
\* and a reader of the same cell would be one apart instead of a lap.
LEMMA OwnersApart ==
  ASSUME TypeOK, WritersHold, ReadersHold, TicketsDistinct
  PROVE  CellsExclusive
  <1> SUFFICES ASSUME NEW t \in Threads, NEW u \in Threads, t # u, Owner(t), Owner(u),
                      cellIndex(index[t]) = cellIndex(index[u])
               PROVE  FALSE
    BY DEF CellsExclusive
  <1> index[t] \in Nat /\ index[u] \in Nat
    BY DEF TypeOK
  <1>1. ASSUME NEW w \in Threads, NEW r \in Threads, Writing(w), Reading(r)
        PROVE  cellIndex(index[w]) # cellIndex(index[r])
    <2> SUFFICES ASSUME cellIndex(index[w]) = cellIndex(index[r]) PROVE FALSE
      OBVIOUS
    <2>1. index[w] \in Nat /\ index[r] \in Nat /\ index[w] = index[r] + 1
      BY <1>1 DEF WritersHold, ReadersHold, TypeOK
    <2> QED BY <2>1, LapsApart, SizeAssumption
  <1>2. CASE Writing(t) /\ Writing(u)
    BY <1>2 DEF WritersHold, TicketsDistinct
  <1>3. CASE Reading(t) /\ Reading(u)
    BY <1>3 DEF ReadersHold, TicketsDistinct
  <1> QED BY <1>1, <1>2, <1>3 DEF Owner

\* A ticket being written lies between the two counters.
LEMMA WritersLive ==
  ASSUME IInv, NEW t \in Threads, Writing(t)
  PROVE  index[t] \in dequeueIndex .. enqueueIndex - 1
  <1> index[t] \in Nat /\ dequeueIndex \in Nat /\ enqueueIndex \in Nat
    BY DEF IInv, TypeOK
  <1>1. index[t] < enqueueIndex /\ sequence[cellIndex(index[t])] = index[t]
    BY DEF IInv, Tickets, WritersHold
  <1>2. ASSUME index[t] < dequeueIndex PROVE FALSE
    <2>1. index[t] \in 0 .. dequeueIndex - 1
      BY <1>2
    <2>2. CASE sequence[cellIndex(index[t])] >= index[t] + Size
      BY <1>1, <2>2, SizeAssumption
    <2>3. CASE \E u \in Threads : Reading(u) /\ index[u] = index[t]
      BY <1>1, <2>3 DEF IInv, Tickets, ReadersHold
    <2> QED BY <2>1, <2>2, <2>3 DEF IInv, Tickets, DeadTickets
  <1> QED BY <1>1, <1>2

\* Two live tickets never share a cell.
LEMMA LiveApart ==
  ASSUME IInv, NEW i \in dequeueIndex .. enqueueIndex - 1,
         NEW j \in dequeueIndex .. enqueueIndex - 1, i # j
  PROVE  cellIndex(i) # cellIndex(j)
  <1>1. /\ dequeueIndex \in Nat /\ enqueueIndex \in Nat
        /\ enqueueIndex <= dequeueIndex + Size
    BY DEF IInv, TypeOK, Tickets, Counters
  <1>2. i \in Nat /\ j \in Nat
    BY <1>1
  <1>3. CASE i < j
    BY <1>1, <1>2, <1>3, LapsApart, SizeAssumption
  <1>4. CASE j < i
    BY <1>1, <1>2, <1>4, LapsApart, SizeAssumption
  <1> QED BY <1>2, <1>3, <1>4

-----------------------------------------------------------------------------
LEMMA InitInv == Init => IInv
  <1> SUFFICES ASSUME Init PROVE IInv
    OBVIOUS
  <1> USE DEF Init
  <1>1. TypeOK
    BY SizeAssumption DEF TypeOK, Cells, Labels
  <1>2. FutureTickets
    <2> SUFFICES ASSUME NEW i \in 0 .. Size - 1 PROVE sequence[cellIndex(i)] <= i
      BY SizeAssumption DEF FutureTickets
    <2> QED BY SizeAssumption, SMT DEF cellIndex, Cells
  <1>3. WritersHold /\ ReadersHold /\ TicketsDistinct /\ ReadyToClaim
    BY DEF WritersHold, ReadersHold, TicketsDistinct, ReadyToClaim, Writing, Reading
  <1>4. Counters /\ LiveTickets /\ DeadTickets
    BY SizeAssumption DEF Counters, LiveTickets, DeadTickets
  <1>5. DataIntact
    BY DEF DataIntact, Writing
  <1>6. Fresh
    BY SizeAssumption DEF Fresh, Cells
  <1> QED BY <1>1, <1>2, <1>3, <1>4, <1>5, <1>6 DEF IInv, Tickets

\* A step in the first half of an operation, before a ticket is claimed,
\* touches only the thread's own variables.
LEMMA SearchingStep ==
  ASSUME IInv, TypeOK', NEW t \in Threads, ~Owner(t), ~Owner(t)', ReadyToClaim',
         UNCHANGED <<enqueueIndex, dequeueIndex, sequence, data, claimed>>,
         \A u \in Threads \ {t} :
           pc'[u] = pc[u] /\ index'[u] = index[u] /\ item'[u] = item[u]
  PROVE  IInv'
  <1> USE DEF IInv, Tickets, Owner, Writing, Reading
  <1>1. WritersHold'
    BY DEF WritersHold
  <1>2. ReadersHold'
    BY DEF ReadersHold
  <1>3. TicketsDistinct'
    BY DEF TicketsDistinct
  <1>4. Counters' /\ FutureTickets' /\ Fresh'
    BY DEF Counters, FutureTickets, Fresh
  <1>5. LiveTickets'
    BY DEF LiveTickets
  <1>6. DeadTickets'
    BY DEF DeadTickets
  <1>7. DataIntact'
    BY DEF DataIntact
  <1> QED BY <1>1, <1>2, <1>3, <1>4, <1>5, <1>6, <1>7

LEMMA EnqueueClaimInv ==
  ASSUME IInv, TypeOK', NEW t \in Threads, EnqueueClaim(t)
  PROVE  IInv'
  <1> DEFINE e == enqueueIndex
  <1> USE DEF EnqueueClaim, Goto, Writing, Reading
  <1>1. /\ e \in Nat /\ dequeueIndex \in Nat /\ index[t] = e
        /\ sequence[cellIndex(e)] = e /\ item[t] \in Values
        /\ claimed \in Seq(Values) /\ sequence \in [Cells -> Nat]
        /\ pc \in [Threads -> Labels] /\ index \in [Threads -> Nat]
    BY DEF IInv, TypeOK, Tickets, ReadyToClaim
  <1>2. /\ \A u \in Threads : u # t => pc'[u] = pc[u]
        /\ pc'[t] = "enqData"
    BY <1>1
  <1>3. e < dequeueIndex + Size
    <2> SUFFICES ASSUME dequeueIndex + Size <= e PROVE FALSE
      BY <1>1, SizeAssumption
    <2>1. PICK i \in dequeueIndex .. e - 1 : i \in Nat /\ i + Size = e
      <3>1. e - Size \in dequeueIndex .. e - 1 /\ e - Size \in Nat /\ (e - Size) + Size = e
        BY <1>1, SizeAssumption
      <3> QED BY <3>1
    <2>2. cellIndex(i) = cellIndex(e)
      BY <2>1, NextLap, Zenon
    <2>3. sequence[cellIndex(i)] \in {i, i + 1}
      BY <2>1 DEF IInv, Tickets, LiveTickets
    <2>4. e \in {i, i + 1}
      BY <1>1, <2>2, <2>3, Zenon
    <2> HIDE DEF e
    <2> QED BY <1>1, <2>1, <2>4, SizeAssumption
  <1>4. Counters'
    <2>1. dequeueIndex <= e /\ Len(claimed) = e
      BY DEF IInv, Tickets, Counters
    <2>2. Len(claimed') = Len(claimed) + 1
      BY <1>1
    <2>3. dequeueIndex' = dequeueIndex /\ enqueueIndex' = e + 1
      OBVIOUS
    <2> HIDE DEF e
    <2> QED BY <1>1, <1>3, <2>1, <2>2, <2>3, SizeAssumption DEF Counters
  <1>5. WritersHold'
    BY <1>1, <1>2 DEF IInv, Tickets, WritersHold
  <1>6. ReadersHold'
    BY <1>1, <1>2 DEF IInv, Tickets, ReadersHold
  <1>7. TicketsDistinct'
    BY <1>1, <1>2 DEF IInv, Tickets, WritersHold, TicketsDistinct
  <1>8. LiveTickets'
    <2> SUFFICES ASSUME NEW i \in dequeueIndex .. e
                 PROVE  \/ sequence[cellIndex(i)] = i + 1
                        \/ /\ sequence[cellIndex(i)] = i
                           /\ \E u \in Threads : Writing(u)' /\ index[u] = i
      BY <1>1 DEF LiveTickets
    <2>1. CASE i = e
      BY <1>1, <1>2, <2>1
    <2>2. CASE i # e
      <3>1. i \in dequeueIndex .. e - 1
        BY <1>1, <2>2
      <3> QED BY <1>2, <3>1 DEF IInv, Tickets, LiveTickets
    <2> QED BY <2>1, <2>2
  <1>9. DeadTickets'
    BY <1>1, <1>2 DEF IInv, Tickets, DeadTickets
  <1>10. FutureTickets'
    <2> SUFFICES ASSUME NEW i \in e + 1 .. e + Size
                 PROVE  sequence[cellIndex(i)] <= i
      BY <1>1, SizeAssumption DEF FutureTickets
    <2>1. CASE i = e + Size
      <3>1. cellIndex(i) = cellIndex(e)
        BY <1>1, <2>1, NextLap, Zenon
      <3>2. sequence[cellIndex(i)] = e
        BY <1>1, <3>1, Zenon
      <3> HIDE DEF e
      <3> QED BY <1>1, <2>1, <3>2, SizeAssumption
    <2>2. CASE i # e + Size
      <3>1. i \in e .. e + Size - 1
        <4> HIDE DEF e, EnqueueClaim
        <4> QED BY <1>1, <2>2, SizeAssumption
      <3> QED BY <3>1 DEF IInv, Tickets, FutureTickets
    <2> QED BY <2>1, <2>2
  <1>11. ReadyToClaim'
    BY <1>1, <1>2 DEF IInv, Tickets, ReadyToClaim
  <1>12. DataIntact'
    <2>1. /\ \A i \in 0 .. e - 1 : claimed'[i + 1] = claimed[i + 1]
          /\ claimed'[e + 1] = item[t]
      BY <1>1 DEF IInv, Tickets, Counters
    <2>2. \A u \in Threads : Owner(u) => index[u] \in 0 .. e - 1
      BY <1>1 DEF IInv, Tickets, WritersHold, ReadersHold, Counters, Owner
    <2>3. ASSUME NEW u \in Threads
          PROVE  /\ Writing(u)' => item'[u] = claimed'[index'[u] + 1]
                 /\ pc'[u] = "enqPub" => data'[cellIndex(index'[u])] = claimed'[index'[u] + 1]
                 /\ pc'[u] = "deqData" => data'[cellIndex(index'[u])] = claimed'[index'[u] + 1]
                 /\ pc'[u] = "deqPub" => item'[u] = claimed'[index'[u] + 1]
      BY <1>1, <1>2, <2>1, <2>2 DEF IInv, DataIntact, Owner
    <2>4. ASSUME NEW i \in dequeueIndex .. e, sequence[cellIndex(i)] = i + 1
          PROVE  data[cellIndex(i)] = claimed'[i + 1]
      <3>1. i \in dequeueIndex .. e - 1 /\ i \in 0 .. e - 1
        BY <1>1, <2>4
      <3> QED BY <2>1, <2>4, <3>1 DEF IInv, DataIntact
    <2>5. (dequeueIndex .. enqueueIndex - 1)' = dequeueIndex .. e
      BY <1>1
    <2> QED BY <2>3, <2>4, <2>5 DEF DataIntact
  <1>13. Fresh'
    BY DEF IInv, Tickets, Fresh
  <1> QED
    BY <1>4, <1>5, <1>6, <1>7, <1>8, <1>9, <1>10, <1>11, <1>12, <1>13 DEF IInv, Tickets

LEMMA EnqueueWriteInv ==
  ASSUME IInv, TypeOK', NEW t \in Threads, EnqueueWrite(t)
  PROVE  IInv'
  <1> DEFINE c == cellIndex(index[t])
  <1> USE DEF EnqueueWrite, Goto
  <1>1. /\ pc \in [Threads -> Labels] /\ data \in [Cells -> Values \cup {Nothing}]
        /\ index \in [Threads -> Nat] /\ c \in Cells /\ Writing(t)
        /\ sequence[c] = index[t]
    BY CellIsCell DEF IInv, TypeOK, Tickets, WritersHold, Writing
  <1>2. /\ \A u \in Threads : u # t => pc'[u] = pc[u]
        /\ pc[t] = "enqData" /\ pc'[t] = "enqPub"
        /\ data'[c] = item[t]
        /\ \A k \in Cells : k # c => data'[k] = data[k]
    BY <1>1
  <1>3. \A u \in Threads : Writing(u)' = Writing(u) /\ Reading(u)' = Reading(u)
    BY <1>2 DEF Writing, Reading
  <1>4. WritersHold' /\ ReadersHold' /\ TicketsDistinct'
    BY <1>3 DEF IInv, Tickets, WritersHold, ReadersHold, TicketsDistinct
  <1>5. Counters' /\ FutureTickets' /\ Fresh'
    BY DEF IInv, Tickets, Counters, FutureTickets, Fresh
  <1>6. LiveTickets' /\ DeadTickets'
    BY <1>3 DEF IInv, Tickets, LiveTickets, DeadTickets
  <1>7. ReadyToClaim'
    BY <1>2 DEF IInv, Tickets, ReadyToClaim
  <1>8. DataIntact'
    <2>1. ASSUME NEW u \in Threads, u # t, Owner(u)
          PROVE  data'[cellIndex(index[u])] = data[cellIndex(index[u])]
      <3>1. CellsExclusive
        BY OwnersApart DEF IInv, Tickets
      <3> QED BY <1>1, <1>2, <2>1, <3>1, CellIsCell DEF CellsExclusive, Owner
    <2>2. ASSUME NEW u \in Threads
          PROVE  /\ Writing(u)' => item'[u] = claimed'[index'[u] + 1]
                 /\ pc'[u] = "enqPub" => data'[cellIndex(index'[u])] = claimed'[index'[u] + 1]
                 /\ pc'[u] = "deqData" => data'[cellIndex(index'[u])] = claimed'[index'[u] + 1]
                 /\ pc'[u] = "deqPub" => item'[u] = claimed'[index'[u] + 1]
      <3>1. CASE u = t
        BY <1>1, <1>2, <3>1 DEF IInv, DataIntact
      <3>2. CASE u # t
        BY <1>2, <1>3, <2>1, <3>2 DEF IInv, DataIntact, Owner, Writing, Reading
      <3> QED BY <3>1, <3>2
    <2>3. ASSUME NEW i \in dequeueIndex .. enqueueIndex - 1, sequence[cellIndex(i)] = i + 1
          PROVE  data'[cellIndex(i)] = claimed[i + 1]
      <3>1. i \in Nat /\ index[t] \in Nat
        BY <1>1 DEF IInv, TypeOK
      <3>2. cellIndex(i) # c
        BY <1>1, <2>3, <3>1, LiveApart, WritersLive
      <3> QED BY <1>2, <2>3, <3>1, <3>2, CellIsCell DEF IInv, DataIntact
    <2> QED BY <2>2, <2>3 DEF DataIntact
  <1> QED BY <1>4, <1>5, <1>6, <1>7, <1>8 DEF IInv, Tickets

LEMMA EnqueuePublishInv ==
  ASSUME IInv, TypeOK', NEW t \in Threads, EnqueuePublish(t)
  PROVE  IInv'
  <1> DEFINE x == index[t]
             c == cellIndex(index[t])
  <1> USE DEF EnqueuePublish, Goto
  <1>1. /\ enqueueIndex \in Nat /\ dequeueIndex \in Nat
        /\ pc \in [Threads -> Labels] /\ sequence \in [Cells -> Nat]
        /\ index \in [Threads -> Nat] /\ x \in Nat /\ c \in Cells
        /\ Writing(t) /\ sequence[c] = x
        /\ x \in dequeueIndex .. enqueueIndex - 1
    <2>1. Writing(t)
      BY DEF Writing
    <2> QED BY <2>1, CellIsCell, WritersLive DEF IInv, TypeOK, Tickets, WritersHold
  <1>2. /\ \A u \in Threads : u # t => pc'[u] = pc[u]
        /\ pc[t] = "enqPub" /\ pc'[t] = "idle"
        /\ sequence'[c] = x + 1
        /\ \A k \in Cells : k # c => sequence'[k] = sequence[k]
    BY <1>1
  <1>3. \A u \in Threads : /\ Writing(u)' = (u # t /\ Writing(u))
                           /\ Reading(u)' = Reading(u)
                           /\ u = t => ~Reading(u)
    BY <1>2 DEF Writing, Reading
  <1>4. ASSUME NEW u \in Threads, u # t, Owner(u)
        PROVE  sequence'[cellIndex(index[u])] = sequence[cellIndex(index[u])]
    <2>1. CellsExclusive
      BY OwnersApart DEF IInv, Tickets
    <2> QED BY <1>1, <1>2, <1>4, <2>1, CellIsCell DEF CellsExclusive, Owner
  <1>5. WritersHold' /\ ReadersHold' /\ TicketsDistinct'
    BY <1>3, <1>4 DEF IInv, Tickets, WritersHold, ReadersHold, TicketsDistinct, Owner
  <1>6. Counters'
    BY DEF IInv, Tickets, Counters
  <1>7. ASSUME NEW i \in dequeueIndex .. enqueueIndex - 1, i # x
        PROVE  sequence'[cellIndex(i)] = sequence[cellIndex(i)]
    <2>1. i \in Nat
      BY <1>1
    <2>2. cellIndex(i) # c
      BY <1>1, <1>7, LiveApart
    <2> QED BY <1>2, <2>1, <2>2, CellIsCell
  <1>8. LiveTickets'
    <2> SUFFICES ASSUME NEW i \in dequeueIndex .. enqueueIndex - 1
                 PROVE  \/ sequence'[cellIndex(i)] = i + 1
                        \/ /\ sequence'[cellIndex(i)] = i
                           /\ \E u \in Threads : Writing(u)' /\ index[u] = i
      BY DEF LiveTickets
    <2>1. CASE i = x
      BY <1>2, <2>1
    <2>2. CASE i # x
      BY <1>3, <1>7, <2>2 DEF IInv, Tickets, LiveTickets
    <2> QED BY <2>1, <2>2
  <1>9. \A k \in Cells : sequence'[k] >= sequence[k] /\ sequence[k] \in Nat
    BY <1>1, <1>2
  <1>10. DeadTickets'
    <2> SUFFICES ASSUME NEW i \in 0 .. dequeueIndex - 1
                 PROVE  \/ sequence'[cellIndex(i)] >= i + Size
                        \/ \E u \in Threads : Reading(u)' /\ index[u] = i
      BY DEF DeadTickets
    <2>1. i \in Nat /\ cellIndex(i) \in Cells
      BY <1>1, CellIsCell
    <2>2. CASE sequence[cellIndex(i)] >= i + Size
      <3>1. sequence'[cellIndex(i)] \in Nat
        BY <1>1, <1>2, <2>1
      <3> QED BY <1>9, <2>1, <2>2, <3>1, SizeAssumption
    <2>3. CASE \E u \in Threads : Reading(u) /\ index[u] = i
      BY <1>3, <2>3
    <2> QED BY <2>2, <2>3 DEF IInv, Tickets, DeadTickets
  <1>11. FutureTickets'
    <2> SUFFICES ASSUME NEW i \in enqueueIndex .. enqueueIndex + Size - 1
                 PROVE  sequence'[cellIndex(i)] <= i
      BY DEF FutureTickets
    <2>1. i \in Nat /\ cellIndex(i) \in Cells
      BY <1>1, CellIsCell
    <2>2. CASE cellIndex(i) = c
      <3>1. x < i
        BY <1>1
      <3> QED BY <1>1, <1>2, <2>1, <2>2, <3>1
    <2>3. CASE cellIndex(i) # c
      BY <1>2, <2>1, <2>3 DEF IInv, Tickets, FutureTickets
    <2> QED BY <2>2, <2>3
  <1>12. ReadyToClaim'
    <2>1. ASSUME NEW u \in Threads, pc'[u] = "enqCas", index[u] = enqueueIndex
          PROVE  sequence'[cellIndex(index[u])] = index[u]
      <3>1. sequence[cellIndex(index[u])] = index[u]
        BY <1>2, <2>1 DEF IInv, Tickets, ReadyToClaim
      <3>2. cellIndex(index[u]) # c
        BY <1>1, <2>1, <3>1
      <3> QED BY <1>1, <1>2, <3>1, <3>2, CellIsCell
    <2>2. ASSUME NEW u \in Threads, pc'[u] = "deqCas", index[u] = dequeueIndex
          PROVE  sequence'[cellIndex(index[u])] = index[u] + 1
      <3>1. sequence[cellIndex(index[u])] = index[u] + 1
        BY <1>2, <2>2 DEF IInv, Tickets, ReadyToClaim
      <3>2. cellIndex(index[u]) # c
        <4> SUFFICES ASSUME cellIndex(index[u]) = c PROVE FALSE
          OBVIOUS
        <4>1. index[u] \in Nat /\ x = index[u] + 1
          BY <1>1, <3>1
        <4> QED BY <1>1, <4>1, LapsApart, SizeAssumption
      <3> QED BY <1>1, <1>2, <3>1, <3>2, CellIsCell
    <2> QED BY <1>2, <2>1, <2>2 DEF IInv, Tickets, ReadyToClaim
  <1>13. DataIntact'
    <2>1. ASSUME NEW i \in dequeueIndex .. enqueueIndex - 1, sequence'[cellIndex(i)] = i + 1
          PROVE  data[cellIndex(i)] = claimed[i + 1]
      <3>1. CASE i = x
        BY <1>2, <3>1 DEF IInv, DataIntact
      <3>2. CASE i # x
        BY <1>7, <2>1, <3>2 DEF IInv, DataIntact
      <3> QED BY <3>1, <3>2
    <2> QED BY <1>2, <1>3, <2>1 DEF IInv, DataIntact
  <1>14. Fresh'
    <2>1. ASSUME NEW k \in Cells PROVE sequence'[k] >= k
      BY <1>1, <1>2 DEF IInv, Tickets, Fresh, Cells
    <2> QED BY <2>1 DEF Fresh
  <1> QED
    BY <1>5, <1>6, <1>8, <1>10, <1>11, <1>12, <1>13, <1>14 DEF IInv, Tickets

LEMMA DequeueClaimInv ==
  ASSUME IInv, TypeOK', NEW t \in Threads, DequeueClaim(t)
  PROVE  IInv' /\ dequeueIndex < enqueueIndex
  <1> DEFINE d == dequeueIndex
  <1> USE DEF DequeueClaim, Goto
  <1>1. /\ enqueueIndex \in Nat /\ d \in Nat /\ index[t] = d
        /\ sequence[cellIndex(d)] = d + 1
        /\ d <= enqueueIndex /\ enqueueIndex <= d + Size
        /\ pc \in [Threads -> Labels] /\ index \in [Threads -> Nat]
    BY DEF IInv, TypeOK, Tickets, ReadyToClaim, Counters
  <1>2. /\ \A u \in Threads : u # t => pc'[u] = pc[u]
        /\ pc[t] = "deqCas" /\ pc'[t] = "deqData"
    BY <1>1
  <1>3. \A u \in Threads : /\ Writing(u)' = Writing(u)
                           /\ Reading(u)' = (u = t \/ Reading(u))
                           /\ u = t => ~Writing(u) /\ ~Reading(u)
    BY <1>2 DEF Writing, Reading
  <1>4. d < enqueueIndex
    <2> SUFFICES ASSUME d = enqueueIndex PROVE FALSE
      BY <1>1
    <2>1. d \in enqueueIndex .. enqueueIndex + Size - 1
      BY <1>1, SizeAssumption
    <2> QED BY <1>1, <2>1 DEF IInv, Tickets, FutureTickets
  <1>5. WritersHold' /\ ReadersHold'
    BY <1>1, <1>2 DEF IInv, Tickets, WritersHold, ReadersHold, Writing, Reading
  <1>6. TicketsDistinct'
    BY <1>1, <1>2 DEF IInv, Tickets, TicketsDistinct, ReadersHold, Writing, Reading
  <1>7. Counters'
    BY <1>1, <1>4, SizeAssumption DEF IInv, Tickets, Counters
  <1>8. LiveTickets'
    BY <1>1, <1>3 DEF IInv, Tickets, LiveTickets
  <1>9. DeadTickets'
    <2> SUFFICES ASSUME NEW i \in 0 .. d
                 PROVE  \/ sequence[cellIndex(i)] >= i + Size
                        \/ \E u \in Threads : Reading(u)' /\ index[u] = i
      BY <1>1 DEF DeadTickets
    <2>1. CASE i = d
      BY <1>1, <1>3, <2>1
    <2>2. CASE i # d
      <3>1. i \in 0 .. d - 1
        BY <1>1, <2>2
      <3> QED BY <1>3, <3>1 DEF IInv, Tickets, DeadTickets
    <2> QED BY <2>1, <2>2
  <1>10. FutureTickets' /\ Fresh'
    BY DEF IInv, Tickets, FutureTickets, Fresh
  <1>11. ReadyToClaim'
    BY <1>1, <1>2 DEF IInv, Tickets, ReadyToClaim
  <1>12. DataIntact'
    <2>1. data[cellIndex(d)] = claimed[d + 1]
      <3>1. d \in d .. enqueueIndex - 1
        BY <1>1, <1>4
      <3> QED BY <1>1, <3>1 DEF IInv, DataIntact
    <2>2. ASSUME NEW u \in Threads
          PROVE  /\ Writing(u)' => item'[u] = claimed'[index'[u] + 1]
                 /\ pc'[u] = "enqPub" => data'[cellIndex(index'[u])] = claimed'[index'[u] + 1]
                 /\ pc'[u] = "deqData" => data'[cellIndex(index'[u])] = claimed'[index'[u] + 1]
                 /\ pc'[u] = "deqPub" => item'[u] = claimed'[index'[u] + 1]
      <3>1. CASE u = t
        BY <1>1, <1>2, <1>3, <2>1, <3>1
      <3>2. CASE u # t
        BY <1>2, <1>3, <3>2 DEF IInv, DataIntact
      <3> QED BY <3>1, <3>2
    <2>3. \A i \in (dequeueIndex .. enqueueIndex - 1)' : i \in d .. enqueueIndex - 1
      BY <1>1
    <2> QED BY <2>2, <2>3 DEF IInv, DataIntact
  <1> QED
    BY <1>4, <1>5, <1>6, <1>7, <1>8, <1>9, <1>10, <1>11, <1>12 DEF IInv, Tickets

LEMMA DequeueReadInv ==
  ASSUME IInv, TypeOK', NEW t \in Threads, DequeueRead(t)
  PROVE  IInv'
  <1> USE DEF DequeueRead, Goto
  <1>1. /\ pc \in [Threads -> Labels] /\ index \in [Threads -> Nat]
        /\ item \in [Threads -> Values \cup {Nothing}]
    BY DEF IInv, TypeOK
  <1>2. /\ \A u \in Threads : u # t => pc'[u] = pc[u] /\ item'[u] = item[u]
        /\ pc[t] = "deqData" /\ pc'[t] = "deqPub"
        /\ item'[t] = data[cellIndex(index[t])]
    BY <1>1
  <1>3. \A u \in Threads : Writing(u)' = Writing(u) /\ Reading(u)' = Reading(u)
    BY <1>2 DEF Writing, Reading
  <1>4. WritersHold' /\ ReadersHold' /\ TicketsDistinct'
    BY <1>3 DEF IInv, Tickets, WritersHold, ReadersHold, TicketsDistinct
  <1>5. Counters' /\ FutureTickets' /\ Fresh'
    BY DEF IInv, Tickets, Counters, FutureTickets, Fresh
  <1>6. LiveTickets' /\ DeadTickets'
    BY <1>3 DEF IInv, Tickets, LiveTickets, DeadTickets
  <1>7. ReadyToClaim'
    BY <1>2 DEF IInv, Tickets, ReadyToClaim
  <1>8. DataIntact'
    BY <1>2 DEF IInv, DataIntact, Writing
  <1> QED BY <1>4, <1>5, <1>6, <1>7, <1>8 DEF IInv, Tickets

LEMMA DequeueReleaseInv ==
  ASSUME IInv, TypeOK', NEW t \in Threads, DequeueRelease(t)
  PROVE  IInv'
  <1> DEFINE x == index[t]
             c == cellIndex(index[t])
  <1> USE DEF DequeueRelease, Goto
  <1>1. /\ enqueueIndex \in Nat /\ dequeueIndex \in Nat
        /\ pc \in [Threads -> Labels] /\ sequence \in [Cells -> Nat]
        /\ index \in [Threads -> Nat] /\ x \in Nat /\ c \in Cells
        /\ Reading(t) /\ sequence[c] = x + 1
        /\ x < dequeueIndex /\ dequeueIndex <= enqueueIndex
    <2>1. Reading(t)
      BY DEF Reading
    <2> QED BY <2>1, CellIsCell DEF IInv, TypeOK, Tickets, ReadersHold, Counters
  <1>2. /\ \A u \in Threads : u # t => pc'[u] = pc[u]
        /\ pc[t] = "deqPub" /\ pc'[t] = "idle"
        /\ sequence'[c] = x + Size
        /\ \A k \in Cells : k # c => sequence'[k] = sequence[k]
    BY <1>1
  <1>3. \A u \in Threads : /\ Writing(u)' = Writing(u)
                           /\ Reading(u)' = (u # t /\ Reading(u))
                           /\ u = t => ~Writing(u)
    BY <1>2 DEF Writing, Reading
  <1>4. ASSUME NEW u \in Threads, u # t, Owner(u)
        PROVE  sequence'[cellIndex(index[u])] = sequence[cellIndex(index[u])]
    <2>1. CellsExclusive
      BY OwnersApart DEF IInv, Tickets
    <2> QED BY <1>1, <1>2, <1>4, <2>1, CellIsCell DEF CellsExclusive, Owner
  <1>5. WritersHold' /\ ReadersHold' /\ TicketsDistinct'
    BY <1>3, <1>4 DEF IInv, Tickets, WritersHold, ReadersHold, TicketsDistinct, Owner
  <1>6. Counters'
    BY DEF IInv, Tickets, Counters
  <1>7. ASSUME NEW i \in Nat, i > x, cellIndex(i) = c
        PROVE  x + Size <= i
    BY <1>1, <1>7, LapsApart
  <1>8. ASSUME NEW i \in dequeueIndex .. enqueueIndex - 1
        PROVE  sequence'[cellIndex(i)] = sequence[cellIndex(i)]
    <2>1. i \in Nat /\ i > x
      BY <1>1
    <2>2. sequence[cellIndex(i)] \in {i, i + 1}
      BY DEF IInv, Tickets, LiveTickets
    <2>3. cellIndex(i) # c
      <3> SUFFICES ASSUME cellIndex(i) = c PROVE FALSE
        OBVIOUS
      <3>1. x + Size <= i
        BY <1>7, <2>1
      <3>2. x + 1 \in {i, i + 1}
        BY <1>1, <2>2, Zenon
      <3> QED BY <1>1, <2>1, <3>1, <3>2, SizeAssumption
    <2> QED BY <1>2, <2>1, <2>3, CellIsCell
  <1>9. LiveTickets'
    BY <1>3, <1>8 DEF IInv, Tickets, LiveTickets
  <1>10. DeadTickets'
    <2> SUFFICES ASSUME NEW i \in 0 .. dequeueIndex - 1
                 PROVE  \/ sequence'[cellIndex(i)] >= i + Size
                        \/ \E u \in Threads : Reading(u)' /\ index[u] = i
      BY DEF DeadTickets
    <2>1. i \in Nat /\ cellIndex(i) \in Cells
      BY <1>1, CellIsCell
    <2>2. \/ sequence[cellIndex(i)] >= i + Size
          \/ \E u \in Threads : Reading(u) /\ index[u] = i
      BY DEF IInv, Tickets, DeadTickets
    <2>3. CASE cellIndex(i) # c
      <3>1. x # i
        BY <2>3
      <3> QED BY <1>2, <1>3, <2>1, <2>2, <2>3, <3>1
    <2>4. CASE cellIndex(i) = c /\ i <= x
      BY <1>1, <1>2, <2>1, <2>4, SizeAssumption
    <2>5. CASE cellIndex(i) = c /\ i > x
      <3>1. x + Size <= i
        BY <1>7, <2>1, <2>5
      <3>2. ~(sequence[cellIndex(i)] >= i + Size)
        BY <1>1, <2>1, <2>5, <3>1, SizeAssumption
      <3>3. PICK u \in Threads : Reading(u) /\ index[u] = i
        BY <2>2, <3>2
      <3>4. sequence[cellIndex(i)] = i + 1
        BY <3>3 DEF IInv, Tickets, ReadersHold
      <3> QED BY <1>1, <2>1, <2>5, <3>4
    <2> QED BY <1>1, <2>1, <2>3, <2>4, <2>5
  <1>11. FutureTickets'
    <2> SUFFICES ASSUME NEW i \in enqueueIndex .. enqueueIndex + Size - 1
                 PROVE  sequence'[cellIndex(i)] <= i
      BY DEF FutureTickets
    <2>1. i \in Nat /\ cellIndex(i) \in Cells /\ i > x
      BY <1>1, CellIsCell
    <2>2. CASE cellIndex(i) = c
      BY <1>2, <1>7, <2>1, <2>2
    <2>3. CASE cellIndex(i) # c
      BY <1>2, <2>1, <2>3 DEF IInv, Tickets, FutureTickets
    <2> QED BY <2>2, <2>3
  <1>12. ReadyToClaim'
    <2>1. ASSUME NEW u \in Threads, pc'[u] = "enqCas", index[u] = enqueueIndex
          PROVE  sequence'[cellIndex(index[u])] = index[u]
      <3>1. sequence[cellIndex(index[u])] = index[u]
        BY <1>2, <2>1 DEF IInv, Tickets, ReadyToClaim
      <3>2. cellIndex(index[u]) # c
        <4> SUFFICES ASSUME cellIndex(index[u]) = c PROVE FALSE
          OBVIOUS
        <4>1. index[u] \in Nat /\ index[u] > x /\ index[u] = x + 1
          BY <1>1, <2>1, <3>1
        <4> QED BY <1>1, <1>7, <4>1, SizeAssumption
      <3> QED BY <1>1, <1>2, <3>1, <3>2, CellIsCell
    <2>2. ASSUME NEW u \in Threads, pc'[u] = "deqCas", index[u] = dequeueIndex
          PROVE  sequence'[cellIndex(index[u])] = index[u] + 1
      <3>1. sequence[cellIndex(index[u])] = index[u] + 1
        BY <1>2, <2>2 DEF IInv, Tickets, ReadyToClaim
      <3>2. cellIndex(index[u]) # c
        BY <1>1, <2>2, <3>1
      <3> QED BY <1>1, <1>2, <3>1, <3>2, CellIsCell
    <2> QED BY <1>2, <2>1, <2>2 DEF IInv, Tickets, ReadyToClaim
  <1>13. DataIntact'
    BY <1>2, <1>3, <1>8 DEF IInv, DataIntact
  <1>14. Fresh'
    <2>1. ASSUME NEW k \in Cells PROVE sequence'[k] >= k
      BY <1>1, <1>2, SizeAssumption DEF IInv, Tickets, Fresh, Cells
    <2> QED BY <2>1 DEF Fresh
  <1> QED
    BY <1>5, <1>6, <1>9, <1>10, <1>11, <1>12, <1>13, <1>14 DEF IInv, Tickets

-----------------------------------------------------------------------------
LEMMA SearchingInv ==
  ASSUME IInv, TypeOK', NEW t \in Threads,
         \/ \E v \in Values : EnqueueStart(t, v)
         \/ EnqueueSeq(t) \/ EnqueueReload(t) \/ EnqueueCasFail(t)
         \/ DequeueStart(t)
         \/ DequeueSeq(t) \/ DequeueReload(t) \/ DequeueCasFail(t)
  PROVE  IInv'
  <1> USE DEF Goto, EnqueueStart, EnqueueSeq, EnqueueReload, EnqueueCasFail,
              DequeueStart, DequeueSeq, DequeueReload, DequeueCasFail
  <1>1. /\ pc \in [Threads -> Labels] /\ index \in [Threads -> Nat]
        /\ item \in [Threads -> Values \cup {Nothing}]
        /\ enqueueIndex \in Nat /\ dequeueIndex \in Nat
        /\ sequence \in [Cells -> Nat] /\ cellIndex(index[t]) \in Cells
    BY CellIsCell DEF IInv, TypeOK
  <1>2. /\ ~Owner(t) /\ ~Owner(t)'
        /\ UNCHANGED <<enqueueIndex, dequeueIndex, sequence, data, claimed>>
        /\ \A u \in Threads \ {t} :
             pc'[u] = pc[u] /\ index'[u] = index[u] /\ item'[u] = item[u]
    BY <1>1 DEF Owner, Writing, Reading
  <1>3. ReadyToClaim'
    <2>1. ASSUME NEW u \in Threads \ {t}
          PROVE  /\ pc'[u] \in {"enqSeq", "enqLoad", "enqCas"} => index'[u] <= enqueueIndex'
                 /\ pc'[u] \in {"deqSeq", "deqLoad", "deqCas"} => index'[u] <= dequeueIndex'
                 /\ pc'[u] = "enqCas" /\ index'[u] = enqueueIndex' =>
                      sequence'[cellIndex(index'[u])] = index'[u]
                 /\ pc'[u] = "deqCas" /\ index'[u] = dequeueIndex' =>
                      sequence'[cellIndex(index'[u])] = index'[u] + 1
      BY <1>2 DEF IInv, Tickets, ReadyToClaim
    <2>2. /\ pc'[t] \in {"enqSeq", "enqLoad", "enqCas"} => index'[t] <= enqueueIndex'
          /\ pc'[t] \in {"deqSeq", "deqLoad", "deqCas"} => index'[t] <= dequeueIndex'
          /\ pc'[t] = "enqCas" /\ index'[t] = enqueueIndex' =>
               sequence'[cellIndex(index'[t])] = index'[t]
          /\ pc'[t] = "deqCas" /\ index'[t] = dequeueIndex' =>
               sequence'[cellIndex(index'[t])] = index'[t] + 1
      BY <1>1 DEF IInv, Tickets, ReadyToClaim
    <2> QED BY <2>1, <2>2 DEF ReadyToClaim
  <1> QED BY <1>2, <1>3, SearchingStep

LEMMA StepInv == IInv /\ [Next]_vars => IInv'
  <1> SUFFICES ASSUME IInv, [Next]_vars PROVE IInv'
    OBVIOUS
  <1>1. TypeOK'
    BY TypePreserved DEF IInv
  <1>2. CASE UNCHANGED vars
    BY <1>2 DEF vars, IInv, TypeOK, Tickets, DataIntact, WritersHold, ReadersHold,
                TicketsDistinct, Counters, LiveTickets, DeadTickets, FutureTickets,
                Fresh, ReadyToClaim, Writing, Reading
  <1>3. ASSUME NEW t \in Threads, Step(t) PROVE IInv'
    BY <1>1, <1>3, SearchingInv, EnqueueClaimInv, EnqueueWriteInv, EnqueuePublishInv,
       DequeueClaimInv, DequeueReadInv, DequeueReleaseInv DEF Step
  <1> QED BY <1>2, <1>3 DEF Next

\* The inductive invariant: the protocol of the cells' sequence numbers keeps
\* every ticket, with its value, in exactly one stage of its life.
THEOREM InvariantHolds == Spec => []IInv
  BY InitInv, StepInv, PTL DEF Spec

\* No two threads ever touch the data of one cell at the same time.
THEOREM CellsAreExclusive == Spec => []CellsExclusive
  <1>1. IInv => CellsExclusive
    BY OwnersApart DEF IInv, Tickets
  <1> QED BY <1>1, InvariantHolds, PTL

-----------------------------------------------------------------------------
LEMMA FullExit ==
  ASSUME TypeOK, Next, NEW t \in Threads, pc[t] = "enqSeq", pc'[t] = "idle"
  PROVE  sequence[cellIndex(index[t])] < index[t]
  <1> PICK u \in Threads : Step(u)
    BY DEF Next
  <1> pc \in [Threads -> Labels] /\ sequence \in [Cells -> Nat]
      /\ index[t] \in Nat /\ cellIndex(index[t]) \in Cells
    BY CellIsCell DEF TypeOK
  <1> QED
    BY DEF Step, Goto, EnqueueStart, EnqueueSeq, EnqueueReload, EnqueueCasFail,
           EnqueueClaim, EnqueueWrite, EnqueuePublish,
           DequeueStart, DequeueSeq, DequeueReload, DequeueCasFail,
           DequeueClaim, DequeueRead, DequeueRelease

LEMMA EmptyExit ==
  ASSUME TypeOK, Next, NEW t \in Threads, pc[t] = "deqSeq", pc'[t] = "idle"
  PROVE  sequence[cellIndex(index[t])] < index[t] + 1
  <1> PICK u \in Threads : Step(u)
    BY DEF Next
  <1> pc \in [Threads -> Labels] /\ sequence \in [Cells -> Nat]
      /\ index[t] \in Nat /\ cellIndex(index[t]) \in Cells
    BY CellIsCell DEF TypeOK
  <1> QED
    BY DEF Step, Goto, EnqueueStart, EnqueueSeq, EnqueueReload, EnqueueCasFail,
           EnqueueClaim, EnqueueWrite, EnqueuePublish,
           DequeueStart, DequeueSeq, DequeueReload, DequeueCasFail,
           DequeueClaim, DequeueRead, DequeueRelease

\* enqueue() reports a full queue only when Size values wait in it, unless a
\* dequeue() is between its claim and its release.
THEOREM FullIsAlwaysReal == Spec => FullIsReal
  <1>1. ASSUME IInv, Next, NEW t \in Threads, pc[t] = "enqSeq", pc'[t] = "idle",
               ~(\E u \in Threads : Reading(u))
        PROVE  enqueueIndex = dequeueIndex + Size
    <2> DEFINE x == index[t]
    <2>1. /\ x \in Nat /\ enqueueIndex \in Nat /\ dequeueIndex \in Nat
          /\ x <= enqueueIndex /\ enqueueIndex <= dequeueIndex + Size
          /\ sequence \in [Cells -> Nat] /\ cellIndex(x) \in Cells
      BY <1>1, CellIsCell DEF IInv, TypeOK, Tickets, Counters, ReadyToClaim
    <2>2. sequence[cellIndex(x)] < x
      BY <1>1, FullExit DEF IInv
    <2> HIDE DEF x
    <2>3. ASSUME NEW i \in 0 .. dequeueIndex - 1 PROVE sequence[cellIndex(i)] >= i + Size
      BY <1>1 DEF IInv, Tickets, DeadTickets
    <2>4. x >= dequeueIndex
      <3> SUFFICES ASSUME x < dequeueIndex PROVE FALSE
        BY <2>1
      <3>1. x \in 0 .. dequeueIndex - 1
        BY <2>1
      <3> QED BY <2>1, <2>2, <2>3, <3>1, SizeAssumption
    <2>5. x = enqueueIndex
      <3> SUFFICES ASSUME x < enqueueIndex PROVE FALSE
        BY <2>1
      <3>1. x \in dequeueIndex .. enqueueIndex - 1
        BY <2>1, <2>4
      <3>2. sequence[cellIndex(x)] \in {x, x + 1}
        BY <1>1, <3>1 DEF IInv, Tickets, LiveTickets
      <3> QED BY <2>1, <2>2, <3>2
    <2>6. CASE x < Size
      <3>1. cellIndex(x) = x
        BY <2>1, <2>6, SizeAssumption DEF cellIndex
      <3>2. sequence[x] >= x
        BY <1>1, <2>1, <3>1 DEF IInv, Tickets, Fresh
      <3> QED BY <2>1, <2>2, <3>1, <3>2
    <2>7. CASE x >= Size
      <3>1. PICK y \in Nat : y + Size = x
        <4>1. x - Size \in Nat /\ (x - Size) + Size = x
          BY <2>1, <2>7, SizeAssumption
        <4> QED BY <4>1
      <3>2. cellIndex(y) = cellIndex(x)
        BY <3>1, NextLap
      <3>3. ~(y < dequeueIndex)
        <4> SUFFICES ASSUME y < dequeueIndex PROVE FALSE
          OBVIOUS
        <4>1. y \in 0 .. dequeueIndex - 1
          BY <2>1, <3>1
        <4> QED BY <2>1, <2>2, <2>3, <3>1, <3>2, <4>1, SizeAssumption
      <3> QED BY <2>1, <2>5, <3>1, <3>3, SizeAssumption
    <2> QED BY <2>1, <2>6, <2>7, SizeAssumption
  <1>2. IInv /\ [Next]_vars =>
          [\A t \in Threads :
             pc[t] = "enqSeq" /\ pc'[t] = "idle" /\ ~(\E u \in Threads : Reading(u))
               => enqueueIndex = dequeueIndex + Size]_vars
    BY <1>1
  <1> QED BY <1>2, InvariantHolds, PTL DEF Spec, FullIsReal

\* dequeue() reports an empty queue only when nothing waits in it, unless an
\* enqueue() is between its claim and its publication.
THEOREM EmptyIsAlwaysReal == Spec => EmptyIsReal
  <1>1. ASSUME IInv, Next, NEW t \in Threads, pc[t] = "deqSeq", pc'[t] = "idle",
               ~(\E u \in Threads : Writing(u))
        PROVE  enqueueIndex = dequeueIndex
    <2> DEFINE x == index[t]
    <2>1. /\ x \in Nat /\ enqueueIndex \in Nat /\ dequeueIndex \in Nat
          /\ x <= dequeueIndex /\ dequeueIndex <= enqueueIndex
          /\ sequence \in [Cells -> Nat] /\ cellIndex(x) \in Cells
      BY <1>1, CellIsCell DEF IInv, TypeOK, Tickets, Counters, ReadyToClaim
    <2>2. sequence[cellIndex(x)] < x + 1
      BY <1>1, EmptyExit DEF IInv
    <2> HIDE DEF x
    <2>3. x = dequeueIndex
      <3> SUFFICES ASSUME x < dequeueIndex PROVE FALSE
        BY <2>1
      <3>1. x \in 0 .. dequeueIndex - 1
        BY <2>1
      <3>2. CASE sequence[cellIndex(x)] >= x + Size
        BY <2>1, <2>2, <3>2, SizeAssumption
      <3>3. CASE \E u \in Threads : Reading(u) /\ index[u] = x
        BY <1>1, <2>1, <2>2, <3>3 DEF IInv, Tickets, ReadersHold
      <3> QED BY <1>1, <3>1, <3>2, <3>3 DEF IInv, Tickets, DeadTickets
    <2>4. ~(x < enqueueIndex)
      <3> SUFFICES ASSUME x < enqueueIndex PROVE FALSE
        OBVIOUS
      <3>1. x \in dequeueIndex .. enqueueIndex - 1
        BY <2>1, <2>3
      <3>2. sequence[cellIndex(x)] = x + 1
        BY <1>1, <3>1 DEF IInv, Tickets, LiveTickets
      <3> QED BY <2>1, <2>2, <3>2
    <2> QED BY <2>1, <2>3, <2>4
  <1>2. IInv /\ [Next]_vars =>
          [\A t \in Threads :
             pc[t] = "deqSeq" /\ pc'[t] = "idle" /\ ~(\E u \in Threads : Writing(u))
               => enqueueIndex = dequeueIndex]_vars
    BY <1>1
  <1> QED BY <1>2, InvariantHolds, PTL DEF Spec, EmptyIsReal

-----------------------------------------------------------------------------
\* A step of a thread that is not holding a taken value before or after it
\* leaves every hand as it was.
LEMMA HandsKept ==
  ASSUME IInv, NEW t \in Threads, ~Reading(t), ~Reading(t)',
         \A u \in Threads \ {t} :
           pc'[u] = pc[u] /\ index'[u] = index[u] /\ item'[u] = item[u],
         \A i \in 0 .. enqueueIndex - 1 : claimed'[i + 1] = claimed[i + 1]
  PROVE  Hands' = Hands
  <1>1. ASSUME NEW u \in Threads PROVE Hand(u)' = Hand(u)
    <2>1. CASE u = t
      BY <2>1 DEF Hand, Reading
    <2>2. CASE u # t
      <3>1. pc[u] = "deqData" => index[u] \in 0 .. enqueueIndex - 1
        BY DEF IInv, TypeOK, Tickets, ReadersHold, Counters, Reading
      <3> QED BY <2>2, <3>1 DEF Hand
    <2> QED BY <2>1, <2>2
  <1> QED BY <1>1 DEF Hands

LEMMA HandChanges ==
  ASSUME NEW t \in Threads,
         \A u \in Threads \ {t} :
           pc'[u] = pc[u] /\ index'[u] = index[u] /\ item'[u] = item[u],
         UNCHANGED claimed
  PROVE  Hands' = [Hands EXCEPT ![t] = Hand(t)']
  <1>1. ASSUME NEW u \in Threads, u # t PROVE Hand(u)' = Hand(u)
    BY <1>1 DEF Hand
  <1> QED BY <1>1 DEF Hands

\* The ring implements a bounded FIFO: values leave in the order their tickets
\* were claimed, each exactly once, unharmed, and never more than Size inside.
THEOREM RingImplementsFifo == Spec => ImplementsFifo
  <1>1. Init => Fifo!Init
    BY DEF Init, Fifo!Init, Hand, Hands
  <1>2. IInv /\ [Next]_vars => [Fifo!Next]_<<claimed, dequeueIndex, Hands>>
    <2> SUFFICES ASSUME IInv, [Next]_vars
                 PROVE  [Fifo!Next]_<<claimed, dequeueIndex, Hands>>
      OBVIOUS
    <2>1. CASE UNCHANGED vars
      BY <2>1 DEF vars, Hand, Hands
    <2>2. ASSUME NEW t \in Threads, Step(t)
          PROVE  [Fifo!Next]_<<claimed, dequeueIndex, Hands>>
      <3>0. /\ pc \in [Threads -> Labels] /\ index \in [Threads -> Nat]
            /\ item \in [Threads -> Values \cup {Nothing}]
            /\ claimed \in Seq(Values) /\ enqueueIndex \in Nat /\ dequeueIndex \in Nat
            /\ Len(claimed) = enqueueIndex /\ dequeueIndex <= enqueueIndex
        BY DEF IInv, TypeOK, Tickets, Counters
      <3>1. CASE \/ \E v \in Values : EnqueueStart(t, v)
                 \/ EnqueueSeq(t) \/ EnqueueReload(t) \/ EnqueueCasFail(t)
                 \/ EnqueueWrite(t) \/ EnqueuePublish(t)
                 \/ DequeueStart(t)
                 \/ DequeueSeq(t) \/ DequeueReload(t) \/ DequeueCasFail(t)
        <4>1. /\ ~Reading(t) /\ ~Reading(t)' /\ UNCHANGED <<claimed, dequeueIndex>>
              /\ \A u \in Threads \ {t} :
                   pc'[u] = pc[u] /\ index'[u] = index[u] /\ item'[u] = item[u]
          BY <3>0, <3>1 DEF Goto, Reading, EnqueueStart, EnqueueSeq, EnqueueReload,
             EnqueueCasFail, EnqueueWrite, EnqueuePublish, DequeueStart, DequeueSeq,
             DequeueReload, DequeueCasFail
        <4>2. Hands' = Hands
          BY <4>1, HandsKept
        <4> QED BY <4>1, <4>2
      <3>2. CASE EnqueueClaim(t)
        <4>1. /\ ~Reading(t) /\ ~Reading(t)' /\ UNCHANGED dequeueIndex
              /\ \A u \in Threads \ {t} :
                   pc'[u] = pc[u] /\ index'[u] = index[u] /\ item'[u] = item[u]
              /\ claimed' = Append(claimed, item[t])
              /\ item[t] \in Values
              /\ \A i \in 0 .. enqueueIndex - 1 : claimed'[i + 1] = claimed[i + 1]
          BY <3>0, <3>2 DEF Goto, Reading, EnqueueClaim, IInv, TypeOK
        <4>2. Hands' = Hands
          BY <4>1, HandsKept
        <4>3. enqueueIndex < dequeueIndex + Size
          <5>1. TypeOK'
            BY TypePreserved DEF IInv
          <5>2. Counters'
            BY <3>2, <5>1, EnqueueClaimInv DEF IInv, Tickets
          <5>3. enqueueIndex + 1 <= dequeueIndex + Size
            BY <3>2, <5>2 DEF EnqueueClaim, Counters
          <5> QED BY <3>0, <5>3, SizeAssumption
        <4>4. Fifo!Put(item[t])
          BY <3>0, <4>1, <4>2, <4>3 DEF Fifo!Put
        <4> QED BY <4>1, <4>4 DEF Fifo!Next
      <3>3. CASE DequeueClaim(t)
        <4>1. /\ pc[t] = "deqCas" /\ pc'[t] = "deqData"
              /\ index'[t] = dequeueIndex /\ dequeueIndex' = dequeueIndex + 1
              /\ UNCHANGED claimed
              /\ \A u \in Threads \ {t} :
                   pc'[u] = pc[u] /\ index'[u] = index[u] /\ item'[u] = item[u]
          BY <3>0, <3>3 DEF Goto, DequeueClaim
        <4>2. Hand(t) = Nothing /\ Hand(t)' = claimed[dequeueIndex + 1]
          BY <4>1 DEF Hand
        <4>3. Hands' = [Hands EXCEPT ![t] = claimed[dequeueIndex + 1]]
          BY <4>1, <4>2, HandChanges
        <4>4. dequeueIndex < Len(claimed)
          <5>1. TypeOK'
            BY TypePreserved DEF IInv
          <5> QED BY <3>0, <3>3, <5>1, DequeueClaimInv
        <4>5. Fifo!Take(t)
          BY <4>1, <4>2, <4>3, <4>4 DEF Fifo!Take, Hands
        <4> QED BY <4>5 DEF Fifo!Next
      <3>4. CASE DequeueRead(t)
        <4>1. /\ pc[t] = "deqData" /\ pc'[t] = "deqPub"
              /\ item'[t] = data[cellIndex(index[t])]
              /\ UNCHANGED <<claimed, dequeueIndex>>
              /\ \A u \in Threads \ {t} :
                   pc'[u] = pc[u] /\ index'[u] = index[u] /\ item'[u] = item[u]
          BY <3>0, <3>4 DEF Goto, DequeueRead
        <4>2. Hand(t)' = Hand(t)
          BY <4>1 DEF Hand, IInv, DataIntact
        <4>3. Hands' = Hands
          BY <4>1, <4>2, HandChanges DEF Hands
        <4> QED BY <4>1, <4>3
      <3>5. CASE DequeueRelease(t)
        <4>1. /\ pc[t] = "deqPub" /\ pc'[t] = "idle"
              /\ UNCHANGED <<claimed, dequeueIndex>>
              /\ \A u \in Threads \ {t} :
                   pc'[u] = pc[u] /\ index'[u] = index[u] /\ item'[u] = item[u]
          BY <3>0, <3>5 DEF Goto, DequeueRelease
        <4>2. Hand(t) # Nothing
          <5>1. index[t] + 1 \in 1 .. Len(claimed)
            BY <3>0, <4>1 DEF IInv, Tickets, ReadersHold, Reading
          <5>2. claimed[index[t] + 1] \in Values
            BY <3>0, <5>1
          <5>3. Hand(t) = claimed[index[t] + 1]
            BY <4>1 DEF Hand, IInv, DataIntact
          <5> QED BY <5>2, <5>3, NothingAssumption
        <4>3. Hand(t)' = Nothing
          BY <4>1 DEF Hand
        <4>4. Hands' = [Hands EXCEPT ![t] = Nothing]
          BY <4>1, <4>3, HandChanges
        <4>5. Fifo!Return(t)
          BY <4>1, <4>2, <4>4 DEF Fifo!Return, Hands
        <4> QED BY <4>5 DEF Fifo!Next
      <3> QED BY <2>2, <3>1, <3>2, <3>3, <3>4, <3>5 DEF Step
    <2> QED BY <2>1, <2>2 DEF Next
  <1> QED BY <1>1, <1>2, InvariantHolds, PTL DEF Spec, ImplementsFifo, Fifo!Spec
=============================================================================
