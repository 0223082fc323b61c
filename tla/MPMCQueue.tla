------------------------------ MODULE MPMCQueue ------------------------------
(***************************************************************************)
(* The bounded multi-producer multi-consumer ring of Pistache              *)
(* (include/pistache/mailbox.h, class MPMCQueue), the queue in which       *)
(* Http::Experimental::Client parks the requests of one host while every   *)
(* connection to it is in use.                                             *)
(*                                                                         *)
(* One action per atomic access of enqueue() and dequeue(): a thread may   *)
(* be suspended between any two of them.  The accesses are modelled as     *)
(* sequentially consistent; each hand-over of a cell's data in the code is *)
(* a release store of the cell's sequence read by an acquire load, so the  *)
(* weaker orders do not add outcomes for the data.                         *)
(***************************************************************************)
EXTENDS Integers, Sequences

CONSTANTS
  Threads,     \* the threads that share the queue
  Values,      \* what they put in it
  Nothing,     \* the default-constructed T of a cell or of a result
  Size,        \* template parameter: number of cells
  MaxTickets   \* bound of the model: how many enqueues may claim a cell

ASSUME SizeAssumption == Size \in Nat /\ Size >= 2
ASSUME MaxTicketsAssumption == MaxTickets \in Nat
ASSUME NothingAssumption == Nothing \notin Values

VARIABLES
  enqueueIndex,  \* next ticket of enqueue()
  dequeueIndex,  \* next ticket of dequeue()
  sequence,      \* cells_[c].sequence
  data,          \* cells_[c].data
  pc,            \* where each thread is inside enqueue() or dequeue()
  index,         \* each thread's local variable "index"
  item,          \* each thread's argument or result "data"
  claimed        \* history: the value of every claimed ticket, in ticket order

vars == <<enqueueIndex, dequeueIndex, sequence, data, pc, index, item, claimed>>

Cells == 0 .. Size - 1

\* index & Mask: Size is a power of two
cellIndex(i) == i % Size

\* The constructor: cell i waits for ticket i.
Init ==
  /\ enqueueIndex = 0
  /\ dequeueIndex = 0
  /\ sequence = [c \in Cells |-> c]
  /\ data = [c \in Cells |-> Nothing]
  /\ pc = [t \in Threads |-> "idle"]
  /\ index = [t \in Threads |-> 0]
  /\ item = [t \in Threads |-> Nothing]
  /\ claimed = <<>>

Goto(t, from, to) ==
  /\ pc[t] = from
  /\ pc' = [pc EXCEPT ![t] = to]

-----------------------------------------------------------------------------
\* enqueue(v): load enqueueIndex
EnqueueStart(t, v) ==
  /\ enqueueIndex < MaxTickets
  /\ Goto(t, "idle", "enqSeq")
  /\ index' = [index EXCEPT ![t] = enqueueIndex]
  /\ item' = [item EXCEPT ![t] = v]
  /\ UNCHANGED <<enqueueIndex, dequeueIndex, sequence, data, claimed>>

\* Mutant: "diff <= 0" claims, so that a full queue is never noticed.
EnqueueSeqNoFull(t) ==
  LET diff == sequence[cellIndex(index[t])] - index[t] IN
  /\ \/ /\ diff <= 0
        /\ Goto(t, "enqSeq", "enqCas")
     \/ /\ diff > 0
        /\ Goto(t, "enqSeq", "enqLoad")
  /\ UNCHANGED <<enqueueIndex, dequeueIndex, sequence, data, index, item, claimed>>

\* The acquire load of the cell's sequence, and the three-way test on diff:
\* try to claim the ticket, report a full queue, or reload the index.
EnqueueSeq(t) ==
  LET diff == sequence[cellIndex(index[t])] - index[t] IN
  /\ \/ /\ diff = 0
        /\ Goto(t, "enqSeq", "enqCas")
     \/ /\ diff < 0
        /\ Goto(t, "enqSeq", "idle")
     \/ /\ diff > 0
        /\ Goto(t, "enqSeq", "enqLoad")
  /\ UNCHANGED <<enqueueIndex, dequeueIndex, sequence, data, index, item, claimed>>

\* The reload of enqueueIndex when another thread was faster
EnqueueReload(t) ==
  /\ Goto(t, "enqLoad", "enqSeq")
  /\ index' = [index EXCEPT ![t] = enqueueIndex]
  /\ UNCHANGED <<enqueueIndex, dequeueIndex, sequence, data, item, claimed>>

\* Mutant: a plain store of index + 1 instead of the compare_exchange.
EnqueueClaimStore(t) ==
  /\ index[t] < MaxTickets
  /\ Goto(t, "enqCas", "enqData")
  /\ enqueueIndex' = index[t] + 1
  /\ claimed' = Append(claimed, item[t])
  /\ UNCHANGED <<dequeueIndex, sequence, data, index, item>>

\* compare_exchange_weak succeeds: the ticket is this thread's
EnqueueClaim(t) ==
  /\ enqueueIndex = index[t]
  /\ enqueueIndex < MaxTickets
  /\ Goto(t, "enqCas", "enqData")
  /\ enqueueIndex' = enqueueIndex + 1
  /\ claimed' = Append(claimed, item[t])
  /\ UNCHANGED <<dequeueIndex, sequence, data, index, item>>

\* Mutant: the forwarded argument is moved from before the retry.
EnqueueCasFailMoved(t) ==
  /\ Goto(t, "enqCas", "enqSeq")
  /\ index' = [index EXCEPT ![t] = enqueueIndex]
  /\ item' = [item EXCEPT ![t] = Nothing]
  /\ UNCHANGED <<enqueueIndex, dequeueIndex, sequence, data, claimed>>

\* compare_exchange_weak fails, perhaps spuriously, and stores what it saw in index
EnqueueCasFail(t) ==
  /\ Goto(t, "enqCas", "enqSeq")
  /\ index' = [index EXCEPT ![t] = enqueueIndex]
  /\ UNCHANGED <<enqueueIndex, dequeueIndex, sequence, data, item, claimed>>

\* Mutant: the cell is found again from enqueueIndex, which may have moved on.
EnqueueWriteReread(t) ==
  /\ Goto(t, "enqData", "enqPub")
  /\ data' = [data EXCEPT ![cellIndex(enqueueIndex - 1)] = item[t]]
  /\ UNCHANGED <<enqueueIndex, dequeueIndex, sequence, index, item, claimed>>

EnqueueWrite(t) ==
  /\ Goto(t, "enqData", "enqPub")
  /\ data' = [data EXCEPT ![cellIndex(index[t])] = item[t]]
  /\ UNCHANGED <<enqueueIndex, dequeueIndex, sequence, index, item, claimed>>

\* Mutant: index is published instead of index + 1.
EnqueuePublishIndex(t) ==
  /\ Goto(t, "enqPub", "idle")
  /\ sequence' = [sequence EXCEPT ![cellIndex(index[t])] = index[t]]
  /\ UNCHANGED <<enqueueIndex, dequeueIndex, data, index, item, claimed>>

EnqueuePublish(t) ==
  /\ Goto(t, "enqPub", "idle")
  /\ sequence' = [sequence EXCEPT ![cellIndex(index[t])] = index[t] + 1]
  /\ UNCHANGED <<enqueueIndex, dequeueIndex, data, index, item, claimed>>

-----------------------------------------------------------------------------
\* dequeue(): the mirror image, waiting for sequence = index + 1
DequeueStart(t) ==
  /\ Goto(t, "idle", "deqSeq")
  /\ index' = [index EXCEPT ![t] = dequeueIndex]
  /\ UNCHANGED <<enqueueIndex, dequeueIndex, sequence, data, item, claimed>>

DequeueSeq(t) ==
  LET diff == sequence[cellIndex(index[t])] - (index[t] + 1) IN
  /\ \/ /\ diff = 0
        /\ Goto(t, "deqSeq", "deqCas")
     \/ /\ diff < 0
        /\ Goto(t, "deqSeq", "idle")
     \/ /\ diff > 0
        /\ Goto(t, "deqSeq", "deqLoad")
  /\ UNCHANGED <<enqueueIndex, dequeueIndex, sequence, data, index, item, claimed>>

DequeueReload(t) ==
  /\ Goto(t, "deqLoad", "deqSeq")
  /\ index' = [index EXCEPT ![t] = dequeueIndex]
  /\ UNCHANGED <<enqueueIndex, dequeueIndex, sequence, data, item, claimed>>

DequeueClaim(t) ==
  /\ dequeueIndex = index[t]
  /\ Goto(t, "deqCas", "deqData")
  /\ dequeueIndex' = dequeueIndex + 1
  /\ UNCHANGED <<enqueueIndex, sequence, data, index, item, claimed>>

DequeueCasFail(t) ==
  /\ Goto(t, "deqCas", "deqSeq")
  /\ index' = [index EXCEPT ![t] = dequeueIndex]
  /\ UNCHANGED <<enqueueIndex, dequeueIndex, sequence, data, item, claimed>>

DequeueRead(t) ==
  /\ Goto(t, "deqData", "deqPub")
  /\ item' = [item EXCEPT ![t] = data[cellIndex(index[t])]]
  /\ UNCHANGED <<enqueueIndex, dequeueIndex, sequence, data, index, claimed>>

\* Mutant: index + Mask is stored.
DequeueReleaseMask(t) ==
  /\ Goto(t, "deqPub", "idle")
  /\ sequence' = [sequence EXCEPT ![cellIndex(index[t])] = index[t] + Size - 1]
  /\ UNCHANGED <<enqueueIndex, dequeueIndex, data, index, item, claimed>>

\* index + Mask + 1: the cell now waits for the ticket one lap later
DequeueRelease(t) ==
  /\ Goto(t, "deqPub", "idle")
  /\ sequence' = [sequence EXCEPT ![cellIndex(index[t])] = index[t] + Size]
  /\ UNCHANGED <<enqueueIndex, dequeueIndex, data, index, item, claimed>>

-----------------------------------------------------------------------------
Step(t) ==
  \/ \E v \in Values : EnqueueStart(t, v)
  \/ EnqueueSeq(t) \/ EnqueueReload(t) \/ EnqueueClaim(t) \/ EnqueueCasFail(t)
  \/ EnqueueWrite(t) \/ EnqueuePublish(t)
  \/ DequeueStart(t)
  \/ DequeueSeq(t) \/ DequeueReload(t) \/ DequeueClaim(t) \/ DequeueCasFail(t)
  \/ DequeueRead(t) \/ DequeueRelease(t)

Next == \E t \in Threads : Step(t)

Spec == Init /\ [][Next]_vars

-----------------------------------------------------------------------------
Labels == {"idle", "enqSeq", "enqLoad", "enqCas", "enqData", "enqPub",
           "deqSeq", "deqLoad", "deqCas", "deqData", "deqPub"}

\* Every variable keeps its type.
TypeOK ==
  /\ enqueueIndex \in Nat
  /\ dequeueIndex \in Nat
  /\ sequence \in [Cells -> Nat]
  /\ data \in [Cells -> Values \cup {Nothing}]
  /\ pc \in [Threads -> Labels]
  /\ index \in [Threads -> Nat]
  /\ item \in [Threads -> Values \cup {Nothing}]
  /\ claimed \in Seq(Values)
  /\ \A t \in Threads : pc[t] \in {"enqSeq", "enqLoad", "enqCas"} => item[t] \in Values

Writing(t) == pc[t] \in {"enqData", "enqPub"}
Reading(t) == pc[t] \in {"deqData", "deqPub"}
Owner(t) == Writing(t) \/ Reading(t)

\* No two threads ever hold the same cell: between claiming a ticket and
\* storing the cell's sequence, a thread is alone with cells_[c].data, which
\* is a plain, unsynchronised member.
CellsExclusive ==
  \A t, u \in Threads :
    t # u /\ Owner(t) /\ Owner(u) => cellIndex(index[t]) # cellIndex(index[u])

\* enqueue() gives up only on a full queue: when no thread is inside the
\* second half of dequeue(), a false result means Size values are waiting.
\* Client::doRequest rejects the request as "Queue is full" on it.
FullIsReal ==
  [][\A t \in Threads :
       pc[t] = "enqSeq" /\ pc'[t] = "idle" /\ ~(\E u \in Threads : Reading(u))
         => enqueueIndex = dequeueIndex + Size]_vars

\* dequeue() gives up only on an empty queue: when no thread is inside the
\* second half of enqueue(), a false result means that nothing is waiting.
\* Client::processRequestQueue stops serving the host on it.
EmptyIsReal ==
  [][\A t \in Threads :
       pc[t] = "deqSeq" /\ pc'[t] = "idle" /\ ~(\E u \in Threads : Writing(u))
         => enqueueIndex = dequeueIndex]_vars

-----------------------------------------------------------------------------
\* The ring implements the abstract bounded FIFO: a value is accepted and
\* taken at the compare_exchange that claims its ticket, and what dequeue()
\* later copies out of the cell is the value enqueue() wrote for that ticket.
Hand(t) ==
  CASE pc[t] = "deqData" -> claimed[index[t] + 1]
    [] pc[t] = "deqPub" -> item[t]
    [] OTHER -> Nothing

Hands == [t \in Threads |-> Hand(t)]

Fifo == INSTANCE BoundedFifo WITH
  Capacity <- Size, log <- claimed, taken <- dequeueIndex, hand <- Hands

ImplementsFifo == Fifo!Spec
=============================================================================
