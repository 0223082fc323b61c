--------------------------- MODULE PollableQueue ---------------------------
(***************************************************************************)
(* The wake-up queue of Pistache's reactor threads                         *)
(* (include/pistache/mailbox.h, classes Queue and PollableQueue): a linked *)
(* multi-producer single-consumer list with an eventfd that makes the      *)
(* consumer's epoll_wait return.  The server Transport owns three of them  *)
(* (writes, timers, peers), the client Transport two (requests,            *)
(* connections); every one is drained by a loop that calls popSafe() until *)
(* it returns null.                                                        *)
(*                                                                         *)
(* Nodes are numbered in the order in which push() exchanges the head: the *)
(* address malloc returns is invisible until then.  The queue is bound to  *)
(* its poller before the first push and stays bound.                       *)
(***************************************************************************)
EXTENDS Integers, Sequences

CONSTANTS
  Producers,  \* the threads that call push()
  Values,     \* what they push
  Nothing,    \* storage without a constructed T, a null result
  MaxPushes   \* bound of the model: how many pushes there are

ASSUME PushesAssumption == MaxPushes \in Nat
ASSUME ValuesAssumption == Nothing \notin Values

null == -1
Nodes == 0 .. MaxPushes

VARIABLES
  head,     \* Queue::head, the newest node
  tail,     \* Queue::tail, the sentinel
  next,     \* Entry::next
  storage,  \* Entry::storage
  freed,    \* the nodes given back to the allocator
  event_fd, \* counter of the eventfd
  prev,     \* each producer's local "prev" between exchange and store
  ppc,      \* where each producer is inside push()
  cpc,      \* where the consumer is
  ret,      \* the node its pop() is going to return
  log,      \* history: the values in the order of the exchanges
  handled   \* history: the values the handler has received

qvars == <<head, tail, next, storage, freed, log>>
vars == <<head, tail, next, storage, freed, event_fd, prev, ppc, cpc, ret, log, handled>>

\* Queue() allocates the sentinel, bind() the eventfd.
Init ==
  /\ head = 0
  /\ tail = 0
  /\ next = [n \in Nodes |-> null]
  /\ storage = [n \in Nodes |-> Nothing]
  /\ freed = {}
  /\ event_fd = 0
  /\ prev = [p \in Producers |-> null]
  /\ ppc = [p \in Producers |-> "idle"]
  /\ cpc = "wait"
  /\ ret = null
  /\ log = <<>>
  /\ handled = <<>>

-----------------------------------------------------------------------------
\* push(v): construct the entry, then head.exchange(entry)
PushExchange(p, v) ==
  /\ ppc[p] = "idle"
  /\ head < MaxPushes
  /\ ppc' = [ppc EXCEPT ![p] = "link"]
  /\ prev' = [prev EXCEPT ![p] = head]
  /\ head' = head + 1
  /\ storage' = [storage EXCEPT ![head + 1] = v]
  /\ log' = Append(log, v)
  /\ UNCHANGED <<tail, next, freed, event_fd, cpc, ret, handled>>

\* prev->next = entry
PushLink(p) ==
  /\ ppc[p] = "link"
  /\ ppc' = [ppc EXCEPT ![p] = "notify"]
  /\ next' = [next EXCEPT ![prev[p]] = prev[p] + 1]
  /\ UNCHANGED <<head, tail, storage, freed, event_fd, prev, cpc, ret, log, handled>>

\* WRITE_EFD(event_fd, 1)
PushNotify(p) ==
  /\ ppc[p] = "notify"
  /\ ppc' = [ppc EXCEPT ![p] = "idle"]
  /\ prev' = [prev EXCEPT ![p] = null]
  /\ event_fd' = event_fd + 1
  /\ UNCHANGED <<qvars, cpc, ret, handled>>

-----------------------------------------------------------------------------
\* Mutant: no test of the next pointer.
QueuePopUnchecked ==
  /\ tail' = next[tail]
  /\ storage' = IF next[tail] = null THEN storage
                ELSE [storage EXCEPT ![tail] = storage[next[tail]],
                                     ![next[tail]] = Nothing]
  /\ ret' = tail

\* Mutant: the value stays in the new sentinel.
QueuePopNoMove ==
  IF next[tail] # null
    THEN /\ tail' = next[tail]
         /\ ret' = tail
         /\ UNCHANGED storage
    ELSE /\ ret' = null
         /\ UNCHANGED <<tail, storage>>

\* Queue::pop(): the node next to the sentinel becomes the sentinel, its value
\* moves into the old sentinel, which is returned.  Null if there is none.
QueuePop ==
  IF next[tail] # null
    THEN /\ tail' = next[tail]
         /\ storage' = [storage EXCEPT ![tail] = storage[next[tail]],
                                       ![next[tail]] = Nothing]
         /\ ret' = tail
    ELSE /\ ret' = null
         /\ UNCHANGED <<tail, storage>>

\* epoll_wait reports the (level-triggered) eventfd; the reactor calls the drain loop.
Wake ==
  /\ cpc = "wait"
  /\ event_fd > 0
  /\ cpc' = "pop"
  /\ UNCHANGED <<qvars, event_fd, prev, ppc, ret, handled>>

\* PollableQueue::pop(): the first attempt
Pop ==
  /\ cpc = "pop"
  /\ QueuePop
  /\ cpc' = "read"
  /\ UNCHANGED <<head, next, freed, event_fd, prev, ppc, log, handled>>

\* Mutant: no second attempt after a successful read.
ReadEventFdOnce ==
  /\ cpc = "read"
  /\ event_fd' = 0
  /\ cpc' = "return"
  /\ UNCHANGED <<qvars, prev, ppc, ret, handled>>

\* Mutant: EAGAIN does not leave the read loop.
ReadEventFdSpin ==
  /\ cpc = "read"
  /\ event_fd' = 0
  /\ cpc' = IF event_fd = 0 THEN "read" ELSE IF ret = null THEN "popAgain" ELSE "return"
  /\ UNCHANGED <<qvars, prev, ppc, ret, handled>>

\* READ_EFD resets the counter.  After a successful read a null result gets a
\* second attempt; EAGAIN (the counter was 0) ends the loop.
ReadEventFd ==
  /\ cpc = "read"
  /\ event_fd' = 0
  /\ cpc' = IF event_fd > 0 /\ ret = null THEN "popAgain" ELSE "return"
  /\ UNCHANGED <<qvars, prev, ppc, ret, handled>>

PopAgain ==
  /\ cpc = "popAgain"
  /\ QueuePop
  /\ cpc' = "return"
  /\ UNCHANGED <<head, next, freed, event_fd, prev, ppc, log, handled>>

\* Mutant: the new sentinel is freed with the entry.
HandleFreesNext ==
  /\ cpc = "return"
  /\ ret # null
  /\ handled' = Append(handled, storage[ret])
  /\ storage' = [storage EXCEPT ![ret] = Nothing]
  /\ freed' = freed \cup {ret, tail}
  /\ ret' = null
  /\ cpc' = "pop"
  /\ UNCHANGED <<head, tail, next, event_fd, prev, ppc, log>>

\* popSafe() moves the value out and deletes the entry; the drain loop hands
\* the value to its handler and comes back for more.
Handle ==
  /\ cpc = "return"
  /\ ret # null
  /\ handled' = Append(handled, storage[ret])
  /\ storage' = [storage EXCEPT ![ret] = Nothing]
  /\ freed' = freed \cup {ret}
  /\ ret' = null
  /\ cpc' = "pop"
  /\ UNCHANGED <<head, tail, next, event_fd, prev, ppc, log>>

\* A null result ends the drain loop: back to epoll_wait.
Drained ==
  /\ cpc = "return"
  /\ ret = null
  /\ cpc' = "wait"
  /\ UNCHANGED <<qvars, event_fd, prev, ppc, ret, handled>>

-----------------------------------------------------------------------------
Push(p) == (\E v \in Values : PushExchange(p, v)) \/ PushLink(p) \/ PushNotify(p)

Consumer == Wake \/ Pop \/ ReadEventFd \/ PopAgain \/ Handle \/ Drained

Next == (\E p \in Producers : Push(p)) \/ Consumer

Spec == Init /\ [][Next]_vars

\* A thread that has entered push() is eventually scheduled through it, and so
\* is the reactor thread; nobody is obliged to start a push.
Fairness ==
  /\ \A p \in Producers : WF_vars(PushLink(p)) /\ WF_vars(PushNotify(p))
  /\ WF_vars(Consumer)

FairSpec == Spec /\ Fairness

-----------------------------------------------------------------------------
TypeOK ==
  /\ head \in Nodes
  /\ tail \in Nodes
  /\ next \in [Nodes -> Nodes \cup {null}]
  /\ storage \in [Nodes -> Values \cup {Nothing}]
  /\ freed \subseteq Nodes
  /\ event_fd \in Nat
  /\ prev \in [Producers -> Nodes \cup {null}]
  /\ ppc \in [Producers -> {"idle", "link", "notify"}]
  /\ cpc \in {"wait", "pop", "read", "popAgain", "return"}
  /\ ret \in Nodes \cup {null}
  /\ log \in Seq(Values)
  /\ handled \in Seq(Values)

\* No thread writes or reads a deleted entry: the sentinel, the head, and the
\* "prev" that a suspended push() is still going to link are all alive, and
\* so is the node pop() returns.
NoUseAfterFree ==
  /\ head \notin freed
  /\ tail \notin freed
  /\ \A p \in Producers : ppc[p] = "link" => prev[p] \notin freed
  /\ ret # null => ret \notin freed

\* The reactor never sleeps on a value: if it waits in epoll_wait with the
\* eventfd clear while the queue is not empty, some push() is still on its
\* way to its write of the eventfd (the case described at mailbox.h:376).
NoLostWakeup ==
  cpc = "wait" /\ event_fd = 0 /\ head # tail =>
    \E p \in Producers : ppc[p] \in {"link", "notify"}

\* Every value pushed reaches the handler.
EveryPushHandled ==
  \A n \in 1 .. MaxPushes : (head >= n) ~> (Len(handled) >= n)

-----------------------------------------------------------------------------
\* The queue is a FIFO between its producers and its one consumer: a value is
\* accepted by the exchange of the head, taken when pop() advances the tail.
theConsumer == "consumer"

Hand == [c \in {theConsumer} |-> IF ret = null THEN Nothing ELSE storage[ret]]

Fifo == INSTANCE BoundedFifo WITH
  Threads <- {theConsumer}, Capacity <- MaxPushes, taken <- tail, hand <- Hand

ImplementsFifo == Fifo!Spec
=============================================================================
