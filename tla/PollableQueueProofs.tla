------------------------ MODULE PollableQueueProofs ------------------------
(***************************************************************************)
(* The wake-up queue, proved for any number of producers and pushes: no    *)
(* use of a deleted entry, no lost wake-up, and FIFO delivery.             *)
(***************************************************************************)
EXTENDS PollableQueue, TLAPS

InFlight == \E p \in Producers : ppc[p] \in {"link", "notify"}

\* The list: node n leads to n+1, except where a push() between its exchange
\* and its store has left a gap; every node before the tail is linked.
Chain ==
  /\ tail <= head
  /\ Len(log) = head
  /\ \A n \in Nodes : next[n] \in {null, n + 1}
  /\ \A n \in Nodes : n >= head => next[n] = null
  /\ \A n \in Nodes : n < tail => next[n] # null
  /\ \A n \in Nodes : n < head /\ next[n] = null =>
       \E p \in Producers : ppc[p] = "link" /\ prev[p] = n

\* Each gap belongs to one push().
Gaps ==
  /\ \A p \in Producers : ppc[p] = "link" =>
       prev[p] \in Nodes /\ prev[p] < head /\ next[prev[p]] = null
  /\ \A p, q \in Producers :
       p # q /\ ppc[p] = "link" /\ ppc[q] = "link" => prev[p] # prev[q]

\* The entries returned so far are deleted, except the one pop() is returning.
Lifetime ==
  /\ \A n \in freed : n < tail /\ n # ret
  /\ ret # null => ret = tail - 1 /\ cpc \in {"read", "return"}

\* The values wait in the entries after the tail, and in the returned entry.
Stored ==
  /\ \A n \in Nodes : tail < n /\ n <= head => storage[n] = log[n]
  /\ ret # null => storage[ret] = log[ret + 1]

\* Once the consumer has decided to leave its loop, what is left in the queue
\* has its notification on the way.
Awake ==
  /\ cpc \in {"wait", "read", "return"}
  /\ ret = null
  /\ event_fd = 0
  /\ head # tail
  => InFlight

IInv == TypeOK /\ Chain /\ Gaps /\ Lifetime /\ Stored /\ Awake

-----------------------------------------------------------------------------
LEMMA InitInv == Init => IInv
  BY PushesAssumption
  DEF Init, IInv, TypeOK, Chain, Gaps, Lifetime, Stored, Awake, Nodes, null

LEMMA PushExchangeInv ==
  ASSUME IInv, NEW p \in Producers, NEW v \in Values, PushExchange(p, v)
  PROVE  IInv'
  <1> USE PushesAssumption DEF IInv, PushExchange, Nodes, null
  <1>0. /\ head \in Nodes /\ tail \in Nodes /\ head + 1 \in Nodes /\ Len(log) = head
        /\ ppc \in [Producers -> {"idle", "link", "notify"}]
        /\ prev \in [Producers -> Nodes \cup {null}]
        /\ storage \in [Nodes -> Values \cup {Nothing}]
        /\ log \in Seq(Values) /\ ret \in Nodes \cup {null}
    BY DEF TypeOK, Chain
  <1>1. /\ \A q \in Producers : q # p => ppc'[q] = ppc[q] /\ prev'[q] = prev[q]
        /\ ppc[p] = "idle" /\ ppc'[p] = "link" /\ prev'[p] = head
        /\ storage'[head + 1] = v
        /\ \A n \in Nodes : n # head + 1 => storage'[n] = storage[n]
    BY <1>0
  <1>2. /\ Len(log') = head + 1 /\ log'[head + 1] = v
        /\ \A n \in 1 .. head : log'[n] = log[n]
    BY <1>0
  <1>3. TypeOK'
    BY <1>0 DEF TypeOK
  <1>4. Chain'
    <2>1. ASSUME NEW n \in Nodes, n < head + 1, next[n] = null
          PROVE  \E q \in Producers : ppc'[q] = "link" /\ prev'[q] = n
      <3>1. CASE n = head
        BY <1>1, <3>1
      <3>2. CASE n < head
        BY <1>1, <2>1, <3>2 DEF Chain
      <3> QED BY <1>0, <2>1, <3>1, <3>2
    <2> QED BY <1>0, <1>2, <2>1 DEF Chain
  <1>5. Gaps'
    BY <1>0, <1>1 DEF Gaps, Chain
  <1>6. Lifetime'
    BY DEF Lifetime
  <1>7. Stored'
    <2>1. ret # null => ret \in Nodes /\ ret + 1 \in 1 .. head /\ ret # head + 1
      BY <1>0 DEF Lifetime, Chain
    <2> QED BY <1>0, <1>1, <1>2, <2>1 DEF Stored
  <1>8. Awake'
    BY <1>1 DEF Awake, InFlight
  <1> QED BY <1>3, <1>4, <1>5, <1>6, <1>7, <1>8

LEMMA PushLinkInv ==
  ASSUME IInv, NEW p \in Producers, PushLink(p)
  PROVE  IInv'
  <1> USE PushesAssumption DEF IInv, PushLink, Nodes, null
  <1>0. /\ head \in Nodes /\ tail \in Nodes
        /\ prev[p] \in Nodes /\ prev[p] < head /\ next[prev[p]] = null
        /\ ppc \in [Producers -> {"idle", "link", "notify"}]
        /\ next \in [Nodes -> Nodes \cup {null}]
    BY DEF TypeOK, Gaps
  <1>1. /\ \A q \in Producers : q # p => ppc'[q] = ppc[q]
        /\ ppc[p] = "link" /\ ppc'[p] = "notify"
        /\ next'[prev[p]] = prev[p] + 1
        /\ \A n \in Nodes : n # prev[p] => next'[n] = next[n]
    BY <1>0
  <1>2. TypeOK'
    BY <1>0 DEF TypeOK
  <1>3. Chain'
    <2>1. ASSUME NEW n \in Nodes, n < head, next'[n] = null
          PROVE  \E q \in Producers : ppc'[q] = "link" /\ prev[q] = n
      <3>1. n # prev[p] /\ next[n] = null
        BY <1>0, <1>1, <2>1
      <3> QED BY <1>1, <2>1, <3>1 DEF Chain
    <2> QED BY <1>0, <1>1, <2>1 DEF Chain
  <1>4. Gaps'
    BY <1>0, <1>1 DEF Gaps
  <1>5. Lifetime' /\ Stored'
    BY DEF Lifetime, Stored
  <1>6. Awake'
    BY <1>1 DEF Awake, InFlight
  <1> QED BY <1>2, <1>3, <1>4, <1>5, <1>6

LEMMA PushNotifyInv ==
  ASSUME IInv, NEW p \in Producers, PushNotify(p)
  PROVE  IInv'
  <1> USE PushesAssumption DEF IInv, PushNotify, qvars, Nodes, null
  <1>0. /\ ppc \in [Producers -> {"idle", "link", "notify"}]
        /\ prev \in [Producers -> Nodes \cup {null}]
        /\ event_fd \in Nat
    BY DEF TypeOK
  <1>1. /\ \A q \in Producers : q # p => ppc'[q] = ppc[q] /\ prev'[q] = prev[q]
        /\ ppc[p] = "notify" /\ ppc'[p] = "idle" /\ event_fd' > 0
    BY <1>0
  <1>2. TypeOK'
    BY <1>0 DEF TypeOK
  <1>3. Chain'
    BY <1>1 DEF Chain
  <1>4. Gaps'
    BY <1>1 DEF Gaps
  <1>5. Lifetime' /\ Stored' /\ Awake'
    BY <1>0, <1>1 DEF Lifetime, Stored, Awake
  <1> QED BY <1>2, <1>3, <1>4, <1>5

\* Both attempts of pop(): an entry is taken, or the queue is empty up to a gap.
LEMMA QueuePopInv ==
  ASSUME IInv, QueuePop, ret = null,
         cpc' \in {"read", "return"},
         UNCHANGED <<head, next, freed, event_fd, prev, ppc, log, handled>>
  PROVE  IInv'
  <1> USE PushesAssumption DEF IInv, Nodes, null
  <1>0. /\ head \in Nodes /\ tail \in Nodes /\ tail <= head
        /\ next \in [Nodes -> Nodes \cup {null}]
        /\ storage \in [Nodes -> Values \cup {Nothing}]
        /\ next[tail] \in {null, tail + 1}
    BY DEF TypeOK, Chain
  <1>1. CASE next[tail] # null
    <2>1. /\ tail' = tail + 1 /\ tail + 1 <= head /\ tail + 1 \in Nodes /\ ret' = tail
          /\ storage' = [storage EXCEPT ![tail] = storage[tail + 1], ![tail + 1] = Nothing]
      BY <1>0, <1>1 DEF QueuePop, Chain
    <2>2. /\ storage'[tail] = storage[tail + 1]
          /\ \A n \in Nodes : n > tail + 1 => storage'[n] = storage[n]
      BY <1>0, <2>1
    <2>3. TypeOK'
      BY <1>0, <2>1 DEF TypeOK
    <2>4. Chain' /\ Gaps'
      BY <1>0, <1>1, <2>1 DEF Chain, Gaps
    <2>5. Lifetime'
      BY <1>0, <2>1 DEF Lifetime, TypeOK
    <2>6. Stored'
      BY <1>0, <2>1, <2>2 DEF Stored
    <2>7. Awake'
      BY <1>0, <2>1 DEF Awake
    <2> QED BY <2>3, <2>4, <2>5, <2>6, <2>7
  <1>2. CASE next[tail] = null
    <2>1. ret' = null /\ UNCHANGED <<tail, storage>>
      BY <1>2 DEF QueuePop
    <2>2. TypeOK' /\ Lifetime' /\ Stored'
      BY <2>1 DEF TypeOK, Lifetime, Stored
    <2>3. Chain' /\ Gaps'
      BY <2>1 DEF Chain, Gaps
    <2>4. head # tail => InFlight
      BY <1>0, <1>2 DEF Chain, InFlight
    <2>5. Awake'
      BY <2>1, <2>4 DEF Awake, InFlight
    <2> QED BY <2>2, <2>3, <2>5
  <1> QED BY <1>1, <1>2

LEMMA ConsumerInv == ASSUME IInv, Consumer PROVE IInv'
  <1> USE PushesAssumption DEF IInv, qvars, Nodes, null
  <1>1. CASE Wake
    BY <1>1 DEF Wake, TypeOK, Chain, Gaps, Lifetime, Stored, Awake
  <1>2. CASE Pop
    <2>1. ret = null
      BY <1>2 DEF Pop, Lifetime
    <2> QED BY <1>2, <2>1, QueuePopInv DEF Pop
  <1>3. CASE PopAgain
    <2>1. ret = null
      BY <1>3 DEF PopAgain, Lifetime
    <2> QED BY <1>3, <2>1, QueuePopInv DEF PopAgain
  <1>4. CASE ReadEventFd
    <2>1. TypeOK' /\ Chain' /\ Gaps' /\ Lifetime' /\ Stored'
      BY <1>4 DEF ReadEventFd, TypeOK, Chain, Gaps, Lifetime, Stored
    <2>2. Awake'
      BY <1>4 DEF ReadEventFd, TypeOK, Awake, InFlight
    <2> QED BY <2>1, <2>2
  <1>5. CASE Handle
    <2> USE <1>5 DEF Handle
    <2>1. /\ ret \in Nodes /\ tail \in Nodes /\ head \in Nodes /\ tail <= head
          /\ ret = tail - 1 /\ storage[ret] = log[ret + 1]
          /\ log \in Seq(Values) /\ Len(log) = head
      BY DEF TypeOK, Lifetime, Stored, Chain
    <2>2. storage[ret] \in Values
      BY <2>1
    <2>3. TypeOK'
      BY <2>1, <2>2 DEF TypeOK
    <2>4. Chain' /\ Gaps'
      BY DEF Chain, Gaps
    <2>5. Lifetime'
      BY <2>1 DEF Lifetime, TypeOK
    <2>6. Stored'
      BY <2>1 DEF Stored, TypeOK
    <2>7. Awake'
      BY DEF Awake
    <2> QED BY <2>3, <2>4, <2>5, <2>6, <2>7
  <1>6. CASE Drained
    BY <1>6 DEF Drained, TypeOK, Chain, Gaps, Lifetime, Stored, Awake, InFlight
  <1> QED BY <1>1, <1>2, <1>3, <1>4, <1>5, <1>6 DEF Consumer

LEMMA StepInv == IInv /\ [Next]_vars => IInv'
  <1> SUFFICES ASSUME IInv, [Next]_vars PROVE IInv'
    OBVIOUS
  <1>1. CASE UNCHANGED vars
    BY <1>1 DEF vars, IInv, TypeOK, Chain, Gaps, Lifetime, Stored, Awake, InFlight
  <1>2. CASE Next
    BY <1>2, PushExchangeInv, PushLinkInv, PushNotifyInv, ConsumerInv DEF Next, Push
  <1> QED BY <1>1, <1>2

\* The inductive invariant of push() and the drain loop.
THEOREM InvariantHolds == Spec => []IInv
  BY InitInv, StepInv, PTL DEF Spec

\* Every variable keeps its type, the moved-out storage included.
THEOREM TypeCorrect == Spec => []TypeOK
  <1>1. IInv => TypeOK
    BY DEF IInv
  <1> QED BY <1>1, InvariantHolds, PTL

\* A push() suspended before "prev->next = entry" never finds prev deleted.
THEOREM NeverUsesFreed == Spec => []NoUseAfterFree
  <1>1. IInv => NoUseAfterFree
    <2> SUFFICES ASSUME IInv PROVE NoUseAfterFree
      OBVIOUS
    <2> USE PushesAssumption DEF IInv, Nodes, null
    <2>1. head \in Nodes /\ tail \in Nodes /\ tail <= head
      BY DEF TypeOK, Chain
    <2>2. \A n \in freed : n \in Nodes /\ n < tail /\ n # ret /\ next[n] # null
      BY DEF TypeOK, Lifetime, Chain
    <2> QED BY <2>1, <2>2 DEF NoUseAfterFree, Gaps
  <1> QED BY <1>1, InvariantHolds, PTL

\* The reactor never sleeps while a value waits without a notification coming.
THEOREM WakeupsAreKept == Spec => []NoLostWakeup
  <1>1. IInv => NoLostWakeup
    BY PushesAssumption DEF IInv, TypeOK, Awake, InFlight, NoLostWakeup, Lifetime, Nodes, null
  <1> QED BY <1>1, InvariantHolds, PTL

-----------------------------------------------------------------------------
\* The queue implements the abstract FIFO: values are handled in the order of
\* the exchanges, each once, and none is lost in the move between entries.
THEOREM QueueImplementsFifo == Spec => ImplementsFifo
  <1>1. Init => Fifo!Init
    BY DEF Init, Fifo!Init, Hand
  <1>2. IInv /\ [Next]_vars => [Fifo!Next]_<<log, tail, Hand>>
    <2> SUFFICES ASSUME IInv, [Next]_vars PROVE [Fifo!Next]_<<log, tail, Hand>>
      OBVIOUS
    <2> USE PushesAssumption DEF IInv, Nodes, null
    <2>0. /\ head \in Nodes /\ tail \in Nodes /\ tail <= head
          /\ next[tail] \in {null, tail + 1} /\ ret \in Nodes \cup {null}
          /\ storage \in [Nodes -> Values \cup {Nothing}]
          /\ log \in Seq(Values) /\ Len(log) = head
      BY DEF TypeOK, Chain
    <2>1. CASE UNCHANGED <<log, tail, ret, storage>>
      BY <2>1 DEF Hand
    <2>2. ASSUME NEW p \in Producers, NEW v \in Values, PushExchange(p, v)
          PROVE  Fifo!Next
      <3>1. ret # head + 1
        BY <2>0 DEF Lifetime
      <3>2. UNCHANGED Hand
        BY <2>0, <2>2, <3>1 DEF PushExchange, Hand
      <3>3. Fifo!Put(v)
        BY <2>0, <2>2, <3>2 DEF PushExchange, Fifo!Put
      <3> QED BY <3>3 DEF Fifo!Next
    <2>3. ASSUME QueuePop, ret = null, UNCHANGED log
          PROVE  [Fifo!Next]_<<log, tail, Hand>>
      <3>1. CASE next[tail] = null
        BY <2>3, <3>1 DEF QueuePop, Hand
      <3>2. CASE next[tail] # null
        <4>1. /\ tail' = tail + 1 /\ tail + 1 <= head /\ tail + 1 \in Nodes /\ ret' = tail
              /\ storage' = [storage EXCEPT ![tail] = storage[tail + 1], ![tail + 1] = Nothing]
          BY <2>0, <2>3, <3>2 DEF QueuePop, Chain
        <4>2. storage[tail + 1] = log[tail + 1]
          BY <2>0, <4>1 DEF Stored
        <4>3. storage'[tail] = log[tail + 1] /\ ret' # null
          BY <2>0, <4>1, <4>2
        <4>4. Hand' = [Hand EXCEPT ![theConsumer] = log[tail + 1]]
          BY <4>1, <4>3 DEF Hand
        <4>5. Hand[theConsumer] = Nothing
          BY <2>3 DEF Hand
        <4>6. Fifo!Take(theConsumer)
          BY <2>0, <2>3, <4>1, <4>4, <4>5 DEF Fifo!Take
        <4> QED BY <4>6 DEF Fifo!Next
      <3> QED BY <3>1, <3>2
    <2>4. CASE Pop \/ PopAgain
      <3>1. ret = null
        BY <2>4 DEF Pop, PopAgain, Lifetime
      <3> QED BY <2>3, <2>4, <3>1 DEF Pop, PopAgain
    <2>5. CASE Handle
      <3>1. /\ ret = tail - 1 /\ ret \in Nodes /\ storage[ret] = log[ret + 1]
        BY <2>0, <2>5 DEF Handle, Lifetime, Stored
      <3>2. storage[ret] \in Values
        BY <2>0, <3>1
      <3>3. Hand[theConsumer] # Nothing
        BY <2>5, <3>2, ValuesAssumption DEF Handle, Hand
      <3>4. Hand' = [Hand EXCEPT ![theConsumer] = Nothing]
        BY <2>5 DEF Handle, Hand
      <3>5. Fifo!Return(theConsumer)
        BY <2>5, <3>3, <3>4 DEF Handle, Fifo!Return
      <3> QED BY <3>5 DEF Fifo!Next
    <2>6. CASE Wake \/ ReadEventFd \/ Drained \/ UNCHANGED vars
               \/ \E p \in Producers : PushLink(p) \/ PushNotify(p)
      BY <2>1, <2>6 DEF Wake, ReadEventFd, Drained, PushLink, PushNotify, vars, qvars
    <2> QED BY <2>2, <2>4, <2>5, <2>6 DEF Next, Push, Consumer
  <1> QED BY <1>1, <1>2, InvariantHolds, PTL DEF Spec, ImplementsFifo, Fifo!Spec
=============================================================================
