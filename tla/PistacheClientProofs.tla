------------------------ MODULE PistacheClientProofs ------------------------
(***************************************************************************)
(* What the HTTP client keeps for any number of users, transports,         *)
(* connections, requests and failures: a connection has one request at a   *)
(* time, a promise is settled once, and no response goes astray before a   *)
(* timeout.                                                                *)
(***************************************************************************)
EXTENDS PistacheClient, FiniteSetTheorems, SequenceTheorems, TLAPS

Bottom == {"dispatch", "close", "timeoutDone", "connected", "drainSends"}
Callers == [pc : Bottom \cup {"pick"}, conn : Conns \cup {None}]
Events ==
  {"connects", "sends", "shutdown", "write", "read", "timer"} \X (Conns \cup {None})
Frames ==
  [pc : UserLabels \cup TransportLabels, conn : Conns \cup {None},
   req : Requests \cup {None}, k : Nat, batch : SUBSET Events, stack : Seq(Callers)]
Marks == {"eof", "reset"}
Connections ==
  [state : {"Idle", "Used"}, status : {"NotConnected", "Connecting", "Connected"},
   transport : Transports \cup {None}, waiting : Seq(Requests),
   entry : Requests \cup {None}, timer : {"off", "armed", "expired"},
   registered : BOOLEAN, timeouts : BOOLEAN,
   connect : {"none", "pending", "attached", "resolved"},
   interest : {"none", "write", "read"}, parser : Seq(Requests),
   peer : {"none", "up", "refused", "down"}, wire : Seq(Requests),
   inbox : Seq(Requests \cup Marks)]
Sends == [conn : Conns, req : Requests]
Ios ==
  [connects : Seq(Conns), sends : Seq(Sends), timeoutsLock : BOOLEAN,
   stopHandling : BOOLEAN, shutdown : {"no", "set", "notified"}]
Clients == [queue : Seq(Requests), lock : Transports \cup {None}, stop : BOOLEAN]
Outcomes == {"new", "pending", "full", "error", "timeout"} \cup Requests

Types ==
  /\ conn \in [Conns -> Connections]
  /\ client \in Clients /\ Len(client.queue) <= QueueSize
  /\ io \in [Transports -> Ios]
  /\ answer \in [Requests -> Outcomes]
  /\ closing \in {"no", "stop", "pool", "done"}

Located ==
  {"got", "asyncPerform", "connect", "then", "connected", "watch", "perform", "asyncSend",
   "send", "register", "release", "dequeue", "timeoutDone"}
Calls ==
  {"perform", "asyncSend", "send", "register", "release", "lockQueues", "pick", "dequeue"}
Carrying == {"got", "asyncPerform", "perform"}
Holding == Carrying \cup {"dequeue", "release"}
Flying == {"asyncSend", "send"}

\* A frame of thread x: where its label needs a connection, a request or a
\* caller there is one, and the calls of a reactor end where they began.
FrameOK(x, f) ==
  /\ f \in Frames
  /\ f.pc \in Located => f.conn \in Conns
  /\ f.pc \in Carrying \cup Flying => f.req \in Requests
  /\ \A i \in 1 .. Len(f.stack) : f.stack[i].pc \in Located => f.stack[i].conn \in Conns
  /\ x \in Users =>
       /\ f.pc \in UserLabels
       /\ f.pc \in {"pick", "enqueue"} => f.req \in Requests
       /\ \A i \in 1 .. Len(f.stack) : f.stack[i].pc = "connected"
  /\ x \in Transports =>
       /\ f.pc \in TransportLabels
       /\ f.pc \in Calls => f.stack # <<>>
       /\ \A i \in 1 .. Len(f.stack) : f.stack[i].pc = "pick" => i < Len(f.stack)

Framed == th \in [Threads -> Frames] /\ \A x \in Threads : FrameOK(x, th[x])

\* A user's connection has its transport from associateTransport on.
PlacedLabels == {"asyncPerform", "connect", "then", "connected", "perform", "asyncSend"}
Placed(x, f) ==
  x \in Users =>
    /\ f.pc \in PlacedLabels => conn[f.conn].transport # None
    /\ \A i \in 1 .. Len(f.stack) : conn[f.stack[i].conn].transport # None

Associated == \A x \in Threads : Placed(x, th[x])

\* What a mark in the input says of the peer.
Input(c) ==
  /\ \A i \in 1 .. Len(conn[c].inbox) - 1 : conn[c].inbox[i] \in Requests
  /\ conn[c].inbox # <<>> =>
       /\ conn[c].inbox[Len(conn[c].inbox)] \in Requests <=> conn[c].peer = "up"
       /\ conn[c].peer \in {"up", "down"}
  /\ conn[c].wire # <<>> => conn[c].peer = "up"

Inputs == \A c \in Conns : Input(c)

\* The use of connection c is in one place: its entry, its queue, or a thread.
Holder(x, c) == th[x].conn = c /\ th[x].pc \in Holding

Token(c) ==
  /\ conn[c].entry # None => conn[c].waiting = <<>>
  /\ Len(conn[c].waiting) <= 1
  /\ conn[c].entry # None \/ conn[c].waiting # <<>> => \A x \in Threads : ~Holder(x, c)
  /\ \A x, y \in Threads : Holder(x, c) /\ Holder(y, c) => x = y
  /\ conn[c].state = "Idle" =>
       /\ conn[c].entry = None /\ conn[c].waiting = <<>>
       /\ \A x \in Threads : ~Holder(x, c)

Tokens == \A c \in Conns : Token(c)

\* A request is with one connection, or in the queue, or with one user, and
\* then nobody has answered it.
With(c, r) ==
  \/ conn[c].entry = r
  \/ \E i \in 1 .. Len(conn[c].waiting) : conn[c].waiting[i] = r
  \/ \E x \in Threads : th[x].conn = c /\ th[x].pc \in Carrying /\ th[x].req = r
InQueue(r) == \E i \in 1 .. Len(client.queue) : client.queue[i] = r
WithUser(u, r) == th[u].pc \in {"pick", "enqueue"} /\ th[u].req = r

Unique(r) ==
  /\ \A c, d \in Conns : With(c, r) /\ With(d, r) => c = d
  /\ \A u, v \in Users : WithUser(u, r) /\ WithUser(v, r) => u = v
  /\ \A u \in Users : WithUser(u, r) => ~InQueue(r) /\ \A c \in Conns : ~With(c, r)
  /\ InQueue(r) => \A c \in Conns : ~With(c, r)
  /\ \A i, j \in 1 .. Len(client.queue) :
       client.queue[i] = r /\ client.queue[j] = r => i = j
  /\ InQueue(r) => answer[r] = "pending"
  /\ \A u \in Users : WithUser(u, r) => answer[r] = "pending"
  /\ \A c \in Conns : With(c, r) => answer[r] = "pending"

AllUnique == \A r \in Requests : Unique(r)

\* A notified reactor is not inside a batch, and shutdown() notifies them all
\* before it goes on.
Closed ==
  /\ \A t \in Transports : io[t].shutdown = "notified" => ~Handling(t)
  /\ closing # "no" => \A t \in Transports : io[t].shutdown = "notified"

\* Before the first timeout a live connection has one request under way, which
\* is its entry.
NoTimeout == \A r \in Requests : answer[r] # "timeout"
Fly(x, c) == th[x].conn = c /\ th[x].pc \in Flying
Queued(t, i, c) == io[t].sends[i].conn = c

Alone(c) ==
  /\ conn[c].parser = <<>>
  /\ \A x \in Threads : Fly(x, c) =>
       /\ th[x].req = conn[c].entry
       /\ \A y \in Threads : Fly(y, c) => x = y
       /\ \A t \in Transports : \A i \in 1 .. Len(io[t].sends) : ~Queued(t, i, c)
       /\ conn[c].wire = <<>> /\ conn[c].inbox = <<>>
  /\ \A t \in Transports : \A i \in 1 .. Len(io[t].sends) : Queued(t, i, c) =>
       /\ io[t].sends[i].req = conn[c].entry
       /\ \A s \in Transports : \A j \in 1 .. Len(io[s].sends) : Queued(s, j, c) => s = t /\ i = j
       /\ conn[c].wire = <<>> /\ conn[c].inbox = <<>>
  /\ conn[c].wire # <<>> => conn[c].wire = <<conn[c].entry>> /\ conn[c].inbox = <<>>
  /\ conn[c].inbox # <<>> => conn[c].inbox = <<conn[c].entry>>

AllAlone == \A c \in Conns : conn[c].peer \in {"none", "up"} => Alone(c)
Own == NoTimeout => OwnResponse /\ AllAlone

IInv ==
  Types /\ Framed /\ Associated /\ Inputs /\ Tokens /\ AllUnique /\ Closed /\ Own

Once == \A r \in Requests : Answered(r) => answer'[r] = answer[r]

-----------------------------------------------------------------------------
\* Frames.
LEMMA Numbers ==
  /\ NConns \in Nat /\ NConns >= 1 /\ QueueSize \in Nat /\ Conns \subseteq Nat
  /\ IsFiniteSet(Conns)
<1>1. NConns \in Nat \ {0} /\ QueueSize \in Nat
  BY ClientAssumption
<1>2. IsFiniteSet(Conns)
  BY <1>1, FS_Interval DEF Conns
<1> QED
  BY <1>1, <1>2 DEF Conns

\* A jump inside a frame.
LEMMA GotoFrame ==
  ASSUME NEW x \in Threads, NEW f, FrameOK(x, f), NEW l \in UserLabels \cup TransportLabels,
         x \in Users => l \in UserLabels,
         x \in Transports => l \in TransportLabels,
         l \in Located => f.conn \in Conns,
         l \in Carrying \cup Flying => f.req \in Requests,
         x \in Users /\ l \in {"pick", "enqueue"} => f.req \in Requests,
         x \in Transports /\ l \in Calls => f.stack # <<>>
  PROVE  /\ FrameOK(x, [f EXCEPT !.pc = l])
         /\ [f EXCEPT !.pc = l].pc = l /\ [f EXCEPT !.pc = l].conn = f.conn
         /\ [f EXCEPT !.pc = l].req = f.req
<1>1. f \in Frames
  BY DEF FrameOK
<1>2. PICK g : g = [f EXCEPT !.pc = l]
  OBVIOUS
<1>3. g \in Frames /\ g.pc = l /\ g.conn = f.conn /\ g.req = f.req /\ g.stack = f.stack
  BY <1>1, <1>2 DEF Frames
<1>4. FrameOK(x, g)
  BY <1>3 DEF FrameOK
<1> QED
  BY <1>2, <1>3, <1>4

\* A return: the caller holds nothing and flies nothing.
LEMMA BackFrame ==
  ASSUME NEW x \in Threads, NEW f, FrameOK(x, f), x \in Transports => f.stack # <<>>
  PROVE  /\ FrameOK(x, Back(f))
         /\ Back(f).pc \in Bottom \cup {"pick", "idle"}
         /\ x \in Users => Back(f).pc \in {"idle", "connected"}
         /\ x \in Transports => Back(f).pc \in Bottom \cup {"pick"}
<1>1. f \in Frames
  BY DEF FrameOK
<1>2. PICK g : g = Back(f)
  OBVIOUS
<1>3. CASE f.stack = <<>>
  <2>1. g = [f EXCEPT !.pc = "idle", !.conn = None]
    BY <1>2, <1>3 DEF Back
  <2>2. g \in Frames /\ g.pc = "idle" /\ g.stack = <<>>
    BY <1>1, <1>3, <2>1 DEF Frames, UserLabels
  <2>3. x \in Users /\ x \notin Transports
    BY <1>3 DEF Threads
  <2>4. FrameOK(x, g)
    BY <2>2, <2>3 DEF FrameOK, Located, Carrying, Flying, UserLabels
  <2> QED
    BY <1>2, <2>2, <2>3, <2>4
<1>4. CASE f.stack # <<>>
  <2>1. f.stack \in Seq(Callers)
    BY <1>1 DEF Frames
  <2>2. /\ Head(f.stack) = f.stack[1] /\ f.stack[1] \in Callers
        /\ Tail(f.stack) \in Seq(Callers) /\ Len(Tail(f.stack)) = Len(f.stack) - 1
        /\ \A i \in 1 .. Len(Tail(f.stack)) : Tail(f.stack)[i] = f.stack[i + 1]
        /\ Len(f.stack) \in Nat /\ Len(f.stack) >= 1
    BY <1>4, <2>1, HeadTailProperties, EmptySeq
  <2>3. PICK h, tl : h = f.stack[1] /\ tl = Tail(f.stack)
    OBVIOUS
  <2>4. g = [f EXCEPT !.pc = h.pc, !.conn = h.conn, !.stack = tl, !.k = 1]
    BY <1>2, <1>4, <2>2, <2>3 DEF Back
  <2>5. h.pc \in Bottom \cup {"pick"} /\ h.conn \in Conns \cup {None}
    BY <2>2, <2>3 DEF Callers
  <2>6. Bottom \cup {"pick"} \subseteq UserLabels \cup TransportLabels
    BY DEF Bottom, UserLabels, TransportLabels
  <2>7. /\ g \in Frames /\ g.pc = h.pc /\ g.conn = h.conn /\ g.stack = tl
    BY <1>1, <2>2, <2>3, <2>4, <2>5, <2>6 DEF Frames
  <2>8. \A i \in 1 .. Len(tl) : tl[i] = f.stack[i + 1] /\ i + 1 \in 1 .. Len(f.stack)
    BY <2>2, <2>3
  <2>9. 1 \in 1 .. Len(f.stack)
    BY <2>2
  <2>10. h.pc \in Located => h.conn \in Conns
    BY <2>3, <2>9 DEF FrameOK
  <2>11. \A i \in 1 .. Len(tl) : tl[i].pc \in Located => tl[i].conn \in Conns
    BY <2>8 DEF FrameOK
  <2>12. ASSUME x \in Users
         PROVE  h.pc = "connected" /\ \A i \in 1 .. Len(tl) : tl[i].pc = "connected"
    BY <2>3, <2>8, <2>9, <2>12 DEF FrameOK
  <2>13. ASSUME x \in Transports
         PROVE  /\ h.pc = "pick" => tl # <<>>
                /\ \A i \in 1 .. Len(tl) : tl[i].pc = "pick" => i < Len(tl)
    <3>1. h.pc = "pick" => 1 < Len(f.stack)
      BY <2>3, <2>9, <2>13 DEF FrameOK
    <3>2. h.pc = "pick" => Len(tl) # 0
      BY <2>2, <2>3, <3>1
    <3>3. \A i \in 1 .. Len(tl) : tl[i].pc = "pick" => i + 1 < Len(f.stack)
      BY <2>8, <2>13 DEF FrameOK
    <3>4. Len(tl) = Len(f.stack) - 1 /\ Len(f.stack) \in Nat
      BY <2>2, <2>3
    <3>5. \A i \in 1 .. Len(tl) : tl[i].pc = "pick" => i < Len(tl)
      BY <3>3, <3>4
    <3>6. h.pc = "pick" => tl # <<>>
      BY <3>2
    <3> QED
      BY <3>5, <3>6
  <2>14. h.pc \in Calls => h.pc = "pick"
    BY <2>5 DEF Bottom, Calls
  <2>15. FrameOK(x, g)
    <3>1. x \in Users => g.pc \in UserLabels /\ g.pc \notin {"pick", "enqueue"}
      BY <2>7, <2>12 DEF UserLabels
    <3>2. x \in Transports => g.pc \in TransportLabels
      BY <2>5, <2>7 DEF Bottom, TransportLabels
    <3>3. g.pc \notin Carrying \cup Flying
      BY <2>5, <2>7 DEF Bottom, Carrying, Flying
    <3>4. x \in Transports /\ g.pc \in Calls => g.stack # <<>>
      BY <2>7, <2>13, <2>14
    <3> QED
      BY <2>7, <2>10, <2>11, <2>12, <2>13, <3>1, <3>2, <3>3, <3>4 DEF FrameOK
  <2>16. x \in Users => g.pc = "connected"
    BY <2>7, <2>12
  <2> QED
    BY <1>2, <2>5, <2>7, <2>15, <2>16
<1> QED
  BY <1>3, <1>4

\* A frame g called from f, to come back to a caller e.
LEMMA PushFrame ==
  ASSUME NEW x \in Threads, NEW f, FrameOK(x, f), NEW e \in Callers, NEW g \in Frames,
         e.pc \in Located => e.conn \in Conns,
         x \in Users => e.pc = "connected",
         x \in Transports /\ e.pc = "pick" => f.stack # <<>>,
         g.stack = <<e>> \o f.stack,
         x \in Users => g.pc \in UserLabels /\ g.pc \notin {"pick", "enqueue"},
         x \in Transports => g.pc \in TransportLabels,
         g.pc \in Located => g.conn \in Conns,
         g.pc \in Carrying \cup Flying => g.req \in Requests
  PROVE  FrameOK(x, g)
<1>1. PICK st : st = <<e>> \o f.stack
  OBVIOUS
<1>2. f.stack \in Seq(Callers) /\ <<e>> \in Seq(Callers)
  BY DEF FrameOK, Frames
<1>3. /\ st \in Seq(Callers) /\ Len(st) = 1 + Len(f.stack) /\ Len(f.stack) \in Nat
      /\ \A i \in 1 .. Len(st) : st[i] = IF i = 1 THEN e ELSE f.stack[i - 1]
  BY <1>1, <1>2, ConcatProperties
<1>4. \A i \in 1 .. Len(st) : i = 1 \/ i - 1 \in 1 .. Len(f.stack)
  BY <1>3
<1>5. \A i \in 1 .. Len(st) : st[i].pc \in Located => st[i].conn \in Conns
  BY <1>3, <1>4 DEF FrameOK
<1>6. x \in Users => \A i \in 1 .. Len(st) : st[i].pc = "connected"
  BY <1>3, <1>4 DEF FrameOK
<1>7. ASSUME x \in Transports, NEW i \in 1 .. Len(st), st[i].pc = "pick"
      PROVE  i < Len(st)
  <2>1. CASE i = 1
    <3>1. e.pc = "pick"
      BY <1>3, <1>7, <2>1
    <3>2. Len(f.stack) # 0
      BY <1>2, <1>7, <3>1, EmptySeq
    <3> QED
      BY <1>3, <2>1, <3>2
  <2>2. CASE i # 1
    <3>1. i - 1 \in 1 .. Len(f.stack) /\ f.stack[i - 1].pc = "pick"
      BY <1>3, <1>4, <1>7, <2>2
    <3>2. i - 1 < Len(f.stack)
      BY <1>7, <3>1 DEF FrameOK
    <3> QED
      BY <1>3, <3>2
  <2> QED
    BY <2>1, <2>2
<1>8. st # <<>>
  BY <1>3
<1> QED
  BY <1>1, <1>5, <1>6, <1>7, <1>8 DEF FrameOK

\* A call from a frame f, to come back to label b.
LEMMA CallFrame ==
  ASSUME NEW x \in Threads, NEW f, FrameOK(x, f), NEW b \in Bottom \cup {"pick"},
         NEW l \in UserLabels \cup TransportLabels,
         x \in Users => l \in UserLabels /\ l \notin {"pick", "enqueue"} /\ b = "connected",
         x \in Transports => l \in TransportLabels /\ (b = "pick" => f.stack # <<>>),
         f.conn \in Conns, l \in Carrying \cup Flying => f.req \in Requests
  PROVE  /\ FrameOK(x, Call(f, b, l))
         /\ Call(f, b, l).pc = l /\ Call(f, b, l).conn = f.conn /\ Call(f, b, l).req = f.req
<1>1. f \in Frames
  BY DEF FrameOK
<1>2. PICK g, e, st : g = Call(f, b, l) /\ e = [pc |-> b, conn |-> f.conn] /\ st = <<e>> \o f.stack
  OBVIOUS
<1>3. e \in Callers /\ e.pc = b /\ e.conn = f.conn
  BY <1>2 DEF Callers
<1>4. f.stack \in Seq(Callers) /\ <<e>> \in Seq(Callers)
  BY <1>1, <1>3 DEF Frames
<1>5. st \in Seq(Callers)
  BY <1>2, <1>4, ConcatProperties
<1>6. g = [f EXCEPT !.pc = l, !.stack = st]
  BY <1>2 DEF Call
<1>7. g \in Frames /\ g.pc = l /\ g.conn = f.conn /\ g.req = f.req /\ g.stack = st
  BY <1>1, <1>5, <1>6 DEF Frames
<1>8. FrameOK(x, g)
  BY <1>2, <1>3, <1>7, PushFrame
<1> QED
  BY <1>2, <1>7, <1>8

\* The same jumps, returns and calls keep a user's connections associated.
LEMMA GotoPlaced ==
  ASSUME NEW x \in Threads, NEW f, FrameOK(x, f), Placed(x, f), NEW l,
         x \in Users /\ l \in PlacedLabels => conn[f.conn].transport # None
  PROVE  Placed(x, [f EXCEPT !.pc = l])
<1>1. f \in Frames
  BY DEF FrameOK
<1>2. PICK g : g = [f EXCEPT !.pc = l]
  OBVIOUS
<1>3. g.pc = l /\ g.conn = f.conn /\ g.stack = f.stack
  BY <1>1, <1>2 DEF Frames
<1> QED
  BY <1>2, <1>3 DEF Placed

LEMMA BackPlaced ==
  ASSUME NEW x \in Threads, NEW f, FrameOK(x, f), Placed(x, f)
  PROVE  Placed(x, Back(f))
<1> SUFFICES ASSUME x \in Users PROVE Placed(x, Back(f))
  BY DEF Placed
<1>1. f \in Frames /\ f.stack \in Seq(Callers)
  BY DEF FrameOK, Frames
<1>2. PICK g : g = Back(f)
  OBVIOUS
<1>3. CASE f.stack = <<>>
  <2>1. g = [f EXCEPT !.pc = "idle", !.conn = None]
    BY <1>2, <1>3 DEF Back
  <2>2. g.pc = "idle" /\ g.stack = <<>>
    BY <1>1, <1>3, <2>1 DEF Frames
  <2>3. 1 .. Len(g.stack) = {}
    BY <2>2
  <2> QED
    BY <1>2, <2>2, <2>3 DEF Placed, PlacedLabels
<1>4. CASE f.stack # <<>>
  <2>1. /\ Head(f.stack) = f.stack[1] /\ Tail(f.stack) \in Seq(Callers)
        /\ Len(Tail(f.stack)) = Len(f.stack) - 1
        /\ \A i \in 1 .. Len(Tail(f.stack)) : Tail(f.stack)[i] = f.stack[i + 1]
        /\ Len(f.stack) \in Nat /\ Len(f.stack) >= 1
    BY <1>1, <1>4, HeadTailProperties, EmptySeq
  <2>2. PICK h, tl : h = f.stack[1] /\ tl = Tail(f.stack)
    OBVIOUS
  <2>3. g = [f EXCEPT !.pc = h.pc, !.conn = h.conn, !.stack = tl, !.k = 1]
    BY <1>2, <1>4, <2>1, <2>2 DEF Back
  <2>4. g.conn = h.conn /\ g.stack = tl
    BY <1>1, <2>3 DEF Frames
  <2>5. 1 \in 1 .. Len(f.stack) /\ \A i \in 1 .. Len(tl) : i + 1 \in 1 .. Len(f.stack)
    BY <2>1, <2>2
  <2> QED
    BY <1>2, <2>1, <2>2, <2>4, <2>5 DEF Placed
<1> QED
  BY <1>3, <1>4

LEMMA CallPlaced ==
  ASSUME NEW x \in Threads, NEW f, FrameOK(x, f), Placed(x, f), NEW b, NEW l,
         x \in Users => conn[f.conn].transport # None
  PROVE  Placed(x, Call(f, b, l))
<1> SUFFICES ASSUME x \in Users PROVE Placed(x, Call(f, b, l))
  BY DEF Placed
<1>1. f \in Frames
  BY DEF FrameOK
<1>2. PICK g, e, st : g = Call(f, b, l) /\ e = [pc |-> b, conn |-> f.conn] /\ st = <<e>> \o f.stack
  OBVIOUS
<1>3. e.conn = f.conn
  BY <1>2
<1>4. g = [f EXCEPT !.pc = l, !.stack = st]
  BY <1>2 DEF Call
<1>5. g.conn = f.conn /\ g.stack = st
  BY <1>1, <1>4 DEF Frames
<1>6. f.stack \in Seq(Callers)
  BY <1>1 DEF Frames
<1>7. Len(f.stack) \in Nat /\ \A i \in 1 .. Len(f.stack) : f.stack[i] \in Callers
  BY <1>6
<1>8. PICK A : e \in A /\ \A i \in 1 .. Len(f.stack) : f.stack[i] \in A
  <2>1. e \in Callers \cup {e} /\ \A i \in 1 .. Len(f.stack) : f.stack[i] \in Callers \cup {e}
    BY <1>7
  <2> QED
    BY <2>1
<1>9. f.stack \in Seq(A) /\ <<e>> \in Seq(A)
  BY <1>6, <1>7, <1>8
<1>10. /\ Len(st) = 1 + Len(f.stack)
       /\ \A i \in 1 .. Len(st) : st[i] = IF i = 1 THEN e ELSE f.stack[i - 1]
  BY <1>2, <1>9, ConcatProperties
<1>11. \A i \in 1 .. Len(st) : i = 1 \/ i - 1 \in 1 .. Len(f.stack)
  BY <1>7, <1>10
<1>12. \A i \in 1 .. Len(st) : conn[st[i].conn].transport # None
  BY <1>3, <1>10, <1>11 DEF Placed
<1> QED
  BY <1>2, <1>5, <1>12 DEF Placed

-----------------------------------------------------------------------------
\* What most steps leave alone, by the part of the state.
Plain(x, g) ==
  /\ g.pc \notin Holding \cup Flying
  /\ x \in Users => g.pc \notin {"pick", "enqueue"}
SameTokens ==
  \A c \in Conns : /\ conn'[c].entry = conn[c].entry /\ conn'[c].waiting = conn[c].waiting
                   /\ conn'[c].state = conn[c].state
SameTransports == \A c \in Conns : conn'[c].transport = conn[c].transport
SameInput(c) ==
  conn'[c].peer = conn[c].peer /\ conn'[c].wire = conn[c].wire /\ conn'[c].inbox = conn[c].inbox
SameFlight ==
  \A c \in Conns : SameInput(c) /\ conn'[c].parser = conn[c].parser
SameSends == \A t \in Transports : io'[t].sends = io[t].sends
SameClosing ==
  closing' = closing /\ \A t \in Transports : io'[t].shutdown = io[t].shutdown
SameQueue == client'.queue = client.queue

NoNewHolder == \A x \in Threads : \A c \in Conns : Holder(x, c)' => Holder(x, c)
NoNewCarrier ==
  \A x \in Threads : th'[x].pc \in Carrying =>
    th[x].pc \in Carrying /\ th'[x].conn = th[x].conn /\ th'[x].req = th[x].req
NoNewUser == \A u \in Users : \A r \in Requests : WithUser(u, r)' => WithUser(u, r)
NoNewFly ==
  \A x \in Threads : \A c \in Conns : Fly(x, c)' => Fly(x, c) /\ th'[x].req = th[x].req
NoNewWith == \A c \in Conns : \A r \in Requests : With(c, r)' => With(c, r)

LEMMA Moved ==
  ASSUME Framed, NEW x \in Threads, NEW g, FrameOK(x, g), th' = [th EXCEPT ![x] = g]
  PROVE  /\ Framed' /\ th'[x] = g
         /\ \A y \in Threads : y # x => th'[y] = th[y]
<1>1. th \in [Threads -> Frames] /\ g \in Frames
  BY DEF Framed, FrameOK
<1>2. th' \in [Threads -> Frames] /\ th'[x] = g /\ \A y \in Threads : y # x => th'[y] = th[y]
  BY <1>1
<1>3. \A y \in Threads : FrameOK(y, th'[y])
  BY <1>2 DEF Framed
<1>4. Framed'
  BY <1>2, <1>3 DEF Framed, FrameOK
<1> QED
  BY <1>2, <1>4

LEMMA PlainMove ==
  ASSUME Framed, NEW x \in Threads, NEW g, FrameOK(x, g), Plain(x, g), th' = [th EXCEPT ![x] = g]
  PROVE  Framed' /\ NoNewHolder /\ NoNewCarrier /\ NoNewUser /\ NoNewFly
<1>1. Framed' /\ th'[x] = g /\ \A y \in Threads : y # x => th'[y] = th[y]
  BY Moved
<1>2. NoNewHolder
  BY <1>1 DEF NoNewHolder, Holder, Plain
<1>3. NoNewCarrier
  BY <1>1 DEF NoNewCarrier, Plain, Holding
<1>4. NoNewUser
  BY <1>1 DEF NoNewUser, WithUser, Plain, Threads
<1>5. NoNewFly
  BY <1>1 DEF NoNewFly, Fly, Plain
<1> QED
  BY <1>1, <1>2, <1>3, <1>4, <1>5

LEMMA NoMove ==
  ASSUME Framed, th' = th
  PROVE  Framed' /\ NoNewHolder /\ NoNewCarrier /\ NoNewUser /\ NoNewFly
BY DEF Framed, FrameOK, NoNewHolder, Holder, NoNewCarrier, NoNewUser, WithUser, NoNewFly, Fly, Threads

\* associateTransport is for good.
LEMMA AssociatedKept ==
  ASSUME Framed, Associated, SameTransports, NEW x \in Threads, NEW g, FrameOK(x, g),
         Placed(x, g), th' = [th EXCEPT ![x] = g]
  PROVE  Associated'
<1>1. th'[x] = g /\ \A y \in Threads : y # x => th'[y] = th[y]
  BY Moved
<1>2. ASSUME NEW y \in Users, NEW f, FrameOK(y, f), Placed(y, f)
      PROVE  /\ f.pc \in PlacedLabels => conn'[f.conn].transport # None
             /\ \A i \in 1 .. Len(f.stack) : conn'[f.stack[i].conn].transport # None
  <2>1. f.pc \in PlacedLabels => f.conn \in Conns
    BY <1>2 DEF FrameOK, PlacedLabels, Located
  <2>2. \A i \in 1 .. Len(f.stack) : f.stack[i].conn \in Conns
    BY <1>2 DEF FrameOK, Located
  <2> QED
    BY <1>2, <2>1, <2>2 DEF Placed, SameTransports
<1>3. ASSUME NEW y \in Threads PROVE Placed(y, th[y])'
  <2>1. PICK f : f = th'[y]
    OBVIOUS
  <2>2. FrameOK(y, f) /\ Placed(y, f)
    BY <1>1, <2>1 DEF Framed, Associated
  <2>3. y \in Users =>
           /\ f.pc \in PlacedLabels => conn'[f.conn].transport # None
           /\ \A i \in 1 .. Len(f.stack) : conn'[f.stack[i].conn].transport # None
    BY <1>2, <2>2
  <2> QED
    BY <2>1, <2>3 DEF Placed
<1> QED
  BY <1>3 DEF Associated

LEMMA AssociatedStill ==
  ASSUME Framed, Associated, SameTransports, th' = th
  PROVE  Associated'
<1>1. ASSUME NEW y \in Threads PROVE Placed(y, th[y])'
  <2>1. FrameOK(y, th[y]) /\ Placed(y, th[y])
    BY DEF Framed, Associated
  <2>2. y \in Users /\ th[y].pc \in PlacedLabels => th[y].conn \in Conns
    BY <2>1 DEF FrameOK, PlacedLabels, Located
  <2>3. y \in Users => \A i \in 1 .. Len(th[y].stack) : th[y].stack[i].conn \in Conns
    BY <2>1 DEF FrameOK, Located
  <2> QED
    BY <2>1, <2>2, <2>3 DEF Placed, SameTransports
<1> QED
  BY <1>1 DEF Associated

LEMMA TokensKept ==
  ASSUME Tokens, NoNewHolder, SameTokens
  PROVE  Tokens'
<1> SUFFICES ASSUME NEW c \in Conns PROVE Token(c)'
  BY DEF Tokens
<1>1. \A x \in Threads : Holder(x, c)' => Holder(x, c)
  BY DEF NoNewHolder
<1>2. /\ conn'[c].entry = conn[c].entry /\ conn'[c].waiting = conn[c].waiting
      /\ conn'[c].state = conn[c].state
  BY DEF SameTokens
<1>3. Token(c)
  BY DEF Tokens
<1> QED
  BY <1>1, <1>2, <1>3 DEF Token

LEMMA TokensStep ==
  ASSUME Tokens, NEW c \in Conns, Token(c)',
         \A d \in Conns : d # c =>
           /\ conn'[d].entry = conn[d].entry /\ conn'[d].waiting = conn[d].waiting
           /\ conn'[d].state = conn[d].state
           /\ \A x \in Threads : Holder(x, d)' => Holder(x, d)
  PROVE  Tokens'
<1> SUFFICES ASSUME NEW d \in Conns, d # c PROVE Token(d)'
  BY DEF Tokens
<1>1. \A x \in Threads : Holder(x, d)' => Holder(x, d)
  OBVIOUS
<1>2. /\ conn'[d].entry = conn[d].entry /\ conn'[d].waiting = conn[d].waiting
      /\ conn'[d].state = conn[d].state
  OBVIOUS
<1>3. Token(d)
  BY DEF Tokens
<1> QED
  BY <1>1, <1>2, <1>3 DEF Token

LEMMA WithKept ==
  ASSUME NoNewCarrier,
         \A c \in Conns : conn'[c].entry = conn[c].entry /\ conn'[c].waiting = conn[c].waiting
  PROVE  NoNewWith
BY DEF NoNewCarrier, NoNewWith, With

\* Nothing new is under way; the promises of what no longer is may be settled.
LEMMA UniqueKept ==
  ASSUME AllUnique, NoNewWith, NoNewUser, SameQueue,
         \A r \in Requests : answer'[r] = answer[r] \/
           /\ ~InQueue(r)
           /\ \A u \in Users : ~WithUser(u, r)'
           /\ \A c \in Conns : ~With(c, r)'
  PROVE  AllUnique'
<1> SUFFICES ASSUME NEW r \in Requests PROVE Unique(r)'
  BY DEF AllUnique
<1>1. \A c \in Conns : With(c, r)' => With(c, r)
  BY DEF NoNewWith
<1>2. \A u \in Users : WithUser(u, r)' => WithUser(u, r)
  BY DEF NoNewUser
<1>3. InQueue(r)' <=> InQueue(r)
  BY DEF SameQueue, InQueue
<1>4. Unique(r)
  BY DEF AllUnique
<1>5. answer'[r] = answer[r] \/
           /\ ~InQueue(r)
           /\ \A u \in Users : ~WithUser(u, r)'
           /\ \A c \in Conns : ~With(c, r)'
  OBVIOUS
<1>6. \A i, j \in 1 .. Len(client'.queue) :
       client'.queue[i] = r /\ client'.queue[j] = r => i = j
  BY <1>4 DEF Unique, SameQueue
<1> QED
  BY <1>1, <1>2, <1>3, <1>4, <1>5, <1>6 DEF Unique

\* The same for one request, whatever becomes of the others.
LEMMA UniqueOne ==
  ASSUME NEW r \in Requests, Unique(r),
         \A c \in Conns : With(c, r)' => With(c, r),
         \A u \in Users : WithUser(u, r)' => WithUser(u, r),
         InQueue(r)' => InQueue(r),
         \A i, j \in 1 .. Len(client'.queue) :
           client'.queue[i] = r /\ client'.queue[j] = r => i = j,
         answer'[r] = answer[r]
  PROVE  Unique(r)'
BY DEF Unique

LEMMA InputsKept ==
  ASSUME Inputs, \A c \in Conns : SameInput(c)
  PROVE  Inputs'
BY DEF Inputs, Input, SameInput

LEMMA InputsStep ==
  ASSUME Inputs, NEW c \in Conns, Input(c)', \A d \in Conns : d # c => SameInput(d)
  PROVE  Inputs'
BY DEF Inputs, Input, SameInput

LEMMA ClosedKept ==
  ASSUME Closed, SameClosing, Framed, NEW x \in Threads, NEW g,
         th' = [th EXCEPT ![x] = g],
         x \in Transports =>
           th[x].pc \notin {"poll", "ready", "stopped"} \/ io[x].shutdown # "notified"
             \/ g.pc \in {"poll", "ready", "stopped"}
  PROVE  Closed'
<1>1. th'[x] = g /\ \A y \in Threads : y # x => th'[y] = th[y]
  BY DEF Framed
<1>2. ASSUME NEW t \in Transports, io'[t].shutdown = "notified" PROVE ~Handling(t)'
  <2>1. io[t].shutdown = "notified" /\ ~Handling(t)
    BY <1>2 DEF SameClosing, Closed
  <2> QED
    BY <1>1, <1>2, <2>1 DEF Handling, Threads
<1> QED
  BY <1>2 DEF Closed, SameClosing

LEMMA ClosedStill ==
  ASSUME Closed, SameClosing, th' = th
  PROVE  Closed'
BY DEF Closed, SameClosing, Handling

LEMMA AloneKept ==
  ASSUME NEW c \in Conns, Alone(c), conn'[c].wire = conn[c].wire,
         conn'[c].inbox = conn[c].inbox, conn'[c].parser = conn[c].parser,
         conn'[c].entry = conn[c].entry, SameSends,
         \A x \in Threads : Fly(x, c)' => Fly(x, c) /\ th'[x].req = th[x].req
  PROVE  Alone(c)'
<1>1. \A t \in Transports : \A i \in 1 .. Len(io'[t].sends) :
        i \in 1 .. Len(io[t].sends) /\ io'[t].sends[i] = io[t].sends[i]
  BY DEF SameSends
<1>2. \A t \in Transports : \A i : Queued(t, i, c)' <=> Queued(t, i, c)
  BY DEF SameSends, Queued
<1>3. /\ conn'[c].wire = conn[c].wire /\ conn'[c].inbox = conn[c].inbox
      /\ conn'[c].entry = conn[c].entry /\ conn'[c].parser = conn[c].parser
  OBVIOUS
<1> QED
  BY <1>1, <1>2, <1>3 DEF Alone

LEMMA OwnStep ==
  ASSUME Own, Once,
         NoTimeout /\ NoTimeout' /\ OwnResponse /\ AllAlone => OwnResponse' /\ AllAlone'
  PROVE  Own'
<1>1. NoTimeout' => NoTimeout
  BY DEF NoTimeout, Once, Answered
<1> QED
  BY <1>1 DEF Own

LEMMA OwnAnswers ==
  ASSUME Own, Once, SameFlight, SameSends, NoNewFly,
         \A c \in Conns : conn'[c].entry = conn[c].entry,
         \A r \in Requests : answer'[r] = answer[r] \/ answer'[r] \notin Requests
  PROVE  Own'
<1>1. OwnResponse => OwnResponse'
  BY DEF OwnResponse
<1>2. AllAlone => AllAlone'
  <2> SUFFICES ASSUME NEW c \in Conns, Alone(c) PROVE Alone(c)'
    BY DEF AllAlone, SameFlight, SameInput
  <2>1. /\ conn'[c].wire = conn[c].wire /\ conn'[c].inbox = conn[c].inbox
        /\ conn'[c].parser = conn[c].parser
    BY DEF SameFlight, SameInput
  <2> QED
    BY <2>1, AloneKept DEF NoNewFly
<1> QED
  BY <1>1, <1>2, OwnStep

LEMMA OwnKept ==
  ASSUME Own, SameFlight, SameSends, SameTokens, NoNewFly, answer' = answer
  PROVE  Own'
<1>1. Once
  BY DEF Once
<1> QED
  BY <1>1, OwnAnswers DEF SameTokens

-----------------------------------------------------------------------------
\* A step of thread x to a frame without a request or a connection, that leaves
\* tokens, flights, queues and promises alone.
LEMMA PlainStep ==
  ASSUME IInv, Types', NEW x \in Threads, NEW g, FrameOK(x, g), Plain(x, g),
         Placed(x, g),
         th' = [th EXCEPT ![x] = g], SameTransports, SameTokens, SameFlight, SameSends, SameClosing,
         SameQueue, answer' = answer,
         x \in Transports =>
           th[x].pc \notin {"poll", "ready", "stopped"} \/ io[x].shutdown # "notified"
             \/ g.pc \in {"poll", "ready", "stopped"}
  PROVE  IInv' /\ Once
<1>1. Framed /\ Associated /\ Inputs /\ Tokens /\ AllUnique /\ Closed /\ Own
  BY DEF IInv
<1>2. Framed' /\ NoNewHolder /\ NoNewCarrier /\ NoNewUser /\ NoNewFly
  BY <1>1, PlainMove
<1>3. Tokens' /\ NoNewWith
  BY <1>1, <1>2, TokensKept, WithKept DEF SameTokens
<1>4. AllUnique'
  BY <1>1, <1>2, <1>3, UniqueKept
<1>5. Inputs'
  BY <1>1, InputsKept DEF SameFlight
<1>6. Closed'
  BY <1>1, ClosedKept
<1>7. Own' /\ Once
  BY <1>1, <1>2, OwnKept DEF Once
<1>8. Associated'
  BY <1>1, AssociatedKept
<1> QED
  BY <1>8, <1>2, <1>3, <1>4, <1>5, <1>6, <1>7 DEF IInv

\* A step that no thread takes.
LEMMA OtherStep ==
  ASSUME IInv, Types', th' = th, SameTransports, SameTokens, SameFlight, SameSends, Closed',
         SameQueue, answer' = answer
  PROVE  IInv' /\ Once
<1>1. Framed /\ Associated /\ Inputs /\ Tokens /\ AllUnique /\ Own
  BY DEF IInv
<1>2. Framed' /\ NoNewHolder /\ NoNewCarrier /\ NoNewUser /\ NoNewFly
  BY <1>1, NoMove
<1>3. Tokens' /\ NoNewWith
  BY <1>1, <1>2, TokensKept, WithKept DEF SameTokens
<1>4. AllUnique'
  BY <1>1, <1>2, <1>3, UniqueKept
<1>5. Inputs'
  BY <1>1, InputsKept DEF SameFlight
<1>6. Own' /\ Once
  BY <1>1, <1>2, OwnKept DEF Once
<1>8. Associated'
  BY <1>1, AssociatedStill
<1> QED
  BY <1>8, <1>2, <1>3, <1>4, <1>5, <1>6 DEF IInv

LEMMA InitEstablishes == Init => IInv
<1> SUFFICES ASSUME Init PROVE IInv
  OBVIOUS
<1>1. conn \in [Conns -> Connections]
  <2>1. ConnInit \in Connections
    BY DEF ConnInit, Connections
  <2> QED
    BY <2>1 DEF Init
<1>2. client \in Clients /\ Len(client.queue) <= QueueSize
  BY Numbers DEF Init, Clients
<1>3. io \in [Transports -> Ios] /\ answer \in [Requests -> Outcomes]
  BY DEF Init, Ios, Outcomes
<1>4. Types
  BY <1>1, <1>2, <1>3 DEF Init, Types
<1>5. Framed
  <2>1. ASSUME NEW x \in Threads PROVE th[x] \in Frames /\ FrameOK(x, th[x])
    <3>1. PICK l : l = IF x \in Users THEN "idle" ELSE "poll"
      OBVIOUS
    <3>2. th[x] = [pc |-> l, conn |-> None, req |-> None, k |-> 1, batch |-> {}, stack |-> <<>>]
      BY <3>1 DEF Init
    <3>3. /\ l \in UserLabels \cup TransportLabels /\ l \notin Located \cup Carrying \cup Flying
          /\ x \in Users => l = "idle" /\ l \in UserLabels
          /\ x \in Transports => l \in TransportLabels /\ l \notin Calls
      BY <3>1, ValuesAssumption
      DEF UserLabels, TransportLabels, Located, Carrying, Flying, Calls
    <3>4. /\ th[x] \in Frames /\ th[x].pc = l /\ th[x].stack = <<>>
      BY <3>2, <3>3 DEF Frames
    <3>5. 1 .. Len(th[x].stack) = {}
      BY <3>4
    <3> QED
      BY <3>3, <3>4, <3>5 DEF FrameOK
  <2> QED
    BY <2>1 DEF Init, Framed
<1>13. Associated
  <2>1. ASSUME NEW x \in Users PROVE Placed(x, th[x])
    <3>1. th[x].pc = "idle" /\ th[x].stack = <<>>
      BY <2>1 DEF Init, Threads
    <3>2. 1 .. Len(th[x].stack) = {}
      BY <3>1
    <3> QED
      BY <3>1, <3>2 DEF Placed, PlacedLabels
  <2> QED
    BY <2>1 DEF Associated, Placed
<1>6. \A c \in Conns : /\ conn[c] = ConnInit /\ conn[c].entry = None /\ conn[c].waiting = <<>>
                       /\ conn[c].state = "Idle" /\ conn[c].inbox = <<>> /\ conn[c].wire = <<>>
                       /\ conn[c].parser = <<>>
  BY DEF Init, ConnInit
<1>7. \A x \in Threads : th[x].pc \in {"idle", "poll"}
  BY DEF Init
<1>8. Inputs
  BY <1>6 DEF Inputs, Input
<1>9. Tokens
  BY <1>6, <1>7 DEF Tokens, Token, Holder, Holding, Carrying
<1>10. AllUnique
  <2>1. \A c \in Conns, r \in Requests : ~With(c, r)
    BY <1>6, <1>7, ValuesAssumption DEF With, Carrying
  <2>2. \A r \in Requests : ~InQueue(r) /\ \A u \in Users : ~WithUser(u, r)
    BY <1>7 DEF Init, InQueue, WithUser, Threads
  <2> QED
    BY <2>1, <2>2 DEF AllUnique, Unique, Init
<1>11. Closed
  BY DEF Closed, Init
<1>12. Own
  <2>1. OwnResponse
    BY ValuesAssumption DEF OwnResponse, Init
  <2>2. AllAlone
    BY <1>6, <1>7 DEF AllAlone, Alone, Fly, Flying, Init
  <2> QED
    BY <2>1, <2>2 DEF Own
<1> QED
  BY <1>4, <1>5, <1>13, <1>8, <1>9, <1>10, <1>11, <1>12 DEF IInv

-----------------------------------------------------------------------------
\* Plain steps of the users, or of both.
LEMMA ConnectionTypes ==
  ASSUME Types, NEW c \in Conns
  PROVE  conn[c] \in Connections
BY DEF Types

\* Only fields of connection c that no invariant reads change.
Calm(c, d) ==
  /\ d \in Connections
  /\ d.entry = conn[c].entry /\ d.waiting = conn[c].waiting /\ d.state = conn[c].state
  /\ d.peer = conn[c].peer /\ d.wire = conn[c].wire /\ d.inbox = conn[c].inbox
  /\ d.parser = conn[c].parser /\ d.transport = conn[c].transport

LEMMA CalmKept ==
  ASSUME Types, NEW c \in Conns, NEW d, Calm(c, d), conn' = [conn EXCEPT ![c] = d]
  PROVE  conn' \in [Conns -> Connections] /\ SameTransports /\ SameTokens /\ SameFlight
<1>1. conn \in [Conns -> Connections] /\ d \in Connections
  BY DEF Types, Calm
<1>2. conn'[c] = d /\ \A e \in Conns : e # c => conn'[e] = conn[e]
  BY <1>1
<1> QED
  BY <1>1, <1>2 DEF Calm, SameTransports, SameTokens, SameFlight, SameInput

\* One transport's io changes, but not its sends nor its shutdown.
CalmIo(t, o) ==
  o \in Ios /\ o.sends = io[t].sends /\ o.shutdown = io[t].shutdown

LEMMA CalmIoKept ==
  ASSUME Types, NEW t \in Transports, NEW o, CalmIo(t, o), io' = [io EXCEPT ![t] = o],
         closing' = closing
  PROVE  io' \in [Transports -> Ios] /\ SameSends /\ SameClosing
<1>1. io \in [Transports -> Ios] /\ o \in Ios
  BY DEF Types, CalmIo
<1>2. io'[t] = o /\ \A s \in Transports : s # t => io'[s] = io[s]
  BY <1>1
<1> QED
  BY <1>1, <1>2 DEF CalmIo, SameSends, SameClosing

SameRest ==
  /\ SameTransports /\ SameTokens /\ SameFlight /\ SameSends /\ SameClosing /\ SameQueue
  /\ answer' = answer

\* The thread is in a batch, or its reactor may still start one, or leaves it.
MayGo(x, l) ==
  x \in Transports =>
    \/ th[x].pc \notin {"poll", "ready", "stopped"}
    \/ io[x].shutdown # "notified"
    \/ l \in {"poll", "ready", "stopped"}

LEMMA GotoStep ==
  ASSUME IInv, Types', SameRest, NEW x \in Threads, NEW l \in UserLabels \cup TransportLabels,
         Goto(x, l), MayGo(x, l),
         l \notin Holding \cup Flying, l \notin {"pick", "enqueue"},
         x \in Users => l \in UserLabels,
         x \in Transports => l \in TransportLabels,
         l \in Located => th[x].conn \in Conns,
         x \in Transports /\ l \in Calls => th[x].stack # <<>>,
         x \in Users /\ l \in PlacedLabels => conn[th[x].conn].transport # None
  PROVE  IInv' /\ Once
<1>1. Framed /\ Associated
  BY DEF IInv
<1>2. FrameOK(x, th[x]) /\ Placed(x, th[x])
  BY <1>1 DEF Framed, Associated
<1>3. PICK g : g = [th[x] EXCEPT !.pc = l]
  OBVIOUS
<1>4. th' = [th EXCEPT ![x] = g]
  BY <1>1, <1>3 DEF Goto, Framed
<1>5. FrameOK(x, g) /\ g.pc = l
  BY <1>2, <1>3, GotoFrame DEF Holding
<1>6. Placed(x, g)
  BY <1>2, <1>3, GotoPlaced
<1>7. Plain(x, g)
  BY <1>5 DEF Plain
<1> QED
  BY <1>4, <1>5, <1>6, <1>7, PlainStep DEF SameRest, MayGo

LEMMA ReturnStep ==
  ASSUME IInv, Types', SameRest, NEW x \in Threads, Return(x), x \in Transports => th[x].pc \in Calls
  PROVE  IInv' /\ Once
<1>1. Framed /\ Associated
  BY DEF IInv
<1>2. FrameOK(x, th[x]) /\ Placed(x, th[x])
  BY <1>1 DEF Framed, Associated
<1>3. PICK g : g = Back(th[x])
  OBVIOUS
<1>4. th' = [th EXCEPT ![x] = g]
  BY <1>1, <1>3 DEF Return, Framed
<1>5. x \in Transports => th[x].stack # <<>>
  BY <1>2 DEF FrameOK
<1>6. /\ FrameOK(x, g) /\ g.pc \in Bottom \cup {"pick", "idle"}
      /\ x \in Users => g.pc \in {"idle", "connected"}
  BY <1>2, <1>3, <1>5, BackFrame
<1>7. Placed(x, g)
  BY <1>2, <1>3, BackPlaced
<1>8. Plain(x, g)
  BY <1>6 DEF Plain, Bottom, Holding, Carrying, Flying
<1> QED
  BY <1>4, <1>6, <1>7, <1>8, PlainStep DEF SameRest, Calls

LEMMA AtLabel ==
  ASSUME IInv, NEW x \in Threads
  PROVE  /\ FrameOK(x, th[x]) /\ Placed(x, th[x]) /\ th[x] \in Frames
         /\ th[x].pc \in Located => th[x].conn \in Conns
         /\ th[x].pc \in Carrying \cup Flying => th[x].req \in Requests
         /\ x \in Transports /\ th[x].pc \in Calls => th[x].stack # <<>>
         /\ x \in Users /\ th[x].pc \in PlacedLabels => conn[th[x].conn].transport # None
BY DEF IInv, Framed, Associated, FrameOK, Placed

LEMMA Unmoved ==
  ASSUME IInv, UNCHANGED <<conn, io, client, answer, closing>>
  PROVE  Types' /\ SameRest
BY DEF IInv, Types, SameRest, SameTransports, SameTokens, SameFlight, SameInput, SameSends, SameClosing,
   SameQueue

LEMMA ConnectKeeps ==
  ASSUME IInv, NEW u \in Users, Connect(u)
  PROVE  IInv' /\ Once
<1>1. PICK c, t : c = th[u].conn /\ t = conn[c].transport
  OBVIOUS
<1>2. Types /\ th[u].pc = "connect"
  BY DEF IInv, Connect
<1>3. u \in Threads /\ c \in Conns
  BY <1>1, <1>2, AtLabel DEF Threads, Located
<1>4. t \in Transports
  <2>1. conn[c].transport # None
    BY <1>1, <1>2, <1>3, AtLabel DEF PlacedLabels
  <2> QED
    BY <1>1, <1>2, <1>3, <2>1, ConnectionTypes DEF Connections
<1>5. PICK d : d = [conn[c] EXCEPT !.status = "Connecting", !.connect = "pending"]
  OBVIOUS
<1>6. conn' = [conn EXCEPT ![c] = d]
  BY <1>1, <1>2, <1>3, <1>5 DEF Connect, Types
<1>7. Calm(c, d)
  BY <1>2, <1>3, <1>5, ConnectionTypes, ZenonT(60) DEF Calm, Connections
<1>8. PICK o : o = [io[t] EXCEPT !.connects = Append(@, c)]
  OBVIOUS
<1>9. io' = [io EXCEPT ![t] = o]
  BY <1>1, <1>2, <1>4, <1>8 DEF Connect, Types
<1>10. CalmIo(t, o)
  <2>1. io[t] \in Ios
    BY <1>2, <1>4 DEF Types
  <2>2. Append(io[t].connects, c) \in Seq(Conns)
    BY <1>3, <2>1 DEF Ios
  <2> QED
    BY <1>8, <2>1, <2>2 DEF CalmIo, Ios
<1>11. UNCHANGED <<client, answer, closing>>
  BY DEF Connect
<1>12. /\ conn' \in [Conns -> Connections] /\ SameTransports /\ SameTokens /\ SameFlight
       /\ io' \in [Transports -> Ios] /\ SameSends /\ SameClosing
  BY <1>2, <1>3, <1>4, <1>6, <1>7, <1>9, <1>10, <1>11, CalmKept, CalmIoKept
<1>13. Types' /\ SameRest
  BY <1>2, <1>11, <1>12 DEF Types, SameRest, SameQueue
<1>14. Goto(u, "then")
  BY DEF Connect
<1>15. u \notin Transports
  BY ValuesAssumption
<1>16. conn[th[u].conn].transport # None
  BY <1>2, <1>3, AtLabel DEF PlacedLabels
<1> QED
  BY <1>1, <1>3, <1>13, <1>14, <1>15, <1>16, GotoStep
  DEF UserLabels, Holding, Carrying, Flying, MayGo

LEMMA ThenKeeps ==
  ASSUME IInv, NEW u \in Users, Then(u)
  PROVE  IInv' /\ Once
<1>1. PICK c : c = th[u].conn
  OBVIOUS
<1>2. Types /\ th[u].pc = "then"
  BY DEF IInv, Then
<1>3. u \in Threads /\ c \in Conns /\ u \notin Transports
  BY <1>1, <1>2, AtLabel, ValuesAssumption DEF Threads, Located
<1>4. UNCHANGED <<client, io, answer, closing>>
  BY DEF Then
<1>5. ASSUME NEW d, Calm(c, d), conn' = [conn EXCEPT ![c] = d] PROVE Types' /\ SameRest
  <2>1. conn' \in [Conns -> Connections] /\ SameTransports /\ SameTokens /\ SameFlight
    BY <1>2, <1>3, <1>5, CalmKept
  <2> QED
    BY <1>2, <1>4, <2>1 DEF Types, SameRest, SameQueue, SameSends, SameClosing
<1>6. CASE conn[c].connect = "resolved"
  <2>1. conn' = [conn EXCEPT ![c] = [conn[c] EXCEPT !.status = "Connected"]]
    BY <1>1, <1>2, <1>3, <1>6 DEF Then, Types
  <2>2. Calm(c, [conn[c] EXCEPT !.status = "Connected"])
    BY <1>2, <1>3, ConnectionTypes, ZenonT(60) DEF Calm, Connections
  <2>3. Goto(u, "connected")
    BY <1>1, <1>6 DEF Then
  <2>4. Types' /\ SameRest
    BY <1>5, <2>1, <2>2
  <2>5. conn[th[u].conn].transport # None
    BY <1>2, <1>3, AtLabel DEF PlacedLabels
  <2> QED
    BY <1>1, <1>3, <2>3, <2>4, <2>5, GotoStep DEF UserLabels, Holding, Carrying, Flying, MayGo
<1>7. CASE conn[c].connect # "resolved"
  <2>1. conn' = [conn EXCEPT ![c] = [conn[c] EXCEPT !.connect = "attached"]]
    BY <1>1, <1>2, <1>3, <1>7 DEF Then, Types
  <2>2. Calm(c, [conn[c] EXCEPT !.connect = "attached"])
    BY <1>2, <1>3, ConnectionTypes, ZenonT(60) DEF Calm, Connections
  <2>3. Return(u)
    BY <1>1, <1>7 DEF Then
  <2>4. Types' /\ SameRest
    BY <1>5, <2>1, <2>2
  <2> QED
    BY <1>3, <2>3, <2>4, ReturnStep
<1> QED
  BY <1>6, <1>7

LEMMA WaitingDoneKeeps ==
  ASSUME IInv, NEW x \in Threads, WaitingDone(x)
  PROVE  IInv' /\ Once
<1>1. th[x].pc = "connected" /\ UNCHANGED <<conn, client, io, answer, closing>>
  BY DEF WaitingDone
<1>2. Types' /\ SameRest
  BY <1>1, Unmoved
<1>3. th[x].conn \in Conns
  BY <1>1, AtLabel DEF Located
<1>4. CASE x \in Users
  <2>1. Return(x) /\ x \notin Transports
    BY <1>4, ValuesAssumption DEF WaitingDone
  <2> QED
    BY <1>2, <2>1, ReturnStep
<1>5. CASE x \notin Users
  <2>1. Goto(x, "watch")
    BY <1>5 DEF WaitingDone
  <2>2. MayGo(x, "watch")
    BY <1>1 DEF MayGo
  <2> QED
    BY <1>2, <1>3, <1>5, <2>1, <2>2, GotoStep
    DEF TransportLabels, Holding, Carrying, Flying, Calls, Threads
<1> QED
  BY <1>4, <1>5

-----------------------------------------------------------------------------
\* Plain steps of the transports.
LEMMA Reactor ==
  ASSUME NEW t \in Transports
  PROVE  t \in Threads /\ t \notin Users /\ \A g : Placed(t, g)
BY ValuesAssumption DEF Threads, Placed

\* A frame that goes on in the same batch.
LEMMA TakeFrame ==
  ASSUME IInv, NEW t \in Transports, NEW g \in Frames, g.stack = th[t].stack,
         g.pc \in TransportLabels, g.pc \notin Calls \cup Carrying \cup Flying,
         g.pc \in Located => g.conn \in Conns
  PROVE  FrameOK(t, g)
<1>1. FrameOK(t, th[t]) /\ t \notin Users
  BY AtLabel, Reactor
<1> QED
  BY <1>1 DEF FrameOK

LEMMA TakeStep ==
  ASSUME IInv, Types', SameRest, NEW t \in Transports, NEW kind, NEW c \in Conns \cup {None},
         NEW l \in TransportLabels, l \notin Calls \cup Holding \cup Flying,
         l \in Located => c \in Conns, th[t].pc = "dispatch", TakeTo(t, kind, c, l)
  PROVE  IInv' /\ Once
<1>1. t \in Threads /\ t \notin Users /\ \A g : Placed(t, g)
  BY Reactor
<1>2. PICK g : g = [th[t] EXCEPT !.batch = @ \ {<<kind, c>>}, !.conn = c, !.pc = l]
  OBVIOUS
<1>3. g \in Frames /\ g.pc = l /\ g.conn = c /\ g.stack = th[t].stack
  <2>1. th[t] \in Frames
    BY <1>1, AtLabel
  <2> QED
    BY <1>2, <2>1 DEF Frames
<1>6. l \notin Calls \cup Carrying \cup Flying
  BY DEF Holding
<1>7. FrameOK(t, g)
  BY <1>3, <1>6, TakeFrame
<1>4. th' = [th EXCEPT ![t] = g]
  BY <1>1, <1>2 DEF TakeTo, IInv, Framed
<1>5. Plain(t, g)
  BY <1>1, <1>3 DEF Plain
<1> QED
  BY <1>1, <1>3, <1>4, <1>5, <1>7, PlainStep DEF SameRest

LEMMA ReadyTypes ==
  ASSUME NEW t
  PROVE  Ready(t) \subseteq Events
<1>1. \A c \in Conns \cup {None} :
        /\ <<"connects", c>> \in Events /\ <<"sends", c>> \in Events /\ <<"shutdown", c>> \in Events
        /\ <<"write", c>> \in Events /\ <<"read", c>> \in Events /\ <<"timer", c>> \in Events
  BY DEF Events
<1> QED
  BY <1>1 DEF Ready

LEMMA PollKeeps ==
  ASSUME IInv, NEW t \in Transports, Poll(t)
  PROVE  IInv' /\ Once
<1>1. t \in Threads /\ t \notin Users /\ \A g : Placed(t, g)
  BY Reactor
<1>2. UNCHANGED <<conn, client, io, answer, closing>> /\ th[t].pc = "poll"
  BY DEF Poll
<1>3. Types' /\ SameRest
  BY <1>2, Unmoved
<1>4. PICK b : b = Ready(t)
  OBVIOUS
<1>5. b \in SUBSET Events
  BY <1>4, ReadyTypes
<1>6. FrameOK(t, th[t]) /\ th[t] \in Frames
  BY <1>1, AtLabel
<1>7. PICK g : g = [th[t] EXCEPT !.pc = "ready", !.batch = b]
  OBVIOUS
<1>8. th' = [th EXCEPT ![t] = g]
  BY <1>1, <1>4, <1>7 DEF Poll, IInv, Framed
<1>9. g \in Frames /\ g.pc = "ready" /\ g.stack = th[t].stack
  BY <1>5, <1>6, <1>7 DEF Frames, TransportLabels
<1>10. FrameOK(t, g)
  BY <1>1, <1>6, <1>9 DEF FrameOK, Located, Carrying, Flying, Calls, TransportLabels
<1>11. Plain(t, g)
  BY <1>1, <1>9 DEF Plain, Holding, Carrying, Flying
<1> QED
  BY <1>1, <1>3, <1>8, <1>9, <1>10, <1>11, PlainStep DEF SameRest

LEMMA OnReadyKeeps ==
  ASSUME IInv, NEW t \in Transports, OnReady(t)
  PROVE  IInv' /\ Once
<1>1. t \in Threads /\ t \notin Users
  BY Reactor
<1>2. UNCHANGED <<conn, client, io, answer, closing>>
  BY DEF OnReady
<1>3. Types' /\ SameRest
  BY <1>2, Unmoved
<1>4. PICK l \in {"stopped", "poll", "dispatch"} : Goto(t, l) /\ (l = "dispatch" => io[t].shutdown = "no")
  BY DEF OnReady
<1>5. MayGo(t, l)
  BY <1>4 DEF MayGo
<1> QED
  BY <1>1, <1>3, <1>4, <1>5, GotoStep
  DEF TransportLabels, Located, Holding, Carrying, Flying, Calls

LEMMA LoopKeeps ==
  ASSUME IInv, NEW t \in Transports, BatchDone(t) \/ ConnectsDrained(t) \/ SendsDrained(t)
  PROVE  IInv' /\ Once
<1>1. t \in Threads /\ t \notin Users
  BY Reactor
<1>2. /\ UNCHANGED <<conn, client, io, answer, closing>>
      /\ th[t].pc \in {"dispatch", "drainConnects", "drainSends"}
  BY DEF BatchDone, ConnectsDrained, SendsDrained
<1>3. Types' /\ SameRest
  BY <1>2, Unmoved
<1>4. PICK l \in {"poll", "dispatch"} : Goto(t, l)
  BY DEF BatchDone, ConnectsDrained, SendsDrained
<1>5. MayGo(t, l)
  BY <1>2 DEF MayGo
<1> QED
  BY <1>1, <1>3, <1>4, <1>5, GotoStep
  DEF TransportLabels, Located, Holding, Carrying, Flying, Calls

LEMMA HandleQueuesKeeps ==
  ASSUME IInv, NEW t \in Transports, HandleConnectionQueue(t) \/ HandleRequestsQueue(t)
  PROVE  IInv' /\ Once
<1>1. UNCHANGED <<conn, client, io, answer, closing>> /\ th[t].pc = "dispatch"
  BY DEF HandleConnectionQueue, HandleRequestsQueue, Meets
<1>2. Types' /\ SameRest
  BY <1>1, Unmoved
<1>3. PICK kind \in {"connects", "sends"}, l \in {"drainConnects", "drainSends"} : TakeTo(t, kind, None, l)
  BY DEF HandleConnectionQueue, HandleRequestsQueue
<1> QED
  BY <1>1, <1>2, <1>3, TakeStep DEF TransportLabels, Located, Holding, Carrying, Flying, Calls

LEMMA DrainConnectKeeps ==
  ASSUME IInv, NEW t \in Transports, DrainConnect(t) \/ DrainConnectFails(t)
  PROVE  IInv' /\ Once
<1>1. Types /\ Closed /\ io[t].connects # <<>> /\ UNCHANGED <<client, th, answer, closing>>
  BY DEF DrainConnect, DrainConnectFails, IInv
<1>2. io[t] \in Ios /\ io[t].connects \in Seq(Conns)
  BY <1>1 DEF Types, Ios
<1>3. PICK h, tl : h = Head(io[t].connects) /\ tl = Tail(io[t].connects)
  OBVIOUS
<1>4. h \in Conns /\ tl \in Seq(Conns)
  BY <1>1, <1>2, <1>3, HeadTailProperties
<1>5. PICK o : o = [io[t] EXCEPT !.connects = tl]
  OBVIOUS
<1>6. io' = [io EXCEPT ![t] = o]
  BY <1>1, <1>3, <1>5 DEF DrainConnect, DrainConnectFails, Types
<1>7. CalmIo(t, o)
  BY <1>2, <1>4, <1>5 DEF CalmIo, Ios
<1>8. io' \in [Transports -> Ios] /\ SameSends /\ SameClosing
  BY <1>1, <1>6, <1>7, CalmIoKept
<1>9. conn' \in [Conns -> Connections] /\ SameTransports /\ SameTokens /\ SameFlight
  <2>1. CASE DrainConnect(t)
    <3>1. PICK d : d = [conn[h] EXCEPT !.interest = "write"]
      OBVIOUS
    <3>2. conn' = [conn EXCEPT ![h] = d]
      BY <1>1, <1>3, <1>4, <2>1, <3>1 DEF DrainConnect, Types
    <3>3. Calm(h, d)
      BY <1>1, <1>4, <3>1, ConnectionTypes, ZenonT(60) DEF Calm, Connections
    <3> QED
      BY <1>1, <1>4, <3>2, <3>3, CalmKept
  <2>2. CASE DrainConnectFails(t)
    BY <1>1, <2>2 DEF DrainConnectFails, Types, SameTransports, SameTokens, SameFlight, SameInput
  <2> QED
    BY <2>1, <2>2
<1>10. Types' /\ SameQueue
  BY <1>1, <1>8, <1>9 DEF Types, SameQueue
<1>11. Closed'
  BY <1>1, <1>8, ClosedStill
<1> QED
  BY <1>1, <1>8, <1>9, <1>10, <1>11, OtherStep

\* A connection's calm change with nothing else but the thread.
LEMMA CalmRest ==
  ASSUME IInv, NEW c \in Conns, NEW d, Calm(c, d), conn' = [conn EXCEPT ![c] = d],
         UNCHANGED <<client, io, answer, closing>>
  PROVE  Types' /\ SameRest
<1>1. Types
  BY DEF IInv
<1>2. conn' \in [Conns -> Connections] /\ SameTransports /\ SameTokens /\ SameFlight
  BY <1>1, CalmKept
<1> QED
  BY <1>1, <1>2 DEF Types, SameRest, SameQueue, SameSends, SameClosing

LEMMA HandleWritableKeeps ==
  ASSUME IInv, NEW t \in Transports, NEW c \in Conns, HandleWritable(t, c)
  PROVE  IInv' /\ Once
<1>1. Types /\ th[t].pc = "dispatch" /\ UNCHANGED <<client, io, answer, closing>>
  BY DEF IInv, HandleWritable, Meets
<1>2. conn[c] \in Connections
  BY <1>1, ConnectionTypes
<1>3. PICK d \in {[conn[c] EXCEPT !.status = "Connected", !.interest = "none"],
                  [conn[c] EXCEPT !.connect = "resolved", !.interest = "none"]} :
        /\ conn' = [conn EXCEPT ![c] = d]
        /\ \E l \in {"connected", "watch"} : TakeTo(t, "write", c, l)
  BY <1>1 DEF HandleWritable, Types
<1>6. PICK l \in {"connected", "watch"} : TakeTo(t, "write", c, l)
  BY <1>3
<1>4. Calm(c, d)
  BY <1>2, <1>3, ZenonT(60) DEF Calm, Connections
<1>5. Types' /\ SameRest
  BY <1>1, <1>3, <1>4, CalmRest
<1> QED
  BY <1>1, <1>5, <1>6, TakeStep DEF TransportLabels, Located, Holding, Carrying, Flying, Calls

LEMMA WatchReadKeeps ==
  ASSUME IInv, NEW t \in Transports, WatchRead(t)
  PROVE  IInv' /\ Once
<1>1. Types /\ th[t].pc = "watch" /\ UNCHANGED <<client, io, answer, closing>> /\ Goto(t, "dispatch")
  BY DEF IInv, WatchRead
<1>2. PICK c : c = th[t].conn
  OBVIOUS
<1>3. t \in Threads /\ t \notin Users /\ c \in Conns
  BY <1>1, <1>2, AtLabel, Reactor DEF Located
<1>4. PICK d : d = [conn[c] EXCEPT !.interest = "read"]
  OBVIOUS
<1>5. Calm(c, d) /\ conn' = [conn EXCEPT ![c] = d]
  <2>1. conn[c] \in Connections
    BY <1>1, <1>3, ConnectionTypes
  <2>2. Calm(c, d)
    BY <1>4, <2>1 DEF Calm, Connections
  <2>3. conn' = [conn EXCEPT ![c] = d]
    BY <1>1, <1>2, <1>3, <1>4 DEF WatchRead, Types
  <2> QED
    BY <2>2, <2>3
<1>6. Types' /\ SameRest
  BY <1>1, <1>3, <1>5, CalmRest
<1> QED
  BY <1>1, <1>3, <1>6, GotoStep
  DEF TransportLabels, Located, Holding, Carrying, Flying, Calls, MayGo

LEMMA RegisterTimerKeeps ==
  ASSUME IInv, NEW t \in Transports, RegisterTimer(t)
  PROVE  IInv' /\ Once
<1>1. Types /\ th[t].pc = "register" /\ UNCHANGED <<client, io, answer, closing>> /\ Return(t)
  BY DEF IInv, RegisterTimer
<1>2. PICK c : c = th[t].conn
  OBVIOUS
<1>3. t \in Threads /\ c \in Conns
  BY <1>1, <1>2, AtLabel, Reactor DEF Located
<1>4. PICK d : d = [conn[c] EXCEPT !.timeouts = TRUE, !.registered = TRUE]
  OBVIOUS
<1>5. Calm(c, d) /\ conn' = [conn EXCEPT ![c] = d]
  <2>1. conn[c] \in Connections
    BY <1>1, <1>3, ConnectionTypes
  <2>2. Calm(c, d)
    BY <1>4, <2>1 DEF Calm, Connections
  <2>3. conn' = [conn EXCEPT ![c] = d]
    BY <1>1, <1>2, <1>3, <1>4 DEF RegisterTimer, Types
  <2> QED
    BY <2>2, <2>3
<1>6. Types' /\ SameRest
  BY <1>1, <1>3, <1>5, CalmRest
<1> QED
  BY <1>1, <1>3, <1>6, ReturnStep DEF Calls

LEMMA TimeoutDoneKeeps ==
  ASSUME IInv, NEW t \in Transports, TimeoutDone(t)
  PROVE  IInv' /\ Once
<1>1. Types /\ th[t].pc = "timeoutDone" /\ UNCHANGED <<client, answer, closing>> /\ Goto(t, "dispatch")
  BY DEF IInv, TimeoutDone
<1>2. PICK c : c = th[t].conn
  OBVIOUS
<1>3. t \in Threads /\ t \notin Users /\ c \in Conns
  BY <1>1, <1>2, AtLabel, Reactor DEF Located
<1>4. PICK d, o : /\ d = [conn[c] EXCEPT !.timeouts = FALSE]
                  /\ o = [io[t] EXCEPT !.timeoutsLock = FALSE]
  OBVIOUS
<1>5. Calm(c, d) /\ conn' = [conn EXCEPT ![c] = d]
  <2>1. conn[c] \in Connections
    BY <1>1, <1>3, ConnectionTypes
  <2>2. Calm(c, d)
    BY <1>4, <2>1 DEF Calm, Connections
  <2>3. conn' = [conn EXCEPT ![c] = d]
    BY <1>1, <1>2, <1>3, <1>4 DEF TimeoutDone, Types
  <2> QED
    BY <2>2, <2>3
<1>6. CalmIo(t, o) /\ io' = [io EXCEPT ![t] = o]
  BY <1>1, <1>4 DEF CalmIo, Ios, TimeoutDone, Types
<1>7. /\ conn' \in [Conns -> Connections] /\ SameTransports /\ SameTokens /\ SameFlight
      /\ io' \in [Transports -> Ios] /\ SameSends /\ SameClosing
  BY <1>1, <1>3, <1>5, <1>6, CalmKept, CalmIoKept
<1>8. Types' /\ SameRest
  BY <1>1, <1>7 DEF Types, SameRest, SameQueue
<1> QED
  BY <1>1, <1>3, <1>8, GotoStep
  DEF TransportLabels, Located, Holding, Carrying, Flying, Calls, MayGo

LEMMA LockQueuesKeeps ==
  ASSUME IInv, NEW t \in Transports, LockQueues(t)
  PROVE  IInv' /\ Once
<1>1. Types /\ th[t].pc = "lockQueues" /\ UNCHANGED <<conn, io, answer, closing>>
  BY DEF IInv, LockQueues
<1>2. t \in Threads /\ t \notin Users /\ \A g : Placed(t, g)
  BY Reactor
<1>3. client'.queue = client.queue /\ client' \in Clients
  BY <1>1 DEF LockQueues, Types, Clients
<1>4. Types' /\ SameRest
  BY <1>1, <1>3
  DEF Types, SameRest, SameTransports, SameTokens, SameFlight, SameInput, SameSends, SameClosing, SameQueue
<1>5. CASE client.stop
  BY <1>1, <1>2, <1>4, <1>5, ReturnStep DEF LockQueues, Calls
<1>6. CASE ~client.stop
  <2>1. FrameOK(t, th[t]) /\ th[t] \in Frames /\ th[t].stack # <<>>
    BY <1>1, <1>2, AtLabel DEF Calls
  <2>2. PICK g : g = [th[t] EXCEPT !.pc = "pick", !.k = 1]
    OBVIOUS
  <2>3. th' = [th EXCEPT ![t] = g]
    BY <1>2, <1>6, <2>2 DEF LockQueues, IInv, Framed
  <2>4. g \in Frames /\ g.pc = "pick" /\ g.stack = th[t].stack
    BY <2>1, <2>2 DEF Frames, TransportLabels
  <2>5. FrameOK(t, g)
    BY <1>2, <2>1, <2>4 DEF FrameOK, TransportLabels, Located, Carrying, Flying
  <2>6. Plain(t, g)
    BY <1>2, <2>4 DEF Plain, Holding, Carrying, Flying
  <2> QED
    BY <1>1, <1>2, <1>4, <2>3, <2>5, <2>6, PlainStep DEF SameRest
<1> QED
  BY <1>5, <1>6

-----------------------------------------------------------------------------
\* The other ends of the sockets, the clock, and shutdown().
LEMMA SocketStep ==
  ASSUME IInv, NEW c \in Conns, NEW d \in Connections, conn' = [conn EXCEPT ![c] = d],
         d.entry = conn[c].entry, d.waiting = conn[c].waiting, d.state = conn[c].state,
         d.transport = conn[c].transport,
         UNCHANGED <<client, io, th, answer, closing>>,
         Input(c)', AllAlone /\ d.peer \in {"none", "up"} => Alone(c)'
  PROVE  IInv' /\ Once
<1>1. Types /\ Framed /\ Associated /\ Inputs /\ Tokens /\ AllUnique /\ Closed /\ Own
  BY DEF IInv
<1>2. /\ conn' \in [Conns -> Connections] /\ conn'[c] = d
      /\ \A e \in Conns : e # c => conn'[e] = conn[e]
  BY <1>1 DEF Types
<1>3. Types' /\ SameTransports /\ SameTokens /\ SameSends /\ SameClosing /\ SameQueue
  BY <1>1, <1>2 DEF Types, SameTransports, SameTokens, SameSends, SameClosing, SameQueue
<1>4. Framed' /\ NoNewHolder /\ NoNewCarrier /\ NoNewUser /\ NoNewFly
  BY <1>1, NoMove
<1>5. Tokens' /\ NoNewWith
  BY <1>1, <1>3, <1>4, TokensKept, WithKept DEF SameTokens
<1>6. AllUnique'
  BY <1>1, <1>3, <1>4, <1>5, UniqueKept
<1>7. Inputs'
  BY <1>1, <1>2, InputsStep DEF SameInput
<1>8. Closed' /\ Associated'
  BY <1>1, <1>3, ClosedStill, AssociatedStill
<1>9. Once
  BY DEF Once
<1>10. ASSUME OwnResponse, AllAlone PROVE OwnResponse' /\ AllAlone'
  <2>1. OwnResponse'
    BY <1>10 DEF OwnResponse
  <2>2. ASSUME NEW e \in Conns, conn'[e].peer \in {"none", "up"} PROVE Alone(e)'
    <3>1. CASE e = c
      BY <1>2, <1>10, <2>2, <3>1
    <3>2. CASE e # c
      <4>1. conn'[e] = conn[e] /\ Alone(e)
        BY <1>2, <1>10, <2>2, <3>2 DEF AllAlone
      <4> QED
        BY <1>3, <1>4, <4>1, AloneKept DEF NoNewFly
    <3> QED
      BY <3>1, <3>2
  <2> QED
    BY <2>1, <2>2 DEF AllAlone
<1>11. Own'
  BY <1>1, <1>9, <1>10, OwnStep
<1> QED
  BY <1>3, <1>4, <1>5, <1>6, <1>7, <1>8, <1>9, <1>11 DEF IInv

LEMMA TimerExpiresKeeps ==
  ASSUME IInv, NEW c \in Conns, TimerExpires(c)
  PROVE  IInv' /\ Once
<1>1. Types /\ Closed /\ UNCHANGED <<client, io, th, answer, closing>>
  BY DEF IInv, TimerExpires
<1>2. PICK d : d = [conn[c] EXCEPT !.timer = "expired"]
  OBVIOUS
<1>3. conn' = [conn EXCEPT ![c] = d]
  BY <1>1, <1>2 DEF TimerExpires, Types
<1>4. Calm(c, d)
  BY <1>1, <1>2, ConnectionTypes, ZenonT(60) DEF Calm, Connections
<1>5. Types' /\ SameRest
  BY <1>1, <1>3, <1>4, CalmRest
<1>6. Closed'
  BY <1>1, <1>5, ClosedStill DEF SameRest
<1> QED
  BY <1>1, <1>5, <1>6, OtherStep DEF SameRest

LEMMA PeerKeeps ==
  ASSUME IInv, NEW c \in Conns, Accept(c) \/ Refuse(c)
  PROVE  IInv' /\ Once
<1>1. Types /\ Input(c) /\ conn[c].peer = "none" /\ UNCHANGED <<client, io, th, answer, closing>>
  BY DEF IInv, Accept, Refuse, Inputs
<1>2. conn[c] \in Connections
  BY <1>1, ConnectionTypes
<1>3. PICK p \in {"up", "refused"} : conn' = [conn EXCEPT ![c].peer = p]
  BY DEF Accept, Refuse
<1>4. PICK d : d = [conn[c] EXCEPT !.peer = p]
  OBVIOUS
<1>5. conn' = [conn EXCEPT ![c] = d] /\ conn'[c] = d
  BY <1>1, <1>3, <1>4 DEF Types
<1>6. /\ d \in Connections /\ d.entry = conn[c].entry /\ d.waiting = conn[c].waiting
      /\ d.state = conn[c].state /\ d.transport = conn[c].transport /\ d.wire = conn[c].wire
      /\ d.inbox = conn[c].inbox /\ d.parser = conn[c].parser /\ d.peer = p
  BY <1>2, <1>4 DEF Connections
<1>7. conn[c].inbox = <<>> /\ conn[c].wire = <<>>
  BY <1>1 DEF Input
<1>8. Input(c)'
  BY <1>5, <1>6, <1>7 DEF Input
<1>9. AllAlone => Alone(c)'
  <2> SUFFICES ASSUME Alone(c) PROVE Alone(c)'
    BY <1>1 DEF AllAlone
  <2>1. SameSends /\ \A x \in Threads : Fly(x, c)' => Fly(x, c) /\ th'[x].req = th[x].req
    BY <1>1 DEF SameSends, Fly
  <2> QED
    BY <1>5, <1>6, <2>1, AloneKept
<1> QED
  BY <1>1, <1>5, <1>6, <1>8, <1>9, SocketStep

LEMMA RespondKeeps ==
  ASSUME IInv, NEW c \in Conns, Respond(c)
  PROVE  IInv' /\ Once
<1>1. /\ Types /\ Input(c) /\ conn[c].peer = "up" /\ conn[c].wire # <<>>
      /\ UNCHANGED <<client, io, th, answer, closing>>
  BY DEF IInv, Respond, Inputs
<1>2. conn[c] \in Connections
  BY <1>1, ConnectionTypes
<1>3. PICK h, w, n : h = Head(conn[c].wire) /\ w = Tail(conn[c].wire) /\ n = Append(conn[c].inbox, h)
  OBVIOUS
<1>4. h \in Requests /\ w \in Seq(Requests) /\ n \in Seq(Requests \cup Marks)
  <2>1. conn[c].wire \in Seq(Requests) /\ conn[c].inbox \in Seq(Requests \cup Marks)
    BY <1>2 DEF Connections
  <2>2. h \in Requests /\ w \in Seq(Requests)
    BY <1>1, <1>3, <2>1, HeadTailProperties
  <2> QED
    BY <1>3, <2>1, <2>2
<1>5. PICK d : d = [conn[c] EXCEPT !.wire = w, !.inbox = n]
  OBVIOUS
<1>6. conn' = [conn EXCEPT ![c] = d] /\ conn'[c] = d
  BY <1>1, <1>3, <1>5 DEF Respond, Types
<1>7. /\ d \in Connections /\ d.entry = conn[c].entry /\ d.waiting = conn[c].waiting
      /\ d.state = conn[c].state /\ d.transport = conn[c].transport /\ d.wire = w
      /\ d.inbox = n /\ d.parser = conn[c].parser /\ d.peer = "up"
  BY <1>1, <1>2, <1>4, <1>5 DEF Connections
<1>8. Input(c)'
  <2>1. conn[c].inbox \in Seq(Requests \cup Marks) /\ Len(conn[c].inbox) \in Nat
    BY <1>2 DEF Connections
  <2>2. /\ Len(n) = Len(conn[c].inbox) + 1 /\ n[Len(n)] = h
        /\ \A i \in 1 .. Len(conn[c].inbox) : n[i] = conn[c].inbox[i]
    BY <1>3, <1>4, <2>1, AppendProperties
  <2>3. \A i \in 1 .. Len(conn[c].inbox) : conn[c].inbox[i] \in Requests
    <3> SUFFICES ASSUME NEW i \in 1 .. Len(conn[c].inbox) PROVE conn[c].inbox[i] \in Requests
      OBVIOUS
    <3>1. i = Len(conn[c].inbox) \/ i \in 1 .. Len(conn[c].inbox) - 1
      BY <2>1
    <3>2. conn[c].inbox # <<>>
      BY <2>1
    <3> QED
      BY <1>1, <3>1, <3>2 DEF Input
  <2>4. \A i \in 1 .. Len(n) - 1 : n[i] \in Requests
    BY <2>1, <2>2, <2>3
  <2> QED
    BY <1>4, <1>6, <1>7, <2>2, <2>4 DEF Input
<1>9. AllAlone => Alone(c)'
  <2> SUFFICES ASSUME Alone(c) PROVE Alone(c)'
    BY <1>1 DEF AllAlone
  <2>1. conn[c].wire = <<conn[c].entry>> /\ conn[c].inbox = <<>>
    BY <1>1 DEF Alone
  <2>2. h = conn[c].entry /\ w = <<>> /\ n = <<conn[c].entry>>
    BY <1>3, <2>1
  <2>3. \A x \in Threads : ~Fly(x, c)
    BY <1>1 DEF Alone
  <2>4. \A t \in Transports : \A i \in 1 .. Len(io[t].sends) : ~Queued(t, i, c)
    BY <1>1 DEF Alone
  <2>5. \A x \in Threads : ~Fly(x, c)'
    BY <1>1, <2>3 DEF Fly
  <2>6. \A t \in Transports : \A i \in 1 .. Len(io'[t].sends) : ~Queued(t, i, c)'
    BY <1>1, <2>4 DEF Queued
  <2> QED
    BY <1>6, <1>7, <2>2, <2>5, <2>6 DEF Alone
<1> QED
  BY <1>1, <1>6, <1>7, <1>8, <1>9, SocketStep

LEMMA HangupKeeps ==
  ASSUME IInv, NEW c \in Conns, NEW how, NEW mark \in Marks, Hangup(c, how, mark)
  PROVE  IInv' /\ Once
<1>1. /\ Types /\ Input(c) /\ conn[c].peer = "up"
      /\ UNCHANGED <<client, io, th, answer, closing>>
  BY DEF IInv, Hangup, Inputs
<1>2. conn[c] \in Connections
  BY <1>1, ConnectionTypes
<1>3. PICK n : n = Append(conn[c].inbox, mark)
  OBVIOUS
<1>4. conn[c].inbox \in Seq(Requests \cup Marks) /\ Len(conn[c].inbox) \in Nat
  BY <1>2 DEF Connections
<1>5. PICK d : d = [conn[c] EXCEPT !.peer = "down", !.wire = <<>>, !.inbox = n]
  OBVIOUS
<1>6. conn' = [conn EXCEPT ![c] = d] /\ conn'[c] = d
  BY <1>1, <1>3, <1>5 DEF Hangup, Types
<1>7. n \in Seq(Requests \cup Marks)
  BY <1>3, <1>4
<1>8. /\ d \in Connections /\ d.entry = conn[c].entry /\ d.waiting = conn[c].waiting
      /\ d.state = conn[c].state /\ d.transport = conn[c].transport /\ d.wire = <<>>
      /\ d.inbox = n /\ d.peer = "down"
  <2>1. PICK w : w = <<>> /\ w \in Seq(Requests)
    BY EmptySeq
  <2>2. d = [conn[c] EXCEPT !.peer = "down", !.wire = w, !.inbox = n]
    BY <1>5, <2>1
  <2> QED
    BY <1>2, <1>7, <2>1, <2>2 DEF Connections
<1>9. Input(c)'
  <2>2. /\ Len(n) = Len(conn[c].inbox) + 1 /\ n[Len(n)] = mark
        /\ \A i \in 1 .. Len(conn[c].inbox) : n[i] = conn[c].inbox[i]
    BY <1>3, <1>4, AppendProperties
  <2>3. \A i \in 1 .. Len(conn[c].inbox) : conn[c].inbox[i] \in Requests
    <3> SUFFICES ASSUME NEW i \in 1 .. Len(conn[c].inbox) PROVE conn[c].inbox[i] \in Requests
      OBVIOUS
    <3>1. i = Len(conn[c].inbox) \/ i \in 1 .. Len(conn[c].inbox) - 1
      BY <1>4
    <3>2. conn[c].inbox # <<>>
      BY <1>4
    <3> QED
      BY <1>1, <3>1, <3>2 DEF Input
  <2>4. \A i \in 1 .. Len(n) - 1 : n[i] \in Requests
    BY <1>4, <2>2, <2>3
  <2>5. mark \notin Requests
    BY ValuesAssumption DEF Marks
  <2> QED
    BY <1>6, <1>8, <2>2, <2>4, <2>5 DEF Input
<1> QED
  BY <1>1, <1>6, <1>8, <1>9, SocketStep

\* shutdown() has no thread of its own here, and touches no request.
LEMMA ShutdownStep ==
  ASSUME IInv, NEW i \in [Transports -> Ios], io' = i,
         \A t \in Transports : i[t].sends = io[t].sends,
         closing' \in {"no", "stop", "pool", "done"}, Closed',
         conn' \in [Conns -> Connections], SameTransports, SameTokens, SameFlight,
         client' \in Clients, client'.queue = client.queue,
         UNCHANGED <<th, answer>>
  PROVE  IInv' /\ Once
<1>1. Types' /\ SameSends /\ SameQueue
  BY DEF IInv, Types, SameSends, SameQueue
<1> QED
  BY <1>1, OtherStep

LEMMA ReactorShutdownKeeps ==
  ASSUME IInv, NEW t \in Transports, ReactorShutdown(t) \/ ReactorNotify(t)
  PROVE  IInv' /\ Once
<1>1. Types /\ Closed /\ UNCHANGED <<conn, client, th, answer>>
  BY DEF IInv, ReactorShutdown, ReactorNotify
<1>2. io[t] \in Ios /\ io \in [Transports -> Ios]
  BY <1>1 DEF Types
<1>3. PICK s \in {"set", "notified"} :
        /\ io' = [io EXCEPT ![t].shutdown = s]
        /\ s = "notified" => ReactorNotify(t)
        /\ s = "set" => ReactorShutdown(t)
  BY DEF ReactorShutdown, ReactorNotify
<1>4. PICK o : o = [io[t] EXCEPT !.shutdown = s]
  OBVIOUS
<1>5. o \in Ios /\ o.sends = io[t].sends /\ o.shutdown = s
  BY <1>2, <1>4 DEF Ios
<1>6. PICK i : i = io'
  OBVIOUS
<1>7. /\ i \in [Transports -> Ios] /\ i[t] = o /\ \A u \in Transports : u # t => i[u] = io[u]
  BY <1>2, <1>3, <1>4, <1>5, <1>6
<1>8. \A u \in Transports : i[u].sends = io[u].sends
  BY <1>5, <1>7
<1>9. closing' \in {"no", "stop", "pool", "done"} /\ Closed'
  <2>1. CASE s = "set"
    <3>1. closing' = closing /\ closing = "no"
      BY <1>3, <2>1 DEF ReactorShutdown
    <3>2. \A u \in Transports : i[u].shutdown = "notified" => ~Handling(u)
      BY <1>1, <1>5, <1>7, <2>1 DEF Closed
    <3> QED
      BY <1>1, <1>6, <3>1, <3>2 DEF Closed, Handling
  <2>2. CASE s = "notified"
    <3>1. /\ ~Handling(t)
          /\ closing' = IF \A u \in Transports \ {t} : io[u].shutdown = "notified"
                        THEN "stop" ELSE closing
      BY <1>3, <2>2 DEF ReactorNotify
    <3>2. \A u \in Transports : i[u].shutdown = "notified" => ~Handling(u)
      BY <1>1, <1>5, <1>7, <3>1 DEF Closed
    <3>3. closing' # "no" => \A u \in Transports : i[u].shutdown = "notified"
      BY <1>1, <1>5, <1>7, <2>2, <3>1 DEF Closed
    <3>4. closing' \in {"no", "stop", "pool", "done"}
      BY <1>1, <3>1 DEF Types
    <3> QED
      BY <1>1, <1>6, <3>2, <3>3, <3>4 DEF Closed, Handling
  <2> QED
    BY <2>1, <2>2
<1>10. /\ conn' \in [Conns -> Connections] /\ client' \in Clients /\ client'.queue = client.queue
       /\ SameTransports /\ SameTokens /\ SameFlight
  BY <1>1 DEF Types, SameTransports, SameTokens, SameFlight, SameInput
<1> QED
  BY <1>1, <1>6, <1>7, <1>8, <1>9, <1>10, ShutdownStep

LEMMA StopKeeps ==
  ASSUME IInv, StopQueues \/ ShutdownDone
  PROVE  IInv' /\ Once
<1>1. Types /\ Closed /\ UNCHANGED <<conn, io, th, answer>> /\ closing # "no"
      /\ closing' \in {"pool", "done"}
  BY DEF IInv, StopQueues, ShutdownDone
<1>2. client' \in Clients /\ client'.queue = client.queue
  BY <1>1 DEF StopQueues, ShutdownDone, Types, Clients
<1>3. Closed'
  BY <1>1 DEF Closed, Handling
<1>4. io' \in [Transports -> Ios] /\ \A t \in Transports : io'[t].sends = io[t].sends
  BY <1>1 DEF Types
<1>5. conn' \in [Conns -> Connections] /\ SameTransports /\ SameTokens /\ SameFlight
  BY <1>1 DEF Types, SameTransports, SameTokens, SameFlight, SameInput
<1> QED
  BY <1>1, <1>2, <1>3, <1>4, <1>5, ShutdownStep

LEMMA PoolCloseKeeps ==
  ASSUME IInv, NEW c \in Conns, PoolClose(c)
  PROVE  IInv' /\ Once
<1>1. Types /\ Closed /\ UNCHANGED <<client, th, answer, closing>>
  BY DEF IInv, PoolClose
<1>2. PICK d : d = [conn[c] EXCEPT !.status = "NotConnected", !.interest = "none"]
  OBVIOUS
<1>3. conn' = [conn EXCEPT ![c] = d]
  BY <1>1, <1>2 DEF PoolClose, Types
<1>4. Calm(c, d)
  BY <1>1, <1>2, ConnectionTypes, ZenonT(60) DEF Calm, Connections
<1>5. conn' \in [Conns -> Connections] /\ SameTransports /\ SameTokens /\ SameFlight
  BY <1>1, <1>3, <1>4, CalmKept
<1>6. PICK t : t = conn[c].transport
  OBVIOUS
<1>7. io' = [io EXCEPT ![t].stopHandling = TRUE]
  BY <1>6 DEF PoolClose
<1>8. io' \in [Transports -> Ios] /\ SameSends /\ SameClosing
  <2>1. CASE t \in Transports
    <3>1. PICK o : o = [io[t] EXCEPT !.stopHandling = TRUE]
      OBVIOUS
    <3>2. CalmIo(t, o)
      BY <1>1, <2>1, <3>1 DEF Types, Ios, CalmIo
    <3>3. io' = [io EXCEPT ![t] = o]
      BY <1>1, <1>7, <2>1, <3>1 DEF Types
    <3> QED
      BY <1>1, <2>1, <3>2, <3>3, CalmIoKept
  <2>2. CASE t \notin Transports
    <3>1. io' = io
      BY <1>1, <1>7, <2>2 DEF Types
    <3> QED
      BY <1>1, <3>1 DEF Types, SameSends, SameClosing
  <2> QED
    BY <2>1, <2>2
<1>9. Closed'
  BY <1>1, <1>8, ClosedStill
<1>10. client' \in Clients /\ client'.queue = client.queue /\ closing' \in {"no", "stop", "pool", "done"}
  BY <1>1 DEF Types
<1> QED
  BY <1>1, <1>5, <1>8, <1>9, <1>10, ShutdownStep DEF SameSends

-----------------------------------------------------------------------------
\* Steps by which a request changes hands.
LEMMA MoveStep ==
  ASSUME IInv, Types', Framed', Associated', Closed', SameTokens, SameFlight, SameSends,
         SameQueue, answer' = answer, NoNewHolder, NoNewCarrier, NoNewUser, NoNewFly
  PROVE  IInv' /\ Once
<1>1. Inputs /\ Tokens /\ AllUnique /\ Own
  BY DEF IInv
<1>2. Tokens' /\ NoNewWith
  BY <1>1, TokensKept, WithKept DEF SameTokens
<1>3. AllUnique'
  BY <1>1, <1>2, UniqueKept
<1>4. Inputs'
  BY <1>1, InputsKept DEF SameFlight
<1>5. Own' /\ Once
  BY <1>1, OwnKept DEF Once
<1> QED
  BY <1>2, <1>3, <1>4, <1>5 DEF IInv

\* A thread moves: its frame fits, the others stay where they were.
LEMMA Move ==
  ASSUME IInv, NEW x \in Threads, NEW g, FrameOK(x, g), th' = [th EXCEPT ![x] = g]
  PROVE  /\ Framed' /\ th'[x] = g
         /\ \A y \in Threads : y # x =>
              /\ th'[y] = th[y]
              /\ \A c : (Holder(y, c)' <=> Holder(y, c)) /\ (Fly(y, c)' <=> Fly(y, c))
              /\ \A r : WithUser(y, r)' <=> WithUser(y, r)
         /\ SameTransports /\ Placed(x, g) => Associated'
         /\ SameClosing /\ MayGo(x, g.pc) => Closed'
<1>1. Framed /\ Associated /\ Closed
  BY DEF IInv
<1>2. Framed' /\ th'[x] = g /\ \A y \in Threads : y # x => th'[y] = th[y]
  BY <1>1, Moved
<1>3. \A y \in Threads : y # x =>
              /\ \A c : (Holder(y, c)' <=> Holder(y, c)) /\ (Fly(y, c)' <=> Fly(y, c))
              /\ \A r : WithUser(y, r)' <=> WithUser(y, r)
  BY <1>2 DEF Holder, Fly, WithUser
<1>4. SameTransports /\ Placed(x, g) => Associated'
  BY <1>1, AssociatedKept
<1>5. SameClosing /\ MayGo(x, g.pc) => Closed'
  BY <1>1, ClosedKept DEF MayGo
<1> QED
  BY <1>2, <1>3, <1>4, <1>5

LEMMA DoRequestKeeps ==
  ASSUME IInv, NEW u \in Users, NEW r \in Requests, DoRequest(u, r)
  PROVE  IInv' /\ Once
<1>1. /\ Types /\ Inputs /\ Tokens /\ AllUnique /\ Own /\ answer[r] = "new" /\ th[u].pc = "idle"
      /\ answer' = [answer EXCEPT ![r] = "pending"]
      /\ UNCHANGED <<conn, client, io, closing>>
  BY DEF IInv, DoRequest
<1>2. u \in Threads /\ u \notin Transports
  BY ValuesAssumption DEF Threads
<1>3. FrameOK(u, th[u]) /\ Placed(u, th[u]) /\ th[u] \in Frames
  BY <1>2, AtLabel
<1>4. PICK g : g = [th[u] EXCEPT !.pc = "pick", !.req = r, !.k = 1]
  OBVIOUS
<1>5. th' = [th EXCEPT ![u] = g]
  BY <1>2, <1>4 DEF DoRequest, IInv, Framed
<1>6. g \in Frames /\ g.pc = "pick" /\ g.req = r /\ g.stack = th[u].stack
  BY <1>3, <1>4 DEF Frames, UserLabels
<1>7. FrameOK(u, g) /\ Placed(u, g)
  BY <1>2, <1>3, <1>6 DEF FrameOK, Placed, UserLabels, Located, Carrying, Flying, PlacedLabels
<1>8. /\ Framed' /\ th'[u] = g
      /\ \A y \in Threads : y # u =>
           /\ th'[y] = th[y]
           /\ \A c : (Holder(y, c)' <=> Holder(y, c)) /\ (Fly(y, c)' <=> Fly(y, c))
           /\ \A s : WithUser(y, s)' <=> WithUser(y, s)
      /\ SameTransports /\ Placed(u, g) => Associated'
      /\ SameClosing /\ MayGo(u, g.pc) => Closed'
  BY <1>2, <1>5, <1>7, Move
<1>9. /\ SameTransports /\ SameTokens /\ SameFlight /\ SameSends /\ SameClosing
      /\ \A c \in Conns : SameInput(c)
  BY <1>1 DEF SameTransports, SameTokens, SameFlight, SameSends, SameClosing, SameInput
<1>10. Associated' /\ Closed'
  BY <1>2, <1>7, <1>8, <1>9 DEF MayGo
<1>11. NoNewHolder /\ NoNewFly /\ NoNewCarrier
  <2>1. g.pc \notin Holding \cup Flying \cup Carrying
    BY <1>6 DEF Holding, Flying, Carrying
  <2> QED
    BY <1>8, <2>1 DEF NoNewHolder, NoNewFly, NoNewCarrier, Holder, Fly
<1>12. Tokens' /\ NoNewWith
  BY <1>1, <1>9, <1>11, TokensKept, WithKept DEF SameTokens
<1>13. Types'
  BY <1>1 DEF Types, Outcomes
<1>14. \A s \in Requests : s # r => answer'[s] = answer[s]
  BY <1>1 DEF Types
<1>15. answer'[r] = "pending"
  BY <1>1 DEF Types
<1>16. ASSUME NEW s \in Requests PROVE Unique(s)'
  <2>1. Unique(s)
    BY <1>1 DEF AllUnique
  <2>2. /\ \A c \in Conns : With(c, s)' => With(c, s)
        /\ InQueue(s)' <=> InQueue(s)
        /\ \A i, j \in 1 .. Len(client'.queue) :
             client'.queue[i] = s /\ client'.queue[j] = s => i = j
    BY <1>1, <1>12, <2>1 DEF NoNewWith, InQueue, Unique
  <2>3. CASE s # r
    <3>1. \A v \in Users : WithUser(v, s)' => WithUser(v, s)
      BY <1>6, <1>8, <2>3 DEF WithUser, Threads
    <3> QED
      BY <1>14, <2>1, <2>2, <2>3, <3>1, UniqueOne
  <2>4. CASE s = r
    <3>1. ~InQueue(r) /\ (\A v \in Users : ~WithUser(v, r)) /\ \A c \in Conns : ~With(c, r)
      BY <1>1, <2>1, <2>4 DEF Unique
    <3>2. \A v \in Users : WithUser(v, r)' => v = u
      BY <1>8, <3>1 DEF Threads
    <3> QED
      BY <1>15, <2>2, <2>4, <3>1, <3>2 DEF Unique
  <2> QED
    BY <2>3, <2>4
<1>17. Inputs'
  BY <1>1, <1>9, InputsKept
<1>18. Once
  BY <1>1, <1>14 DEF Once, Answered
<1>19. Own'
  <2>1. \A s \in Requests : answer'[s] = answer[s] \/ answer'[s] \notin Requests
    BY <1>14, <1>15, ValuesAssumption
  <2> QED
    BY <1>1, <1>9, <1>11, <1>18, <2>1, OwnAnswers DEF SameTokens
<1> QED
  BY <1>8, <1>10, <1>12, <1>13, <1>16, <1>17, <1>18, <1>19 DEF IInv, AllUnique

\* A connection is found in use: the scan goes on.
LEMMA TryNextKeeps ==
  ASSUME IInv, NEW x \in Threads, TryUse(x), conn[th[x].k].state # "Idle"
  PROVE  IInv' /\ Once
<1>1. th[x].pc = "pick" /\ UNCHANGED <<conn, client, io, answer, closing>>
  BY DEF TryUse
<1>2. FrameOK(x, th[x]) /\ Placed(x, th[x]) /\ th[x] \in Frames
  BY AtLabel
<1>3. PICK g : g = [th[x] EXCEPT !.k = th[x].k + 1]
  OBVIOUS
<1>4. th' = [th EXCEPT ![x] = g]
  BY <1>3 DEF TryUse, IInv, Framed
<1>5. /\ g \in Frames /\ g.pc = "pick" /\ g.req = th[x].req /\ g.stack = th[x].stack
      /\ g.conn = th[x].conn
  BY <1>1, <1>2, <1>3 DEF Frames
<1>6. FrameOK(x, g) /\ Placed(x, g)
  BY <1>1, <1>2, <1>5 DEF FrameOK, Placed
<1>7. MayGo(x, g.pc)
  BY <1>1 DEF MayGo
<1>8. Types' /\ SameRest
  BY <1>1, Unmoved
<1>9. /\ Framed' /\ th'[x] = g /\ (\A y \in Threads : y # x => th'[y] = th[y])
      /\ Associated' /\ Closed'
  BY <1>4, <1>6, <1>7, <1>8, Move DEF SameRest
<1>10. NoNewHolder /\ NoNewFly /\ NoNewCarrier /\ NoNewUser
  BY <1>1, <1>5, <1>9
  DEF NoNewHolder, NoNewFly, NoNewCarrier, NoNewUser, Holder, Fly, WithUser, Threads
<1> QED
  BY <1>8, <1>9, <1>10, MoveStep DEF SameRest

LEMMA PickNoneKeeps ==
  ASSUME IInv, NEW x \in Threads, PickNone(x)
  PROVE  IInv' /\ Once
<1>1. th[x].pc = "pick" /\ UNCHANGED <<conn, io, answer, closing>> /\ Types
  BY DEF PickNone, IInv
<1>2. CASE x \in Users
  <2>1. Goto(x, "enqueue") /\ client' = client /\ x \notin Transports
    BY <1>2, ValuesAssumption DEF PickNone
  <2>2. FrameOK(x, th[x]) /\ Placed(x, th[x]) /\ th[x] \in Frames
    BY AtLabel
  <2>3. PICK g : g = [th[x] EXCEPT !.pc = "enqueue"]
    OBVIOUS
  <2>4. th' = [th EXCEPT ![x] = g]
    BY <2>1, <2>3 DEF Goto, IInv, Framed
  <2>5. th[x].req \in Requests
    BY <1>1, <1>2, <2>2 DEF FrameOK
  <2>6. FrameOK(x, g) /\ g.pc = "enqueue" /\ g.conn = th[x].conn /\ g.req = th[x].req
    BY <2>1, <2>2, <2>3, <2>5, GotoFrame DEF UserLabels, Located, Carrying, Flying
  <2>7. Placed(x, g)
    BY <2>2, <2>3, GotoPlaced DEF PlacedLabels
  <2>8. Types' /\ SameRest
    BY <1>1, <2>1, Unmoved
  <2>9. /\ Framed' /\ th'[x] = g /\ (\A y \in Threads : y # x => th'[y] = th[y])
        /\ Associated' /\ Closed'
    BY <2>1, <2>4, <2>6, <2>7, <2>8, Move DEF SameRest, MayGo
  <2>10. NoNewHolder /\ NoNewFly /\ NoNewCarrier /\ NoNewUser
    BY <1>1, <2>6, <2>9
    DEF NoNewHolder, NoNewFly, NoNewCarrier, NoNewUser, Holder, Fly, WithUser, Threads,
        Holding, Flying, Carrying
  <2> QED
    BY <2>8, <2>9, <2>10, MoveStep DEF SameRest
<1>3. CASE x \notin Users
  <2>1. Return(x) /\ client' = [client EXCEPT !.lock = None]
    BY <1>3 DEF PickNone
  <2>2. client'.queue = client.queue /\ client' \in Clients
    BY <1>1, <2>1 DEF Types, Clients
  <2>3. Types' /\ SameRest
    BY <1>1, <2>2
    DEF Types, SameRest, SameTransports, SameTokens, SameFlight, SameInput, SameSends,
        SameClosing, SameQueue
  <2> QED
    BY <1>1, <2>1, <2>3, ReturnStep DEF Calls
<1> QED
  BY <1>2, <1>3

\* An idle connection is taken.
LEMMA TryTakesKeeps ==
  ASSUME IInv, NEW x \in Threads, TryUse(x), conn[th[x].k].state = "Idle"
  PROVE  IInv' /\ Once
<1>1. PICK k, l : k = th[x].k /\ l = IF x \in Users THEN "got" ELSE "dequeue"
  OBVIOUS
<1>2. /\ Types /\ Inputs /\ Tokens /\ AllUnique /\ Own /\ k \in Conns /\ th[x].pc = "pick"
      /\ conn' = [conn EXCEPT ![k].state = "Used"]
      /\ UNCHANGED <<client, io, answer, closing>>
  BY <1>1 DEF IInv, TryUse
<1>3. FrameOK(x, th[x]) /\ Placed(x, th[x]) /\ th[x] \in Frames
  BY AtLabel
<1>4. PICK g : g = [th[x] EXCEPT !.conn = k, !.pc = l]
  OBVIOUS
<1>5. th' = [th EXCEPT ![x] = g]
  BY <1>1, <1>4 DEF TryUse, IInv, Framed
<1>6. /\ g \in Frames /\ g.pc = l /\ g.req = th[x].req /\ g.stack = th[x].stack /\ g.conn = k
      /\ l \in {"got", "dequeue"}
  BY <1>1, <1>2, <1>3, <1>4 DEF Frames, UserLabels, TransportLabels
<1>7. FrameOK(x, g) /\ Placed(x, g)
  <2>1. x \in Users <=> x \notin Transports
    BY ValuesAssumption DEF Threads
  <2>2. x \in Transports => th[x].stack # <<>>
    BY <1>2, <1>3 DEF FrameOK, Calls
  <2>3. x \in Users => th[x].req \in Requests
    BY <1>2, <1>3 DEF FrameOK
  <2>4. Placed(x, g)
    BY <1>3, <1>6 DEF Placed, PlacedLabels
  <2>5. x \in Users => l = "got" /\ l \in UserLabels
    BY <1>1 DEF UserLabels
  <2>6. x \notin Users => l = "dequeue" /\ l \in TransportLabels /\ l \notin Carrying \cup Flying
    BY <1>1 DEF TransportLabels, Carrying, Flying
  <2>7. /\ g.pc \in Located => g.conn \in Conns
        /\ g.pc \in Carrying \cup Flying => g.req \in Requests
    BY <1>2, <1>6, <2>3, <2>6
  <2>8. \A i \in 1 .. Len(g.stack) : g.stack[i].pc \in Located => g.stack[i].conn \in Conns
    BY <1>3, <1>6 DEF FrameOK
  <2>9. x \in Users =>
       /\ g.pc \in UserLabels
       /\ g.pc \in {"pick", "enqueue"} => g.req \in Requests
       /\ \A i \in 1 .. Len(g.stack) : g.stack[i].pc = "connected"
    BY <1>3, <1>6, <2>5 DEF FrameOK
  <2>10. x \in Transports =>
       /\ g.pc \in TransportLabels
       /\ g.pc \in Calls => g.stack # <<>>
       /\ \A i \in 1 .. Len(g.stack) : g.stack[i].pc = "pick" => i < Len(g.stack)
    BY <1>3, <1>6, <2>1, <2>2, <2>6 DEF FrameOK
  <2> QED
    BY <1>6, <2>4, <2>7, <2>8, <2>9, <2>10 DEF FrameOK
<1>8. conn[k] \in Connections
  BY <1>2, ConnectionTypes
<1>9. PICK d : d = [conn[k] EXCEPT !.state = "Used"]
  OBVIOUS
<1>10. /\ d \in Connections /\ d.entry = conn[k].entry /\ d.waiting = conn[k].waiting
       /\ d.state = "Used" /\ d.transport = conn[k].transport /\ d.wire = conn[k].wire
       /\ d.inbox = conn[k].inbox /\ d.parser = conn[k].parser /\ d.peer = conn[k].peer
  BY <1>8, <1>9 DEF Connections
<1>11. /\ conn' \in [Conns -> Connections] /\ conn'[k] = d
       /\ \A c \in Conns : c # k => conn'[c] = conn[c]
  BY <1>2, <1>9, <1>10 DEF Types
<1>12. /\ SameTransports /\ SameFlight /\ SameSends /\ SameClosing /\ SameQueue
       /\ \A c \in Conns : /\ SameInput(c) /\ conn'[c].entry = conn[c].entry
                           /\ conn'[c].waiting = conn[c].waiting
  BY <1>2, <1>10, <1>11
  DEF SameTransports, SameFlight, SameSends, SameClosing, SameQueue, SameInput
<1>13. /\ Framed' /\ th'[x] = g
       /\ \A y \in Threads : y # x =>
            /\ th'[y] = th[y]
            /\ \A c : (Holder(y, c)' <=> Holder(y, c)) /\ (Fly(y, c)' <=> Fly(y, c))
            /\ \A s : WithUser(y, s)' <=> WithUser(y, s)
       /\ Associated' /\ Closed'
  BY <1>2, <1>5, <1>6, <1>7, <1>12, Move DEF MayGo
<1>14. Types'
  BY <1>2, <1>11 DEF Types
<1>15. Tokens'
  <2>1. Token(k) /\ conn[k].state = "Idle"
    BY <1>1, <1>2 DEF Tokens
  <2>2. conn[k].entry = None /\ conn[k].waiting = <<>> /\ \A y \in Threads : ~Holder(y, k)
    BY <2>1 DEF Token
  <2>3. \A y \in Threads : Holder(y, k)' => y = x
    BY <1>13, <2>2
  <2>4. Token(k)'
    BY <1>10, <1>11, <2>2, <2>3 DEF Token
  <2>5. \A c \in Conns : c # k => \A y \in Threads : Holder(y, c)' => Holder(y, c)
    BY <1>6, <1>13 DEF Holder
  <2> QED
    BY <1>2, <1>11, <2>4, <2>5, TokensStep
<1>16. NoNewFly
  BY <1>6, <1>13 DEF NoNewFly, Fly, Flying
<1>17. ASSUME NEW r \in Requests PROVE Unique(r)'
  <2>1. Unique(r)
    BY <1>2 DEF AllUnique
  <2>2. /\ InQueue(r)' <=> InQueue(r)
        /\ \A i, j \in 1 .. Len(client'.queue) :
             client'.queue[i] = r /\ client'.queue[j] = r => i = j
        /\ answer'[r] = answer[r]
    BY <1>2, <2>1 DEF InQueue, Unique
  <2>3. \A v \in Users : WithUser(v, r)' => WithUser(v, r) /\ v # x
    BY <1>6, <1>13 DEF WithUser, Threads
  <2>4. CASE x \in Users /\ th[x].req = r
    <3>1. WithUser(x, r)
      BY <1>2, <2>4 DEF WithUser
    <3>2. /\ ~InQueue(r) /\ answer[r] = "pending" /\ \A c \in Conns : ~With(c, r)
          /\ \A v \in Users : v # x => ~WithUser(v, r)
      BY <2>1, <2>4, <3>1 DEF Unique
    <3>3. \A c \in Conns : With(c, r)' => c = k
      BY <1>6, <1>12, <1>13, <3>2 DEF With
    <3>4. \A v \in Users : ~WithUser(v, r)'
      BY <2>3, <3>2
    <3> QED
      BY <2>2, <3>2, <3>3, <3>4 DEF Unique
  <2>5. CASE x \notin Users \/ th[x].req # r
    <3>1. x \notin Users => l \notin Carrying
      BY <1>1 DEF Carrying
    <3>2. \A c \in Conns : With(c, r)' => With(c, r)
      BY <1>6, <1>12, <1>13, <2>5, <3>1 DEF With
    <3> QED
      BY <2>1, <2>2, <2>3, <3>2, UniqueOne
  <2> QED
    BY <2>4, <2>5
<1>18. Once
  BY <1>2 DEF Once
<1>19. Own'
  BY <1>2, <1>12, <1>16, <1>18, OwnAnswers
<1>20. Inputs'
  BY <1>2, <1>12, InputsKept
<1> QED
  BY <1>13, <1>14, <1>15, <1>17, <1>18, <1>19, <1>20 DEF IInv, AllUnique

\* A return makes nobody a holder, a carrier, a user in search, or a sender.
LEMMA BackMove ==
  ASSUME IInv, NEW x \in Threads, Return(x), x \in Transports => th[x].pc \in Calls
  PROVE  /\ Framed' /\ NoNewHolder /\ NoNewCarrier /\ NoNewUser /\ NoNewFly
         /\ \A c : ~Holder(x, c)' /\ ~Fly(x, c)'
         /\ th'[x].pc \notin Carrying
         /\ x \in Users => \A r : ~WithUser(x, r)'
         /\ \A y \in Threads : y # x => th'[y] = th[y]
         /\ SameTransports => Associated'
         /\ SameClosing => Closed'
<1>1. FrameOK(x, th[x]) /\ Placed(x, th[x])
  BY AtLabel
<1>2. PICK g : g = Back(th[x])
  OBVIOUS
<1>3. th' = [th EXCEPT ![x] = g]
  BY <1>2 DEF Return, IInv, Framed
<1>4. x \in Transports => th[x].stack # <<>>
  BY <1>1 DEF FrameOK
<1>5. /\ FrameOK(x, g) /\ g.pc \in Bottom \cup {"pick", "idle"}
      /\ x \in Users => g.pc \in {"idle", "connected"}
  BY <1>1, <1>2, <1>4, BackFrame
<1>6. Placed(x, g)
  BY <1>1, <1>2, BackPlaced
<1>7. Plain(x, g)
  BY <1>5 DEF Plain, Bottom, Holding, Carrying, Flying
<1>8. MayGo(x, g.pc)
  BY DEF MayGo, Calls
<1>9. /\ Framed' /\ th'[x] = g /\ (\A y \in Threads : y # x => th'[y] = th[y])
      /\ SameTransports => Associated'
      /\ SameClosing => Closed'
  BY <1>3, <1>5, <1>6, <1>8, Move
<1>10. NoNewHolder /\ NoNewCarrier /\ NoNewUser /\ NoNewFly
  BY <1>3, <1>5, <1>7, PlainMove DEF IInv
<1>11. /\ \A c : ~Holder(x, c)' /\ ~Fly(x, c)'
       /\ th'[x].pc \notin Carrying
       /\ x \in Users => \A r : ~WithUser(x, r)'
  BY <1>7, <1>9 DEF Plain, Holder, Fly, WithUser, Holding
<1> QED
  BY <1>9, <1>10, <1>11

LEMMA EnqueueKeeps ==
  ASSUME IInv, NEW u \in Users, Enqueue(u)
  PROVE  IInv' /\ Once
<1>1. /\ Types /\ Inputs /\ Tokens /\ AllUnique /\ Own /\ th[u].pc = "enqueue" /\ Return(u)
      /\ UNCHANGED <<conn, io, closing>>
  BY DEF IInv, Enqueue
<1>2. u \in Threads /\ u \notin Transports
  BY ValuesAssumption DEF Threads
<1>3. PICK r : r = th[u].req
  OBVIOUS
<1>4. r \in Requests
  BY <1>1, <1>2, <1>3, AtLabel DEF FrameOK
<1>5. SameTransports /\ SameTokens /\ SameFlight /\ SameSends /\ SameClosing
      /\ \A c \in Conns : SameInput(c)
  BY <1>1 DEF SameTransports, SameTokens, SameFlight, SameSends, SameClosing, SameInput
<1>6. /\ Framed' /\ NoNewHolder /\ NoNewCarrier /\ NoNewUser /\ NoNewFly
      /\ (\A s : ~WithUser(u, s)') /\ Associated' /\ Closed'
  BY <1>1, <1>2, <1>5, BackMove
<1>7. Tokens' /\ NoNewWith
  BY <1>1, <1>5, <1>6, TokensKept, WithKept DEF SameTokens
<1>8. Inputs'
  BY <1>1, <1>5, InputsKept
<1>9. /\ ~InQueue(r) /\ (\A c \in Conns : ~With(c, r)) /\ answer[r] = "pending"
      /\ \A v \in Users : WithUser(v, r) => v = u
  <2>1. WithUser(u, r) /\ Unique(r)
    BY <1>1, <1>3, <1>4 DEF WithUser, AllUnique
  <2> QED
    BY <2>1 DEF Unique
<1>10. (\A c \in Conns : ~With(c, r)') /\ \A v \in Users : ~WithUser(v, r)'
  BY <1>4, <1>6, <1>7, <1>9 DEF NoNewWith, NoNewUser
<1>11. CASE Len(client.queue) < QueueSize
  <2>1. client' = [client EXCEPT !.queue = Append(@, r)] /\ answer' = answer
    BY <1>3, <1>11 DEF Enqueue
  <2>2. client.queue \in Seq(Requests) /\ Len(client.queue) \in Nat
    BY <1>1 DEF Types, Clients
  <2>3. PICK q : q = Append(client.queue, r)
    OBVIOUS
  <2>4. /\ q \in Seq(Requests) /\ Len(q) = Len(client.queue) + 1
        /\ \A i \in 1 .. Len(client.queue) : q[i] = client.queue[i]
        /\ q[Len(q)] = r
    BY <1>4, <2>2, <2>3, AppendProperties
  <2>5. client' \in Clients /\ client'.queue = q
    BY <1>1, <2>1, <2>3, <2>4 DEF Types, Clients
  <2>6. Types'
    BY <1>1, <1>11, <2>1, <2>2, <2>4, <2>5, Numbers DEF Types
  <2>7. \A i \in 1 .. Len(q) : i = Len(q) \/ i \in 1 .. Len(client.queue)
    BY <2>2, <2>4
  <2>8. ASSUME NEW s \in Requests PROVE Unique(s)'
    <3>1. Unique(s) /\ answer'[s] = answer[s]
      BY <1>1, <2>1 DEF AllUnique
    <3>2. /\ \A c \in Conns : With(c, s)' => With(c, s)
          /\ \A v \in Users : WithUser(v, s)' => WithUser(v, s)
      BY <1>6, <1>7 DEF NoNewWith, NoNewUser
    <3>3. CASE s # r
      <4>1. InQueue(s)' => InQueue(s)
        BY <2>4, <2>5, <2>7, <3>3 DEF InQueue
      <4>2. \A i, j \in 1 .. Len(q) : q[i] = s /\ q[j] = s => i = j
        BY <2>4, <2>7, <3>1, <3>3 DEF Unique
      <4> QED
        BY <2>5, <3>1, <3>2, <4>1, <4>2, UniqueOne
    <3>4. CASE s = r
      <4>1. \A i, j \in 1 .. Len(q) : q[i] = r /\ q[j] = r => i = j
        BY <1>9, <2>4, <2>7 DEF InQueue
      <4> QED
        BY <1>9, <1>10, <2>5, <3>1, <3>4, <4>1 DEF Unique
    <3> QED
      BY <3>3, <3>4
  <2>9. Own' /\ Once
    BY <1>1, <1>5, <1>6, <2>1, OwnKept DEF Once
  <2> QED
    BY <1>6, <1>7, <1>8, <2>6, <2>8, <2>9 DEF IInv, AllUnique
<1>12. CASE ~(Len(client.queue) < QueueSize)
  <2>1. answer' = [answer EXCEPT ![r] = "full"] /\ client' = client
    BY <1>3, <1>12 DEF Enqueue
  <2>2. answer'[r] = "full" /\ \A s \in Requests : s # r => answer'[s] = answer[s]
    BY <1>1, <1>4, <2>1 DEF Types
  <2>3. Types'
    BY <1>1, <1>4, <2>1 DEF Types, Outcomes
  <2>4. AllUnique'
    BY <1>1, <1>6, <1>7, <1>9, <1>10, <2>1, <2>2, UniqueKept DEF SameQueue
  <2>5. Once
    BY <1>9, <2>2 DEF Once, Answered
  <2>6. Own'
    BY <1>1, <1>5, <1>6, <2>2, <2>5, OwnAnswers, ValuesAssumption DEF SameTokens
  <2> QED
    BY <1>6, <1>7, <1>8, <2>3, <2>4, <2>5, <2>6 DEF IInv
<1> QED
  BY <1>11, <1>12

LEMMA AssociateKeeps ==
  ASSUME IInv, NEW u \in Users, Associate(u)
  PROVE  IInv' /\ Once
<1>1. PICK c, l : /\ c = th[u].conn
                  /\ l = IF conn[c].status = "Connected" THEN "perform" ELSE "asyncPerform"
  OBVIOUS
<1>2. /\ Types /\ th[u].pc = "got" /\ Goto(u, l)
      /\ UNCHANGED <<client, io, answer, closing>>
  BY <1>1 DEF IInv, Associate
<1>3. PICK t \in Transports : conn' = [conn EXCEPT ![c].transport = t]
  BY <1>1 DEF Associate
<1>4. u \in Threads /\ u \notin Transports /\ c \in Conns
  BY <1>1, <1>2, AtLabel, ValuesAssumption DEF Threads, Located
<1>5. FrameOK(u, th[u]) /\ Placed(u, th[u]) /\ th[u].req \in Requests
  BY <1>2, <1>4, AtLabel DEF Carrying
<1>6. PICK g : g = [th[u] EXCEPT !.pc = l]
  OBVIOUS
<1>7. th' = [th EXCEPT ![u] = g]
  BY <1>2, <1>4, <1>6 DEF Goto, IInv, Framed
<1>8. l \in {"perform", "asyncPerform"}
  BY <1>1
<1>9. FrameOK(u, g) /\ g.pc = l /\ g.conn = c /\ g.req = th[u].req
  BY <1>1, <1>4, <1>5, <1>6, <1>8, GotoFrame DEF UserLabels
<1>10. PICK d : d = [conn[c] EXCEPT !.transport = t]
  OBVIOUS
<1>11. conn[c] \in Connections
  BY <1>2, <1>4, ConnectionTypes
<1>12. /\ d \in Connections /\ d.entry = conn[c].entry /\ d.waiting = conn[c].waiting
       /\ d.state = conn[c].state /\ d.transport = t /\ d.wire = conn[c].wire
       /\ d.inbox = conn[c].inbox /\ d.parser = conn[c].parser /\ d.peer = conn[c].peer
  BY <1>10, <1>11 DEF Connections
<1>13. /\ conn' \in [Conns -> Connections] /\ conn'[c] = d
       /\ \A e \in Conns : e # c => conn'[e] = conn[e]
  BY <1>2, <1>3, <1>4, <1>10, <1>12 DEF Types
<1>14. /\ SameTokens /\ SameFlight /\ SameSends /\ SameClosing /\ SameQueue
  BY <1>2, <1>12, <1>13
  DEF SameTokens, SameFlight, SameSends, SameClosing, SameQueue, SameInput
<1>15. Types'
  BY <1>2, <1>13 DEF Types
<1>16. /\ Framed' /\ th'[u] = g /\ (\A y \in Threads : y # u => th'[y] = th[y]) /\ Closed'
  BY <1>2, <1>4, <1>7, <1>9, <1>14, Move DEF MayGo
<1>17. Associated'
  <2>1. t # None
    BY ValuesAssumption
  <2>2. \A e \in Conns : conn'[e].transport = conn[e].transport \/ conn'[e].transport # None
    BY <1>12, <1>13, <2>1
  <2>3. ASSUME NEW y \in Threads PROVE Placed(y, th[y])'
    <3> SUFFICES ASSUME y \in Users PROVE Placed(y, th[y])'
      BY DEF Placed
    <3>1. FrameOK(y, th[y]) /\ Placed(y, th[y])
      BY AtLabel
    <3>2. th'[y].stack = th[y].stack
      BY <1>5, <1>6, <1>16 DEF FrameOK, Frames
    <3>3. \A i \in 1 .. Len(th[y].stack) : th[y].stack[i].conn \in Conns
      BY <3>1 DEF FrameOK, Located
    <3>4. \A i \in 1 .. Len(th[y].stack) : conn'[th[y].stack[i].conn].transport # None
      BY <2>2, <3>1, <3>3 DEF Placed
    <3>5. th'[y].pc \in PlacedLabels => conn'[th'[y].conn].transport # None
      <4>1. CASE y = u
        BY <1>9, <1>12, <1>13, <1>16, <2>1, <4>1
      <4>2. CASE y # u
        <5>1. th'[y] = th[y]
          BY <1>16, <4>2
        <5>2. th[y].pc \in PlacedLabels => th[y].conn \in Conns
          BY <3>1 DEF FrameOK, PlacedLabels, Located
        <5> QED
          BY <2>2, <3>1, <5>1, <5>2 DEF Placed
      <4> QED
        BY <4>1, <4>2
    <3> QED
      BY <3>2, <3>4, <3>5 DEF Placed
  <2> QED
    BY <2>3 DEF Associated
<1>18. NoNewHolder /\ NoNewFly /\ NoNewCarrier /\ NoNewUser
  BY <1>1, <1>2, <1>8, <1>9, <1>16
  DEF NoNewHolder, NoNewFly, NoNewCarrier, NoNewUser, Holder, Fly, WithUser, Threads,
      Holding, Carrying, Flying
<1> QED
  BY <1>2, <1>14, <1>15, <1>16, <1>17, <1>18, MoveStep

LEMMA AllAloneStep ==
  ASSUME AllAlone, NEW c \in Conns, conn'[c].peer \in {"none", "up"} => Alone(c)',
         \A e \in Conns : e # c =>
           /\ SameInput(e) /\ conn'[e].parser = conn[e].parser /\ conn'[e].entry = conn[e].entry
           /\ \A x \in Threads : Fly(x, e)' => Fly(x, e) /\ th'[x].req = th[x].req,
         SameSends
  PROVE  AllAlone'
<1> SUFFICES ASSUME NEW e \in Conns, e # c, conn'[e].peer \in {"none", "up"} PROVE Alone(e)'
  BY DEF AllAlone
<1>1. Alone(e)
  BY DEF AllAlone, SameInput
<1> QED
  BY <1>1, AloneKept DEF SameInput

LEMMA AsyncPerformKeeps ==
  ASSUME IInv, NEW u \in Users, AsyncPerform(u)
  PROVE  IInv' /\ Once
<1>1. PICK c, r : c = th[u].conn /\ r = th[u].req
  OBVIOUS
<1>2. /\ Types /\ Inputs /\ Tokens /\ AllUnique /\ Own /\ th[u].pc = "asyncPerform"
      /\ Goto(u, "connect") /\ conn' = [conn EXCEPT ![c].waiting = Append(@, r)]
      /\ UNCHANGED <<client, io, answer, closing>>
  BY <1>1 DEF IInv, AsyncPerform
<1>3. u \in Threads /\ u \notin Transports /\ c \in Conns /\ r \in Requests
  BY <1>1, <1>2, AtLabel, ValuesAssumption DEF Threads, Located, Carrying
<1>4. FrameOK(u, th[u]) /\ Placed(u, th[u])
  BY <1>3, AtLabel
<1>5. conn[th[u].conn].transport # None
  BY <1>2, <1>3, AtLabel DEF PlacedLabels
<1>6. PICK g : g = [th[u] EXCEPT !.pc = "connect"]
  OBVIOUS
<1>7. th' = [th EXCEPT ![u] = g]
  BY <1>2, <1>6 DEF Goto, IInv, Framed
<1>8. FrameOK(u, g) /\ g.pc = "connect" /\ Placed(u, g)
  BY <1>1, <1>3, <1>4, <1>5, <1>6, GotoFrame, GotoPlaced DEF UserLabels, Carrying, Flying
<1>9. Holder(u, c) /\ Token(c)
  BY <1>1, <1>2, <1>3 DEF Holder, Holding, Carrying, Tokens
<1>10. conn[c].entry = None /\ conn[c].waiting = <<>> /\ conn[c].state # "Idle"
       /\ \A y \in Threads : Holder(y, c) => y = u
  BY <1>3, <1>9 DEF Token
<1>11. PICK w : w = <<r>>
  OBVIOUS
<1>12. w \in Seq(Requests) /\ Len(w) = 1 /\ w[1] = r
  BY <1>3, <1>11
<1>13. PICK d : d = [conn[c] EXCEPT !.waiting = w]
  OBVIOUS
<1>14. conn' = [conn EXCEPT ![c] = d]
  <2>1. Append(conn[c].waiting, r) = w
    BY <1>10, <1>11
  <2> QED
    BY <1>2, <1>3, <1>13, <2>1 DEF Types
<1>15. conn[c] \in Connections
  BY <1>2, <1>3, ConnectionTypes
<1>16. /\ d \in Connections /\ d.entry = conn[c].entry /\ d.waiting = w
       /\ d.state = conn[c].state /\ d.transport = conn[c].transport /\ d.wire = conn[c].wire
       /\ d.inbox = conn[c].inbox /\ d.parser = conn[c].parser /\ d.peer = conn[c].peer
  BY <1>12, <1>13, <1>15 DEF Connections
<1>17. /\ conn' \in [Conns -> Connections] /\ conn'[c] = d
       /\ \A e \in Conns : e # c => conn'[e] = conn[e]
  BY <1>2, <1>3, <1>14, <1>16 DEF Types
<1>18. /\ SameTransports /\ SameFlight /\ SameSends /\ SameClosing /\ SameQueue
       /\ \A e \in Conns : SameInput(e) /\ conn'[e].entry = conn[e].entry
  BY <1>2, <1>16, <1>17
  DEF SameTransports, SameFlight, SameSends, SameClosing, SameQueue, SameInput
<1>19. Types'
  BY <1>2, <1>17 DEF Types
<1>20. /\ Framed' /\ th'[u] = g /\ (\A y \in Threads : y # u => th'[y] = th[y]) /\ Closed' /\ Associated'
  BY <1>2, <1>3, <1>7, <1>8, <1>18, Move DEF MayGo
<1>21. Plain(u, g)
  BY <1>8 DEF Plain, Holding, Carrying, Flying
<1>22. NoNewHolder /\ NoNewFly /\ NoNewCarrier /\ NoNewUser
  BY <1>3, <1>7, <1>8, <1>21, PlainMove DEF IInv
<1>23. Tokens'
  <2>1. \A y \in Threads : ~Holder(y, c)'
    BY <1>3, <1>8, <1>10, <1>20, <1>22 DEF NoNewHolder, Holder, Holding, Carrying
  <2>3. conn'[c].entry = None /\ conn'[c].state # "Idle" /\ Len(conn'[c].waiting) <= 1
    <3>1. conn'[c].waiting = w
      BY <1>16, <1>17
    <3>2. Len(w) <= 1
      BY <1>12
    <3>3. conn'[c].entry = None /\ conn'[c].state # "Idle"
      BY <1>10, <1>16, <1>17
    <3> QED
      BY <3>1, <3>2, <3>3
  <2>2. Token(c)'
    BY <2>1, <2>3 DEF Token
  <2> QED
    BY <1>2, <1>3, <1>17, <1>22, <2>2, TokensStep DEF NoNewHolder
<1>24. NoNewWith
  <2> SUFFICES ASSUME NEW e \in Conns, NEW s \in Requests, With(e, s)' PROVE With(e, s)
    BY DEF NoNewWith
  <2>1. CASE e # c
    BY <1>17, <1>22, <2>1 DEF With, NoNewCarrier
  <2>2. CASE e = c
    <3>1. With(c, r)
      BY <1>1, <1>2, <1>3 DEF With, Carrying
    <3>2. \A i \in 1 .. Len(conn'[c].waiting) : conn'[c].waiting[i] = r
      BY <1>12, <1>16, <1>17
    <3> QED
      BY <1>18, <1>22, <2>2, <3>1, <3>2 DEF With, NoNewCarrier
  <2> QED
    BY <2>1, <2>2
<1>25. AllUnique'
  BY <1>2, <1>18, <1>22, <1>24, UniqueKept
<1>26. Once
  BY <1>2 DEF Once
<1>27. Own' /\ Inputs'
  BY <1>2, <1>18, <1>22, <1>26, OwnAnswers, InputsKept
<1> QED
  BY <1>19, <1>20, <1>23, <1>25, <1>26, <1>27 DEF IInv

LEMMA ProcessWaitingKeeps ==
  ASSUME IInv, NEW x \in Threads, ProcessWaiting(x)
  PROVE  IInv' /\ Once
<1>1. PICK c, h : c = th[x].conn /\ h = Head(conn[c].waiting)
  OBVIOUS
<1>2. /\ Types /\ Inputs /\ Tokens /\ AllUnique /\ Own /\ th[x].pc = "connected"
      /\ conn[c].waiting # <<>> /\ conn' = [conn EXCEPT ![c].waiting = Tail(@)]
      /\ th' = [th EXCEPT ![x] = Call([@ EXCEPT !.req = h], "connected", "perform")]
      /\ UNCHANGED <<client, io, answer, closing>>
  BY <1>1 DEF IInv, ProcessWaiting
<1>3. c \in Conns /\ FrameOK(x, th[x]) /\ Placed(x, th[x]) /\ th[x] \in Frames
      /\ (x \in Users => conn[c].transport # None)
  BY <1>1, <1>2, AtLabel DEF Located, PlacedLabels
<1>4. conn[c] \in Connections
  BY <1>2, <1>3, ConnectionTypes
<1>5. /\ h \in Requests /\ conn[c].waiting[1] = h /\ 1 \in 1 .. Len(conn[c].waiting)
      /\ Tail(conn[c].waiting) = <<>>
  <2>1. conn[c].waiting \in Seq(Requests) /\ Len(conn[c].waiting) <= 1
    BY <1>2, <1>3, <1>4 DEF Connections, Tokens, Token
  <2>2. /\ Len(conn[c].waiting) = 1 /\ h = conn[c].waiting[1] /\ h \in Requests
        /\ Len(Tail(conn[c].waiting)) = 0 /\ Tail(conn[c].waiting) \in Seq(Requests)
    <3>1. PICK v \in Seq(Requests) : v = conn[c].waiting
      BY <2>1
    <3>2. v # <<>> /\ Len(v) <= 1 /\ h = Head(v)
      BY <1>1, <1>2, <2>1, <3>1
    <3>3. Len(v) \in Nat /\ Len(v) # 0
      BY <3>2, EmptySeq
    <3>6. PICK n \in Nat : n = Len(v)
      BY <3>3
    <3>7. n <= 1 /\ n # 0
      BY <3>2, <3>3, <3>6
    <3>8. n = 1
      BY <3>7
    <3>4. Len(v) = 1
      BY <3>6, <3>8
    <3>5. Head(v) \in Requests /\ Tail(v) \in Seq(Requests) /\ Len(Tail(v)) = Len(v) - 1 /\ Head(v) = v[1]
      BY <3>2, HeadTailProperties
    <3> QED
      BY <3>1, <3>2, <3>4, <3>5
  <2>3. Tail(conn[c].waiting) = <<>>
    BY <2>2, EmptySeq
  <2> QED
    BY <2>2, <2>3
<1>6. PICK f : f = [th[x] EXCEPT !.req = h]
  OBVIOUS
<1>7. /\ f \in Frames /\ f.pc = "connected" /\ f.conn = c /\ f.req = h /\ f.stack = th[x].stack
  BY <1>1, <1>2, <1>3, <1>5, <1>6 DEF Frames
<1>8. FrameOK(x, f) /\ Placed(x, f)
  BY <1>2, <1>3, <1>5, <1>7 DEF FrameOK, Placed
<1>9. PICK g : g = Call(f, "connected", "perform")
  OBVIOUS
<1>10. th' = [th EXCEPT ![x] = g]
  BY <1>2, <1>6, <1>9 DEF IInv, Framed
<1>11. FrameOK(x, g) /\ g.pc = "perform" /\ g.conn = c /\ g.req = h /\ Placed(x, g)
  <2>1. /\ "connected" \in Bottom \cup {"pick"} /\ "perform" \in UserLabels \cap TransportLabels
    BY DEF UserLabels, TransportLabels, Bottom
  <2>2. Placed(x, g)
    BY <1>3, <1>7, <1>8, <1>9, CallPlaced
  <2>3. FrameOK(x, g) /\ g.pc = "perform" /\ g.conn = f.conn /\ g.req = f.req
    BY <1>3, <1>5, <1>7, <1>8, <1>9, <2>1, CallFrame
  <2> QED
    BY <1>7, <2>2, <2>3
<1>12. Token(c)
  BY <1>2, <1>3 DEF Tokens
<1>13. conn[c].entry = None /\ conn[c].state # "Idle" /\ \A y \in Threads : ~Holder(y, c)
  BY <1>2, <1>12 DEF Token
<1>14. PICK w : w = <<>> /\ w \in Seq(Requests) /\ Len(w) = 0
  BY EmptySeq
<1>15. PICK d : d = [conn[c] EXCEPT !.waiting = w]
  OBVIOUS
<1>16. conn' = [conn EXCEPT ![c] = d]
  BY <1>2, <1>3, <1>5, <1>14, <1>15 DEF Types
<1>17. /\ d \in Connections /\ d.entry = conn[c].entry /\ d.waiting = w
       /\ d.state = conn[c].state /\ d.transport = conn[c].transport /\ d.wire = conn[c].wire
       /\ d.inbox = conn[c].inbox /\ d.parser = conn[c].parser /\ d.peer = conn[c].peer
  BY <1>4, <1>14, <1>15 DEF Connections
<1>18. /\ conn' \in [Conns -> Connections] /\ conn'[c] = d
       /\ \A e \in Conns : e # c => conn'[e] = conn[e]
  BY <1>2, <1>3, <1>16, <1>17 DEF Types
<1>19. /\ SameTransports /\ SameFlight /\ SameSends /\ SameClosing /\ SameQueue
       /\ \A e \in Conns : SameInput(e) /\ conn'[e].entry = conn[e].entry
  BY <1>2, <1>17, <1>18
  DEF SameTransports, SameFlight, SameSends, SameClosing, SameQueue, SameInput
<1>20. Types'
  BY <1>2, <1>18 DEF Types
<1>21. /\ Framed' /\ th'[x] = g
       /\ \A y \in Threads : y # x =>
            /\ th'[y] = th[y]
            /\ \A e : (Holder(y, e)' <=> Holder(y, e)) /\ (Fly(y, e)' <=> Fly(y, e))
            /\ \A s : WithUser(y, s)' <=> WithUser(y, s)
       /\ Closed' /\ Associated'
  BY <1>2, <1>3, <1>10, <1>11, <1>19, Move DEF MayGo
<1>22. NoNewUser /\ NoNewFly
  BY <1>11, <1>21 DEF NoNewUser, NoNewFly, WithUser, Fly, Flying, Threads
<1>23. Tokens'
  <2>1. \A y \in Threads : Holder(y, c)' => y = x
    BY <1>13, <1>21
  <2>2. Token(c)'
    BY <1>13, <1>14, <1>17, <1>18, <2>1 DEF Token
  <2>3. \A e \in Conns : e # c => \A y \in Threads : Holder(y, e)' => Holder(y, e)
    BY <1>11, <1>21 DEF Holder
  <2> QED
    BY <1>2, <1>3, <1>18, <2>2, <2>3, TokensStep
<1>24. NoNewWith
  <2> SUFFICES ASSUME NEW e \in Conns, NEW s \in Requests, With(e, s)' PROVE With(e, s)
    BY DEF NoNewWith
  <2>1. CASE e # c
    BY <1>11, <1>18, <1>21, <2>1 DEF With
  <2>2. CASE e = c
    <3>1. With(c, h)
      BY <1>5 DEF With
    <3>2. 1 .. Len(conn'[c].waiting) = {}
      BY <1>14, <1>17, <1>18
    <3> QED
      BY <1>11, <1>19, <1>21, <2>2, <3>1, <3>2 DEF With
  <2> QED
    BY <2>1, <2>2
<1>25. AllUnique'
  BY <1>2, <1>19, <1>22, <1>24, UniqueKept
<1>26. Once
  BY <1>2 DEF Once
<1>27. Own' /\ Inputs'
  BY <1>2, <1>19, <1>22, <1>26, OwnAnswers, InputsKept
<1> QED
  BY <1>20, <1>21, <1>23, <1>25, <1>26, <1>27 DEF IInv

-----------------------------------------------------------------------------
\* Requests on their way to the server.
LEMMA AloneFree ==
  ASSUME IInv, NEW c \in Conns, Alone(c), conn[c].entry = None,
         conn[c].peer \in {"none", "up"}
  PROVE  /\ \A x \in Threads : ~Fly(x, c)
         /\ \A t \in Transports : \A i \in 1 .. Len(io[t].sends) : ~Queued(t, i, c)
         /\ conn[c].wire = <<>> /\ conn[c].inbox = <<>>
<1>1. Types /\ Input(c) /\ None \notin Requests
  BY ValuesAssumption DEF IInv, Inputs
<1>2. conn[c] \in Connections
  BY <1>1, ConnectionTypes
<1>3. \A x \in Threads : ~Fly(x, c)
  <2> SUFFICES ASSUME NEW x \in Threads, Fly(x, c) PROVE FALSE
    OBVIOUS
  <2>1. th[x].req \in Requests
    BY AtLabel DEF Fly
  <2> QED
    BY <1>1, <2>1 DEF Alone
<1>4. \A t \in Transports : \A i \in 1 .. Len(io[t].sends) : ~Queued(t, i, c)
  <2> SUFFICES ASSUME NEW t \in Transports, NEW i \in 1 .. Len(io[t].sends), Queued(t, i, c) PROVE FALSE
    OBVIOUS
  <2>1. io[t].sends \in Seq(Sends)
    BY <1>1 DEF Types, Ios
  <2>3. io[t].sends[i] \in Sends
    BY <2>1
  <2>2. io[t].sends[i].req \in Requests
    BY <2>3 DEF Sends
  <2> QED
    BY <1>1, <2>2 DEF Alone
<1>5. conn[c].wire = <<>>
  <2> SUFFICES ASSUME conn[c].wire # <<>> PROVE FALSE
    OBVIOUS
  <2>1. conn[c].wire = <<None>> /\ conn[c].wire \in Seq(Requests)
    BY <1>2 DEF Alone, Connections
  <2>2. conn[c].wire[1] = None /\ conn[c].wire[1] \in Requests
    BY <2>1
  <2> QED
    BY <1>1, <2>2
<1>6. conn[c].inbox = <<>>
  <2> SUFFICES ASSUME conn[c].inbox # <<>> PROVE FALSE
    OBVIOUS
  <2>1. conn[c].inbox = <<None>>
    BY DEF Alone
  <2>2. conn[c].inbox[Len(conn[c].inbox)] = None
    BY <2>1
  <2> QED
    BY <1>1, <2>2 DEF Input
<1> QED
  BY <1>3, <1>4, <1>5, <1>6

LEMMA PerformImplKeeps ==
  ASSUME IInv, NEW x \in Threads, PerformImpl(x)
  PROVE  IInv' /\ Once
<1>1. PICK c, r : c = th[x].conn /\ r = th[x].req
  OBVIOUS
<1>2. /\ Types /\ Inputs /\ Tokens /\ AllUnique /\ Own /\ th[x].pc = "perform"
      /\ Goto(x, "asyncSend")
      /\ UNCHANGED <<client, io, answer, closing>>
  BY DEF IInv, PerformImpl
<1>3. c \in Conns /\ r \in Requests /\ FrameOK(x, th[x]) /\ Placed(x, th[x])
      /\ (x \in Users => conn[th[x].conn].transport # None)
      /\ (x \in Transports => th[x].stack # <<>>)
  BY <1>1, <1>2, AtLabel DEF Located, Carrying, PlacedLabels, Calls
<1>4. PICK g : g = [th[x] EXCEPT !.pc = "asyncSend"]
  OBVIOUS
<1>5. th' = [th EXCEPT ![x] = g]
  BY <1>2, <1>4 DEF Goto, IInv, Framed
<1>6. FrameOK(x, g) /\ g.pc = "asyncSend" /\ g.conn = c /\ g.req = r /\ Placed(x, g)
  <2>1. "asyncSend" \in UserLabels \cap TransportLabels
    BY DEF UserLabels, TransportLabels
  <2> QED
    BY <1>1, <1>3, <1>4, <2>1, GotoFrame, GotoPlaced
<1>7. conn[c] \in Connections
  BY <1>2, <1>3, ConnectionTypes
<1>8. PICK d : d = [conn[c] EXCEPT !.entry = r, !.timer = IF r \in Timed THEN "armed" ELSE @]
  OBVIOUS
<1>9. conn' = [conn EXCEPT ![c] = d]
  BY <1>1, <1>2, <1>3, <1>8 DEF PerformImpl, Types
<1>10. /\ d \in Connections /\ d.entry = r /\ d.waiting = conn[c].waiting
       /\ d.state = conn[c].state /\ d.transport = conn[c].transport /\ d.wire = conn[c].wire
       /\ d.inbox = conn[c].inbox /\ d.parser = conn[c].parser /\ d.peer = conn[c].peer
  BY <1>3, <1>7, <1>8 DEF Connections
<1>11. /\ conn' \in [Conns -> Connections] /\ conn'[c] = d
       /\ \A e \in Conns : e # c => conn'[e] = conn[e]
  BY <1>2, <1>3, <1>9, <1>10 DEF Types
<1>12. /\ SameTransports /\ SameFlight /\ SameSends /\ SameClosing /\ SameQueue
       /\ \A e \in Conns : SameInput(e) /\ conn'[e].waiting = conn[e].waiting
  BY <1>2, <1>10, <1>11
  DEF SameTransports, SameFlight, SameSends, SameClosing, SameQueue, SameInput
<1>13. Types'
  BY <1>2, <1>11 DEF Types
<1>14. /\ Framed' /\ th'[x] = g
       /\ \A y \in Threads : y # x =>
            /\ th'[y] = th[y]
            /\ \A e : (Holder(y, e)' <=> Holder(y, e)) /\ (Fly(y, e)' <=> Fly(y, e))
            /\ \A s : WithUser(y, s)' <=> WithUser(y, s)
       /\ Closed' /\ Associated'
  BY <1>2, <1>5, <1>6, <1>12, Move DEF MayGo
<1>15. Token(c) /\ Holder(x, c)
  BY <1>1, <1>2, <1>3 DEF Tokens, Holder, Holding, Carrying
<1>16. conn[c].entry = None /\ conn[c].waiting = <<>> /\ conn[c].state # "Idle"
       /\ \A y \in Threads : Holder(y, c) => y = x
  BY <1>15 DEF Token
<1>17. NoNewUser /\ NoNewCarrier /\ \A y \in Threads : \A e : Holder(y, e)' => Holder(y, e) /\ y # x
  BY <1>6, <1>14
  DEF NoNewUser, NoNewCarrier, WithUser, Holder, Holding, Carrying, Threads
<1>18. Tokens'
  <2>1. \A y \in Threads : ~Holder(y, c)'
    BY <1>16, <1>17
  <2>2. conn'[c].waiting = <<>> /\ conn'[c].state # "Idle" /\ Len(conn'[c].waiting) <= 1
    BY <1>10, <1>11, <1>16
  <2>3. Token(c)'
    BY <2>1, <2>2 DEF Token
  <2> QED
    BY <1>2, <1>3, <1>11, <1>17, <2>3, TokensStep
<1>19. NoNewWith
  <2> SUFFICES ASSUME NEW e \in Conns, NEW s \in Requests, With(e, s)' PROVE With(e, s)
    BY DEF NoNewWith
  <2>1. CASE e # c
    BY <1>11, <1>17, <2>1 DEF With, NoNewCarrier
  <2>2. CASE e = c
    <3>1. With(c, r)
      BY <1>1, <1>2, <1>3 DEF With, Carrying
    <3> QED
      BY <1>10, <1>11, <1>12, <1>17, <2>2, <3>1 DEF With, NoNewCarrier
  <2> QED
    BY <2>1, <2>2
<1>20. AllUnique'
  BY <1>2, <1>12, <1>17, <1>19, UniqueKept
<1>21. Once
  BY <1>2 DEF Once
<1>22. Inputs'
  BY <1>2, <1>12, InputsKept
<1>23. ASSUME AllAlone PROVE AllAlone'
  <2>1. ASSUME conn'[c].peer \in {"none", "up"} PROVE Alone(c)'
    <3>6. conn[c].peer \in {"none", "up"}
      BY <1>10, <1>11, <2>1
    <3>1. Alone(c)
      BY <1>3, <1>23, <3>6 DEF AllAlone
    <3>2. /\ \A y \in Threads : ~Fly(y, c)
          /\ \A t \in Transports : \A i \in 1 .. Len(io[t].sends) : ~Queued(t, i, c)
          /\ conn[c].wire = <<>> /\ conn[c].inbox = <<>> /\ conn[c].parser = <<>>
      BY <1>3, <1>16, <3>1, <3>6, AloneFree DEF Alone
    <3>3. \A y \in Threads : Fly(y, c)' => y = x
      BY <1>14, <3>2
    <3>4. \A t \in Transports : \A i \in 1 .. Len(io'[t].sends) : ~Queued(t, i, c)'
      BY <1>2, <3>2 DEF Queued
    <3>5. conn'[c].wire = <<>> /\ conn'[c].inbox = <<>> /\ conn'[c].parser = <<>>
          /\ conn'[c].entry = r /\ th'[x].req = r
      BY <1>6, <1>10, <1>11, <1>14, <3>2
    <3> QED
      BY <3>3, <3>4, <3>5 DEF Alone
  <2>2. \A e \in Conns : e # c => \A y \in Threads : Fly(y, e)' => Fly(y, e) /\ th'[y].req = th[y].req
    BY <1>6, <1>14 DEF Fly
  <2> QED
    BY <1>3, <1>11, <1>12, <1>23, <2>1, <2>2, AllAloneStep DEF SameFlight
<1>24. Own'
  <2>1. OwnResponse => OwnResponse'
    BY <1>2 DEF OwnResponse
  <2> QED
    BY <1>2, <1>21, <1>23, <2>1, OwnStep
<1> QED
  BY <1>13, <1>14, <1>18, <1>20, <1>21, <1>22, <1>24 DEF IInv

\* One transport's queue of sends changes, but not what it holds of connection c.
LEMMA AloneShift ==
  ASSUME NEW c \in Conns, Alone(c), conn'[c].wire = conn[c].wire,
         conn'[c].inbox = conn[c].inbox, conn'[c].parser = conn[c].parser,
         conn'[c].entry = conn[c].entry,
         NEW t \in Transports, NEW k \in Int,
         \A s \in Transports : s # t => io'[s].sends = io[s].sends,
         \A i \in 1 .. Len(io'[t].sends) : Queued(t, i, c)' =>
           i + k \in 1 .. Len(io[t].sends) /\ io[t].sends[i + k] = io'[t].sends[i],
         \A x \in Threads : Fly(x, c)' => Fly(x, c) /\ th'[x].req = th[x].req
  PROVE  Alone(c)'
<1>1. /\ conn'[c].wire = conn[c].wire /\ conn'[c].inbox = conn[c].inbox
      /\ conn'[c].entry = conn[c].entry /\ conn'[c].parser = conn[c].parser
  OBVIOUS
<1>2. ASSUME NEW s \in Transports, NEW i \in 1 .. Len(io'[s].sends), Queued(s, i, c)'
      PROVE  \E j \in 1 .. Len(io[s].sends) :
               /\ Queued(s, j, c) /\ io'[s].sends[i] = io[s].sends[j]
               /\ j = IF s = t THEN i + k ELSE i
  <2>1. CASE s = t
    BY <1>2, <2>1 DEF Queued
  <2>2. CASE s # t
    BY <1>2, <2>2 DEF Queued
  <2> QED
    BY <2>1, <2>2
<1>3. \A x \in Threads : Fly(x, c)' =>
       /\ th'[x].req = conn'[c].entry
       /\ \A y \in Threads : Fly(y, c)' => x = y
       /\ \A s \in Transports : \A i \in 1 .. Len(io'[s].sends) : ~Queued(s, i, c)'
       /\ conn'[c].wire = <<>> /\ conn'[c].inbox = <<>>
  BY <1>1, <1>2 DEF Alone
<1>4. ASSUME NEW s \in Transports, NEW i \in 1 .. Len(io'[s].sends), Queued(s, i, c)'
      PROVE  /\ io'[s].sends[i].req = conn'[c].entry
             /\ conn'[c].wire = <<>> /\ conn'[c].inbox = <<>>
             /\ \A r \in Transports : \A j \in 1 .. Len(io'[r].sends) :
                  Queued(r, j, c)' => r = s /\ i = j
  <2>1. PICK m \in 1 .. Len(io[s].sends) :
               /\ Queued(s, m, c) /\ io'[s].sends[i] = io[s].sends[m]
               /\ m = IF s = t THEN i + k ELSE i
    BY <1>2, <1>4
  <2>2. /\ io[s].sends[m].req = conn[c].entry
        /\ conn[c].wire = <<>> /\ conn[c].inbox = <<>>
        /\ \A r \in Transports : \A j \in 1 .. Len(io[r].sends) : Queued(r, j, c) => r = s /\ m = j
    BY <2>1 DEF Alone
  <2>3. ASSUME NEW r \in Transports, NEW j \in 1 .. Len(io'[r].sends), Queued(r, j, c)'
        PROVE  r = s /\ i = j
    <3>1. PICK n \in 1 .. Len(io[r].sends) : Queued(r, n, c) /\ n = IF r = t THEN j + k ELSE j
      BY <1>2, <2>3
    <3>2. r = s /\ m = n
      BY <2>2, <3>1
    <3>3. i \in Int /\ j \in Int
      OBVIOUS
    <3> QED
      BY <2>1, <3>1, <3>2, <3>3
  <2> QED
    BY <1>1, <2>1, <2>2, <2>3
<1> QED
  BY <1>1, <1>3, <1>4 DEF Alone

LEMMA AsyncSendRequestKeeps ==
  ASSUME IInv, NEW x \in Threads, AsyncSendRequest(x)
  PROVE  IInv' /\ Once
<1>1. PICK c, t, r : c = th[x].conn /\ t = conn[c].transport /\ r = th[x].req
  OBVIOUS
<1>2. /\ Types /\ Inputs /\ Tokens /\ AllUnique /\ Own /\ th[x].pc = "asyncSend"
      /\ UNCHANGED <<conn, client, answer, closing>>
  BY DEF IInv, AsyncSendRequest
<1>3. /\ c \in Conns /\ r \in Requests /\ FrameOK(x, th[x]) /\ Placed(x, th[x])
      /\ (x \in Users => conn[th[x].conn].transport # None)
      /\ (x \in Transports => th[x].stack # <<>>)
  BY <1>1, <1>2, AtLabel DEF Located, Flying, PlacedLabels, Calls
<1>4. x \in Users <=> x \notin Transports
  BY ValuesAssumption DEF Threads
<1>5. t \in Transports \cup {None}
  BY <1>1, <1>2, <1>3, ConnectionTypes DEF Connections
<1>6. CASE t = None
  <2>1. Goto(x, "crashed") /\ io' = io
    BY <1>1, <1>6 DEF AsyncSendRequest
  <2>2. Types' /\ SameRest
    BY <1>2, <2>1, Unmoved
  <2>3. x \notin Users
    BY <1>1, <1>3, <1>6
  <2>4. MayGo(x, "crashed")
    BY <1>2 DEF MayGo
  <2> QED
    BY <2>1, <2>2, <2>3, <2>4, GotoStep
    DEF TransportLabels, Located, Holding, Carrying, Flying, Calls
<1>7. CASE t # None /\ t = x
  <2>1. Goto(x, "send") /\ io' = io
    BY <1>1, <1>7 DEF AsyncSendRequest
  <2>2. x \notin Users
    BY <1>4, <1>5, <1>7
  <2>3. PICK g : g = [th[x] EXCEPT !.pc = "send"]
    OBVIOUS
  <2>4. th' = [th EXCEPT ![x] = g]
    BY <2>1, <2>3 DEF Goto, IInv, Framed
  <2>5. FrameOK(x, g) /\ g.pc = "send" /\ g.conn = c /\ g.req = r
    <3>1. "send" \in TransportLabels
      BY DEF TransportLabels
    <3> QED
      BY <1>1, <1>3, <2>2, <2>3, <3>1, GotoFrame
  <2>6. Placed(x, g)
    BY <2>2 DEF Placed
  <2>7. Types' /\ SameRest
    BY <1>2, <2>1, Unmoved
  <2>8. /\ Framed' /\ th'[x] = g /\ (\A y \in Threads : y # x => th'[y] = th[y])
        /\ Associated' /\ Closed'
    BY <1>2, <2>4, <2>5, <2>6, <2>7, Move DEF SameRest, MayGo
  <2>9. NoNewHolder /\ NoNewFly /\ NoNewCarrier /\ NoNewUser
    BY <1>1, <1>2, <2>5, <2>8
    DEF NoNewHolder, NoNewFly, NoNewCarrier, NoNewUser, Holder, Fly, WithUser, Threads,
        Holding, Carrying, Flying
  <2> QED
    BY <2>7, <2>8, <2>9, MoveStep DEF SameRest
<1>8. CASE t # None /\ t # x
  <2>1. t \in Transports
    BY <1>5, <1>8
  <2>2. PICK e : e = [conn |-> c, req |-> r]
    OBVIOUS
  <2>3. e \in Sends /\ e.conn = c /\ e.req = r
    BY <1>3, <2>2 DEF Sends
  <2>4. Return(x)
    BY <1>1, <1>8 DEF AsyncSendRequest
  <2>5. io[t] \in Ios /\ io[t].sends \in Seq(Sends)
    BY <1>2, <2>1 DEF Types, Ios
  <2>6. PICK q : q = Append(io[t].sends, e)
    OBVIOUS
  <2>7. /\ q \in Seq(Sends) /\ Len(q) = Len(io[t].sends) + 1 /\ Len(io[t].sends) \in Nat
        /\ \A i \in 1 .. Len(io[t].sends) : q[i] = io[t].sends[i]
        /\ q[Len(q)] = e
    BY <2>3, <2>5, <2>6, AppendProperties
  <2>8. PICK o : o = [io[t] EXCEPT !.sends = q]
    OBVIOUS
  <2>9. o \in Ios /\ o.sends = q /\ o.shutdown = io[t].shutdown
    BY <2>5, <2>7, <2>8 DEF Ios
  <2>10. io' = [io EXCEPT ![t] = o]
    BY <1>1, <1>2, <1>8, <2>1, <2>2, <2>6, <2>8 DEF AsyncSendRequest, Types
  <2>11. /\ io' \in [Transports -> Ios] /\ io'[t].sends = q
         /\ \A s \in Transports : s # t => io'[s] = io[s]
    BY <1>2, <2>1, <2>9, <2>10 DEF Types
  <2>12. SameClosing
    BY <1>2, <2>1, <2>9, <2>10, <2>11 DEF SameClosing, Types
  <2>13. Types' /\ SameTransports /\ SameTokens /\ SameFlight /\ SameQueue
         /\ \A d \in Conns : SameInput(d)
    BY <1>2, <2>11
    DEF Types, SameTransports, SameTokens, SameFlight, SameInput, SameQueue
  <2>14. /\ Framed' /\ NoNewHolder /\ NoNewCarrier /\ NoNewUser /\ NoNewFly
         /\ \A d : ~Fly(x, d)'
         /\ \A y \in Threads : y # x => th'[y] = th[y]
         /\ Associated' /\ Closed'
    BY <1>2, <2>4, <2>12, <2>13, BackMove DEF Calls
  <2>15. Tokens' /\ NoNewWith
    BY <1>2, <2>13, <2>14, TokensKept, WithKept DEF SameTokens
  <2>16. AllUnique'
    BY <1>2, <2>13, <2>14, <2>15, UniqueKept
  <2>17. Inputs' /\ Once
    BY <1>2, <2>13, InputsKept DEF Once
  <2>18. \A i \in 1 .. Len(q) : i = Len(q) \/ i \in 1 .. Len(io[t].sends)
    BY <2>7
  <2>19. ASSUME AllAlone, NEW d \in Conns, conn'[d].peer \in {"none", "up"} PROVE Alone(d)'
    <3>1. Alone(d) /\ conn'[d] = conn[d]
      BY <1>2, <2>19 DEF AllAlone
    <3>2. CASE d # c
      <4>1. \A i \in 1 .. Len(io'[t].sends) : Queued(t, i, d)' =>
              i \in 1 .. Len(io[t].sends) /\ io[t].sends[i] = io'[t].sends[i]
        BY <2>3, <2>7, <2>11, <2>18, <3>2 DEF Queued
      <4>2. PICK k \in Int : k = 0
        OBVIOUS
      <4>3. \A i \in 1 .. Len(io'[t].sends) : i + k = i
        BY <4>2
      <4>4. \A i \in 1 .. Len(io'[t].sends) : Queued(t, i, d)' =>
              i + k \in 1 .. Len(io[t].sends) /\ io[t].sends[i + k] = io'[t].sends[i]
        BY <4>1, <4>3
      <4>5. \A s \in Transports : s # t => io'[s].sends = io[s].sends
        BY <2>11
      <4>6. \A y \in Threads : Fly(y, d)' => Fly(y, d) /\ th'[y].req = th[y].req
        BY <2>14 DEF NoNewFly
      <4> QED
        BY <2>1, <3>1, <4>4, <4>5, <4>6, AloneShift
    <3>3. CASE d = c
      <4>1. Fly(x, c)
        BY <1>1, <1>2 DEF Fly, Flying
      <4>2. /\ r = conn[c].entry /\ (\A y \in Threads : Fly(y, c) => x = y)
            /\ \A s \in Transports : \A i \in 1 .. Len(io[s].sends) : ~Queued(s, i, c)
            /\ conn[c].wire = <<>> /\ conn[c].inbox = <<>> /\ conn[c].parser = <<>>
        BY <1>1, <3>1, <3>3, <4>1 DEF Alone
      <4>3. \A y \in Threads : ~Fly(y, c)'
        BY <1>3, <2>14, <4>2 DEF NoNewFly
      <4>4. ASSUME NEW s \in Transports, NEW i \in 1 .. Len(io'[s].sends), Queued(s, i, c)'
            PROVE  s = t /\ i = Len(q) /\ io'[s].sends[i].req = r
        <5>1. CASE s = t
          BY <2>3, <2>7, <2>11, <2>18, <4>2, <4>4, <5>1 DEF Queued
        <5>2. CASE s # t
          BY <2>11, <4>2, <4>4, <5>2 DEF Queued
        <5> QED
          BY <5>1, <5>2
      <4> QED
        BY <3>1, <3>3, <4>2, <4>3, <4>4 DEF Alone
    <3> QED
      BY <3>2, <3>3
  <2>20. Own'
    <3>1. OwnResponse => OwnResponse'
      BY <1>2 DEF OwnResponse
    <3>2. AllAlone => AllAlone'
      BY <2>19 DEF AllAlone
    <3> QED
      BY <1>2, <2>17, <3>1, <3>2, OwnStep
  <2> QED
    BY <2>13, <2>14, <2>15, <2>16, <2>17, <2>20 DEF IInv
<1> QED
  BY <1>6, <1>7, <1>8

LEMMA DrainSendKeeps ==
  ASSUME IInv, NEW t \in Transports, DrainSend(t)
  PROVE  IInv' /\ Once
<1>1. PICK e, q : e = Head(io[t].sends) /\ q = Tail(io[t].sends)
  OBVIOUS
<1>2. /\ Types /\ Inputs /\ Tokens /\ AllUnique /\ Own /\ th[t].pc = "drainSends"
      /\ io[t].sends # <<>> /\ io' = [io EXCEPT ![t].sends = q]
      /\ UNCHANGED <<conn, client, answer, closing>>
  BY <1>1 DEF IInv, DrainSend
<1>3. t \in Threads /\ t \notin Users /\ \A g : Placed(t, g)
  BY Reactor
<1>4. io[t] \in Ios /\ io[t].sends \in Seq(Sends)
  BY <1>2 DEF Types, Ios
<1>5. /\ e \in Sends /\ e = io[t].sends[1] /\ q \in Seq(Sends)
      /\ Len(q) = Len(io[t].sends) - 1 /\ Len(io[t].sends) \in Nat /\ Len(io[t].sends) >= 1
      /\ \A i \in 1 .. Len(q) : q[i] = io[t].sends[i + 1]
  <2>1. PICK v \in Seq(Sends) : v = io[t].sends
    BY <1>4
  <2>2. v # <<>> /\ e = Head(v) /\ q = Tail(v)
    BY <1>1, <1>2, <2>1
  <2>3. /\ e \in Sends /\ e = v[1] /\ q \in Seq(Sends) /\ Len(q) = Len(v) - 1
        /\ \A i \in 1 .. Len(q) : q[i] = v[i + 1]
    BY <2>2, HeadTailProperties
  <2>4. Len(v) \in Nat /\ Len(v) # 0
    BY <2>2, EmptySeq
  <2> QED
    BY <2>1, <2>3, <2>4
<1>6. PICK c, r : c = e.conn /\ r = e.req
  OBVIOUS
<1>7. c \in Conns /\ r \in Requests
  BY <1>5, <1>6 DEF Sends
<1>8. PICK h, st : h = [pc |-> "drainSends", conn |-> th[t].conn] /\ st = <<h>> \o th[t].stack
  OBVIOUS
<1>9. FrameOK(t, th[t]) /\ th[t] \in Frames /\ h \in Callers /\ h.pc = "drainSends"
  BY <1>3, <1>8, AtLabel DEF Callers, Bottom, Frames
<1>10. PICK g : g = [th[t] EXCEPT !.pc = "send", !.stack = st, !.conn = c, !.req = r]
  OBVIOUS
<1>11. th' = [th EXCEPT ![t] = g]
  <2>1. PICK f : f = Call(th[t], "drainSends", "send")
    OBVIOUS
  <2>2. f = [th[t] EXCEPT !.pc = "send", !.stack = st]
    BY <1>8, <2>1 DEF Call
  <2>3. [f EXCEPT !.conn = c, !.req = r] = g
    BY <1>9, <1>10, <2>2 DEF Frames
  <2> QED
    BY <1>1, <1>3, <1>6, <2>1, <2>3 DEF DrainSend, IInv, Framed
<1>12. st \in Seq(Callers)
  <2>1. <<h>> \in Seq(Callers) /\ th[t].stack \in Seq(Callers)
    BY <1>9 DEF Frames
  <2> QED
    BY <1>8, <2>1, ConcatProperties
<1>13. g \in Frames /\ g.pc = "send" /\ g.conn = c /\ g.req = r /\ g.stack = st
  BY <1>7, <1>9, <1>10, <1>12 DEF Frames, TransportLabels
<1>14. FrameOK(t, g)
  <2>1. "drainSends" \notin Located /\ "send" \in TransportLabels
    BY DEF Located, TransportLabels
  <2> QED
    BY <1>3, <1>7, <1>8, <1>9, <1>13, <2>1, PushFrame
<1>15. PICK o : o = [io[t] EXCEPT !.sends = q]
  OBVIOUS
<1>16. o \in Ios /\ o.sends = q /\ o.shutdown = io[t].shutdown
  BY <1>4, <1>5, <1>15 DEF Ios
<1>17. io' = [io EXCEPT ![t] = o]
  BY <1>2, <1>15 DEF Types
<1>18. /\ io' \in [Transports -> Ios] /\ io'[t] = o
       /\ \A s \in Transports : s # t => io'[s] = io[s]
  BY <1>2, <1>16, <1>17 DEF Types
<1>19. SameClosing
  BY <1>2, <1>16, <1>18 DEF SameClosing
<1>20. Types' /\ SameTransports /\ SameTokens /\ SameFlight /\ SameQueue
       /\ \A d \in Conns : SameInput(d)
  BY <1>2, <1>18
  DEF Types, SameTransports, SameTokens, SameFlight, SameInput, SameQueue
<1>21. /\ Framed' /\ th'[t] = g
       /\ \A y \in Threads : y # t =>
            /\ th'[y] = th[y]
            /\ \A d : (Holder(y, d)' <=> Holder(y, d)) /\ (Fly(y, d)' <=> Fly(y, d))
       /\ Associated' /\ Closed'
  BY <1>2, <1>3, <1>11, <1>13, <1>14, <1>19, <1>20, Move DEF MayGo
<1>22. NoNewHolder /\ NoNewCarrier /\ NoNewUser
  BY <1>3, <1>13, <1>21
  DEF NoNewHolder, NoNewCarrier, NoNewUser, Holder, WithUser, Holding, Carrying, Threads
<1>23. Tokens' /\ NoNewWith
  BY <1>2, <1>20, <1>22, TokensKept, WithKept DEF SameTokens
<1>24. AllUnique'
  BY <1>2, <1>20, <1>22, <1>23, UniqueKept
<1>25. Inputs' /\ Once
  BY <1>2, <1>20, InputsKept DEF Once
<1>26. \A d : ~Fly(t, d)
  BY <1>2 DEF Fly, Flying
<1>27. ASSUME AllAlone, NEW d \in Conns, conn'[d].peer \in {"none", "up"} PROVE Alone(d)'
  <2>1. Alone(d) /\ conn'[d] = conn[d]
    BY <1>2, <1>27 DEF AllAlone
  <2>2. CASE d # c
    <3>3. PICK k \in Int : k = 1
      OBVIOUS
    <3>1. \A i \in 1 .. Len(io'[t].sends) : Queued(t, i, d)' =>
            i + k \in 1 .. Len(io[t].sends) /\ io[t].sends[i + k] = io'[t].sends[i]
      BY <1>5, <1>16, <1>18, <3>3
    <3>4. \A s \in Transports : s # t => io'[s].sends = io[s].sends
      BY <1>18
    <3>2. \A y \in Threads : Fly(y, d)' => Fly(y, d) /\ th'[y].req = th[y].req
      BY <1>13, <1>21, <2>2 DEF Fly
    <3> QED
      BY <2>1, <3>1, <3>2, <3>4, AloneShift
  <2>3. CASE d = c
    <3>1. 1 \in 1 .. Len(io[t].sends) /\ Queued(t, 1, c)
      BY <1>5, <1>6 DEF Queued
    <3>2. /\ r = conn[c].entry /\ conn[c].parser = <<>>
          /\ \A s \in Transports : \A j \in 1 .. Len(io[s].sends) : Queued(s, j, c) => s = t /\ 1 = j
          /\ conn[c].wire = <<>> /\ conn[c].inbox = <<>>
      BY <1>5, <1>6, <2>1, <2>3, <3>1 DEF Alone
    <3>3. \A y \in Threads : ~Fly(y, c)
      BY <2>1, <2>3, <3>1 DEF Alone
    <3>4. \A y \in Threads : Fly(y, c)' => y = t
      BY <1>21, <3>3
    <3>5. ASSUME NEW s \in Transports, NEW i \in 1 .. Len(io'[s].sends), Queued(s, i, c)'
          PROVE  FALSE
      <4>1. CASE s = t
        <5>1. i + 1 \in 1 .. Len(io[t].sends) /\ io'[t].sends[i] = io[t].sends[i + 1] /\ i >= 1
          BY <1>5, <1>16, <1>18, <3>5, <4>1
        <5>2. Queued(t, i + 1, c)
          BY <3>5, <4>1, <5>1 DEF Queued
        <5>3. 1 = i + 1
          BY <3>2, <5>1, <5>2
        <5> QED
          BY <5>1, <5>3
      <4>2. CASE s # t
        BY <1>18, <3>2, <3>5, <4>2 DEF Queued
      <4> QED
        BY <4>1, <4>2
    <3> QED
      BY <1>13, <1>21, <2>1, <2>3, <3>2, <3>4, <3>5 DEF Alone
  <2> QED
    BY <2>2, <2>3
<1>28. Own'
  <2>1. OwnResponse => OwnResponse'
    BY <1>2 DEF OwnResponse
  <2>2. AllAlone => AllAlone'
    BY <1>27 DEF AllAlone
  <2> QED
    BY <1>2, <1>25, <2>1, <2>2, OwnStep
<1> QED
  BY <1>20, <1>21, <1>23, <1>24, <1>25, <1>28 DEF IInv

-----------------------------------------------------------------------------
\* A thread's plain step changes the bytes of one connection.
LEMMA BytesStep ==
  ASSUME IInv, NEW x \in Threads, NEW g, FrameOK(x, g), Placed(x, g), Plain(x, g), MayGo(x, g.pc),
         th' = [th EXCEPT ![x] = g],
         NEW c \in Conns, NEW d \in Connections, conn' = [conn EXCEPT ![c] = d],
         d.entry = conn[c].entry, d.waiting = conn[c].waiting, d.state = conn[c].state,
         d.transport = conn[c].transport,
         UNCHANGED <<client, io, answer, closing>>,
         Input(c)', AllAlone /\ d.peer \in {"none", "up"} => Alone(c)'
  PROVE  IInv' /\ Once
<1>1. Types /\ Framed /\ Associated /\ Inputs /\ Tokens /\ AllUnique /\ Closed /\ Own
  BY DEF IInv
<1>2. /\ conn' \in [Conns -> Connections] /\ conn'[c] = d
      /\ \A e \in Conns : e # c => conn'[e] = conn[e]
  BY <1>1 DEF Types
<1>3. Types' /\ SameTransports /\ SameTokens /\ SameSends /\ SameClosing /\ SameQueue
  BY <1>1, <1>2 DEF Types, SameTransports, SameTokens, SameSends, SameClosing, SameQueue
<1>4. Framed' /\ NoNewHolder /\ NoNewCarrier /\ NoNewUser /\ NoNewFly
  BY <1>1, PlainMove
<1>5. Tokens' /\ NoNewWith
  BY <1>1, <1>3, <1>4, TokensKept, WithKept DEF SameTokens
<1>6. AllUnique'
  BY <1>1, <1>3, <1>4, <1>5, UniqueKept
<1>7. Inputs'
  BY <1>1, <1>2, InputsStep DEF SameInput
<1>8. Closed' /\ Associated'
  BY <1>1, <1>3, ClosedKept, AssociatedKept DEF MayGo
<1>9. Once
  BY DEF Once
<1>10. AllAlone => AllAlone'
  BY <1>2, <1>3, <1>4, AllAloneStep DEF SameInput, NoNewFly
<1>11. Own'
  <2>1. OwnResponse => OwnResponse'
    BY DEF OwnResponse
  <2> QED
    BY <1>1, <1>9, <1>10, <2>1, OwnStep
<1> QED
  BY <1>3, <1>4, <1>5, <1>6, <1>7, <1>8, <1>9, <1>11 DEF IInv

LEMMA SendOkKeeps ==
  ASSUME IInv, NEW t \in Transports, SendOk(t)
  PROVE  IInv' /\ Once
<1>1. PICK c, r : c = th[t].conn /\ r = th[t].req
  OBVIOUS
<1>2. /\ Types /\ Inputs /\ th[t].pc = "send" /\ UNCHANGED <<client, io, answer, closing>>
  BY DEF IInv, SendOk
<1>3. t \in Threads /\ t \notin Users /\ \A g : Placed(t, g)
  BY Reactor
<1>4. /\ c \in Conns /\ r \in Requests /\ FrameOK(t, th[t]) /\ th[t].stack # <<>>
  BY <1>1, <1>2, <1>3, AtLabel DEF Located, Flying, Calls
<1>5. \E g : /\ FrameOK(t, g) /\ Plain(t, g) /\ th' = [th EXCEPT ![t] = g]
  <2>1. CASE r \in Timed
    <3>1. PICK g : g = [th[t] EXCEPT !.pc = "register"]
      OBVIOUS
    <3>2. th' = [th EXCEPT ![t] = g]
      BY <1>1, <2>1, <3>1 DEF SendOk, Goto, IInv, Framed
    <3>3. FrameOK(t, g) /\ g.pc = "register"
      <4>1. "register" \in TransportLabels
        BY DEF TransportLabels
      <4> QED
        BY <1>1, <1>3, <1>4, <3>1, <4>1, GotoFrame, SMTT(60)
    <3> QED
      BY <1>3, <3>2, <3>3 DEF Plain, Holding, Carrying, Flying
  <2>2. CASE r \notin Timed
    <3>1. PICK g : g = Back(th[t])
      OBVIOUS
    <3>2. th' = [th EXCEPT ![t] = g]
      BY <1>1, <2>2, <3>1 DEF SendOk, Return, IInv, Framed
    <3>3. FrameOK(t, g) /\ g.pc \in Bottom \cup {"pick"}
      BY <1>3, <1>4, <3>1, BackFrame
    <3> QED
      BY <1>3, <3>2, <3>3 DEF Plain, Bottom, Holding, Carrying, Flying
  <2> QED
    BY <2>1, <2>2
<1>6. PICK g : FrameOK(t, g) /\ Plain(t, g) /\ th' = [th EXCEPT ![t] = g]
  BY <1>5
<1>7. MayGo(t, g.pc)
  BY <1>2 DEF MayGo
<1>8. conn[c] \in Connections
  BY <1>2, <1>4, ConnectionTypes
<1>9. CASE conn[c].peer # "up"
  <2>1. conn' = conn
    BY <1>1, <1>9 DEF SendOk
  <2>2. Types' /\ SameRest
    BY <1>2, <2>1, Unmoved
  <2> QED
    BY <1>2, <1>3, <1>6, <2>2, PlainStep DEF SameRest
<1>10. CASE conn[c].peer = "up"
  <2>1. PICK w : w = Append(conn[c].wire, r)
    OBVIOUS
  <2>2. PICK d : d = [conn[c] EXCEPT !.wire = w]
    OBVIOUS
  <2>3. conn' = [conn EXCEPT ![c] = d] /\ conn'[c] = d
    BY <1>1, <1>2, <1>4, <1>10, <2>1, <2>2 DEF SendOk, Types
  <2>4. w \in Seq(Requests)
    BY <1>4, <1>8, <2>1 DEF Connections
  <2>5. /\ d \in Connections /\ d.entry = conn[c].entry /\ d.waiting = conn[c].waiting
        /\ d.state = conn[c].state /\ d.transport = conn[c].transport /\ d.wire = w
        /\ d.inbox = conn[c].inbox /\ d.parser = conn[c].parser /\ d.peer = conn[c].peer
    BY <1>8, <2>2, <2>4 DEF Connections
  <2>6. Input(c)'
    <3>1. Input(c)
      BY <1>2, <1>4 DEF Inputs
    <3> QED
      BY <1>10, <2>3, <2>5, <3>1 DEF Input
  <2>7. AllAlone => Alone(c)'
    <3> SUFFICES ASSUME Alone(c) PROVE Alone(c)'
      BY <1>4, <1>10 DEF AllAlone
    <3>1. Fly(t, c)
      BY <1>1, <1>2 DEF Fly, Flying
    <3>2. /\ r = conn[c].entry /\ (\A y \in Threads : Fly(y, c) => t = y)
          /\ \A s \in Transports : \A i \in 1 .. Len(io[s].sends) : ~Queued(s, i, c)
          /\ conn[c].wire = <<>> /\ conn[c].inbox = <<>> /\ conn[c].parser = <<>>
      BY <1>1, <1>3, <3>1 DEF Alone
    <3>3. th'[t] = g /\ \A y \in Threads : y # t => th'[y] = th[y]
      BY <1>3, <1>6, Move
    <3>4. \A y \in Threads : ~Fly(y, c)'
      BY <1>6, <3>2, <3>3 DEF Fly, Plain
    <3>5. w = <<r>>
      BY <2>1, <3>2
    <3>6. \A s \in Transports : \A i \in 1 .. Len(io'[s].sends) : ~Queued(s, i, c)'
      BY <1>2, <3>2 DEF Queued
    <3>7. conn'[c].wire = <<conn'[c].entry>> /\ conn'[c].inbox = <<>> /\ conn'[c].parser = <<>>
      BY <2>3, <2>5, <3>2, <3>5
    <3> QED
      BY <3>4, <3>6, <3>7 DEF Alone
  <2> QED
    BY <1>2, <1>3, <1>4, <1>6, <1>7, <2>3, <2>5, <2>6, <2>7, BytesStep
<1> QED
  BY <1>9, <1>10

\* The thread that holds a connection lets go of it.
LEMMA IdleStep ==
  ASSUME IInv, NEW t \in Transports, NEW c \in Conns, Holder(t, c),
         NEW g, FrameOK(t, g), Plain(t, g), th' = [th EXCEPT ![t] = g],
         conn' = [conn EXCEPT ![c].state = "Idle"],
         client' \in Clients, client'.queue = client.queue, UNCHANGED <<io, answer, closing>>
  PROVE  IInv' /\ Once
<1>1. Types /\ Inputs /\ Tokens /\ AllUnique /\ Own
  BY DEF IInv
<1>2. t \in Threads /\ t \notin Users /\ Placed(t, g) /\ MayGo(t, g.pc)
  BY Reactor DEF MayGo, Holder, Holding, Carrying
<1>3. conn[c] \in Connections
  BY <1>1, ConnectionTypes
<1>4. PICK d : d = [conn[c] EXCEPT !.state = "Idle"]
  OBVIOUS
<1>5. /\ d \in Connections /\ d.entry = conn[c].entry /\ d.waiting = conn[c].waiting
      /\ d.state = "Idle" /\ d.transport = conn[c].transport /\ d.wire = conn[c].wire
      /\ d.inbox = conn[c].inbox /\ d.parser = conn[c].parser /\ d.peer = conn[c].peer
  BY <1>3, <1>4 DEF Connections
<1>6. /\ conn' \in [Conns -> Connections] /\ conn'[c] = d
      /\ \A e \in Conns : e # c => conn'[e] = conn[e]
  BY <1>1, <1>4, <1>5 DEF Types
<1>7. /\ SameTransports /\ SameFlight /\ SameSends /\ SameClosing /\ SameQueue
      /\ \A e \in Conns : /\ SameInput(e) /\ conn'[e].entry = conn[e].entry
                          /\ conn'[e].waiting = conn[e].waiting
  BY <1>5, <1>6
  DEF SameTransports, SameFlight, SameSends, SameClosing, SameQueue, SameInput
<1>8. Types'
  BY <1>1, <1>6 DEF Types
<1>9. /\ Framed' /\ Closed' /\ Associated' /\ th'[t] = g
      /\ \A y \in Threads : y # t => th'[y] = th[y]
  BY <1>2, <1>7, Move
<1>10. NoNewHolder /\ NoNewCarrier /\ NoNewUser /\ NoNewFly
  BY <1>2, PlainMove DEF IInv
<1>11. Tokens'
  <2>1. Token(c)
    BY <1>1 DEF Tokens
  <2>2. conn[c].entry = None /\ conn[c].waiting = <<>> /\ \A y \in Threads : Holder(y, c) => y = t
    BY <1>2, <2>1 DEF Token
  <2>3. \A y \in Threads : ~Holder(y, c)'
    BY <1>9, <1>10, <2>2 DEF NoNewHolder, Plain, Holder
  <2>4. Token(c)'
    BY <1>5, <1>6, <2>2, <2>3 DEF Token
  <2> QED
    BY <1>1, <1>6, <1>10, <2>4, TokensStep DEF NoNewHolder
<1>12. NoNewWith
  BY <1>7, <1>10, WithKept
<1>13. AllUnique'
  BY <1>1, <1>7, <1>10, <1>12, UniqueKept
<1>14. Once
  BY DEF Once
<1>15. Own' /\ Inputs'
  BY <1>1, <1>7, <1>10, <1>14, OwnAnswers, InputsKept
<1> QED
  BY <1>8, <1>9, <1>11, <1>13, <1>14, <1>15 DEF IInv

LEMMA ReleaseKeeps ==
  ASSUME IInv, NEW t \in Transports, Release(t)
  PROVE  IInv' /\ Once
<1>1. PICK c : c = th[t].conn
  OBVIOUS
<1>2. /\ Types /\ th[t].pc = "release" /\ UNCHANGED <<client, io, answer, closing>>
      /\ conn' = [conn EXCEPT ![c].state = "Idle"]
  BY <1>1 DEF IInv, Release
<1>3. t \in Threads /\ t \notin Users
  BY Reactor
<1>4. c \in Conns /\ FrameOK(t, th[t]) /\ th[t].stack # <<>>
  BY <1>1, <1>2, <1>3, AtLabel DEF Located, Calls
<1>5. \E g : FrameOK(t, g) /\ Plain(t, g) /\ th' = [th EXCEPT ![t] = g]
  <2>1. CASE client.stop
    <3>1. PICK g : g = Back(th[t])
      OBVIOUS
    <3>2. th' = [th EXCEPT ![t] = g]
      BY <2>1, <3>1 DEF Release, Return, IInv, Framed
    <3>3. FrameOK(t, g) /\ g.pc \in Bottom \cup {"pick"}
      BY <1>3, <1>4, <3>1, BackFrame
    <3> QED
      BY <1>3, <3>2, <3>3 DEF Plain, Bottom, Holding, Carrying, Flying
  <2>2. CASE ~client.stop
    <3>1. PICK g : g = [th[t] EXCEPT !.pc = "lockQueues"]
      OBVIOUS
    <3>2. th' = [th EXCEPT ![t] = g]
      BY <2>2, <3>1 DEF Release, Goto, IInv, Framed
    <3>3. FrameOK(t, g) /\ g.pc = "lockQueues"
      <4>1. "lockQueues" \in TransportLabels \ (Located \cup Carrying \cup Flying)
        BY DEF TransportLabels, Located, Carrying, Flying
      <4> QED
        BY <1>3, <1>4, <3>1, <4>1, GotoFrame
    <3> QED
      BY <1>3, <3>2, <3>3 DEF Plain, Holding, Carrying, Flying
  <2> QED
    BY <2>1, <2>2
<1>6. Holder(t, c)
  BY <1>1, <1>2 DEF Holder, Holding
<1> QED
  BY <1>2, <1>4, <1>5, <1>6, IdleStep DEF Types

LEMMA DequeueKeeps ==
  ASSUME IInv, NEW t \in Transports, Dequeue(t)
  PROVE  IInv' /\ Once
<1>1. PICK c : c = th[t].conn
  OBVIOUS
<1>2. /\ Types /\ Inputs /\ Tokens /\ AllUnique /\ Own /\ th[t].pc = "dequeue"
      /\ UNCHANGED <<io, answer, closing>>
  BY DEF IInv, Dequeue
<1>3. t \in Threads /\ t \notin Users /\ \A g : Placed(t, g)
  BY Reactor
<1>4. c \in Conns /\ FrameOK(t, th[t]) /\ th[t].stack # <<>> /\ th[t] \in Frames
  BY <1>1, <1>2, <1>3, AtLabel DEF Located, Calls
<1>5. Holder(t, c)
  BY <1>1, <1>2 DEF Holder, Holding
<1>6. CASE client.queue = <<>>
  <2>1. /\ conn' = [conn EXCEPT ![c].state = "Idle"] /\ client' = [client EXCEPT !.lock = None]
        /\ Return(t)
    BY <1>1, <1>6 DEF Dequeue
  <2>2. client' \in Clients /\ client'.queue = client.queue
    BY <1>2, <2>1 DEF Types, Clients
  <2>3. PICK g : g = Back(th[t])
    OBVIOUS
  <2>4. th' = [th EXCEPT ![t] = g]
    BY <2>1, <2>3 DEF Return, IInv, Framed
  <2>5. FrameOK(t, g) /\ g.pc \in Bottom \cup {"pick"}
    BY <1>3, <1>4, <2>3, BackFrame
  <2>6. Plain(t, g)
    BY <1>3, <2>5 DEF Plain, Bottom, Holding, Carrying, Flying
  <2> QED
    BY <1>2, <1>4, <1>5, <2>1, <2>2, <2>4, <2>5, <2>6, IdleStep
<1>7. CASE client.queue # <<>>
  <2>1. PICK q, r : q = Tail(client.queue) /\ r = Head(client.queue)
    OBVIOUS
  <2>2. client' = [client EXCEPT !.queue = q] /\ conn' = conn
        /\ th' = [th EXCEPT ![t] = Call([@ EXCEPT !.req = r], "pick", "perform")]
    BY <1>7, <2>1 DEF Dequeue
  <2>3. /\ q \in Seq(Requests) /\ r \in Requests /\ r = client.queue[1]
        /\ Len(q) = Len(client.queue) - 1 /\ Len(client.queue) \in Nat /\ Len(client.queue) >= 1
        /\ \A i \in 1 .. Len(q) : q[i] = client.queue[i + 1]
    <3>1. PICK v \in Seq(Requests) : v = client.queue
      BY <1>2 DEF Types, Clients
    <3>2. v # <<>> /\ r = Head(v) /\ q = Tail(v)
      BY <1>7, <2>1, <3>1
    <3>3. /\ r \in Requests /\ r = v[1] /\ q \in Seq(Requests) /\ Len(q) = Len(v) - 1
          /\ \A i \in 1 .. Len(q) : q[i] = v[i + 1]
      BY <3>2, HeadTailProperties
    <3>4. Len(v) \in Nat /\ Len(v) # 0
      BY <3>2, EmptySeq
    <3> QED
      BY <3>1, <3>3, <3>4
  <2>4. client' \in Clients /\ client'.queue = q
    BY <1>2, <2>2, <2>3 DEF Types, Clients
  <2>5. PICK f : f = [th[t] EXCEPT !.req = r]
    OBVIOUS
  <2>6. f \in Frames /\ f.pc = "dequeue" /\ f.conn = c /\ f.req = r /\ f.stack = th[t].stack
    BY <1>1, <1>2, <1>4, <2>3, <2>5 DEF Frames
  <2>7. FrameOK(t, f)
    BY <1>2, <1>3, <1>4, <2>3, <2>6 DEF FrameOK
  <2>8. PICK g : g = Call(f, "pick", "perform")
    OBVIOUS
  <2>9. th' = [th EXCEPT ![t] = g]
    BY <2>2, <2>5, <2>8 DEF IInv, Framed
  <2>10. FrameOK(t, g) /\ g.pc = "perform" /\ g.conn = c /\ g.req = r
    <3>1. "perform" \in TransportLabels
      BY DEF TransportLabels
    <3>2. "pick" \in Bottom \cup {"pick"} /\ "perform" \in UserLabels \cup TransportLabels
      BY <3>1
    <3>3. f.conn \in Conns /\ f.req \in Requests /\ f.stack # <<>>
      BY <1>4, <2>3, <2>6
    <3>4. FrameOK(t, g) /\ g.pc = "perform" /\ g.conn = f.conn /\ g.req = f.req
      BY <1>3, <2>7, <2>8, <3>1, <3>2, <3>3, CallFrame
    <3> QED
      BY <2>6, <3>4
  <2>11. Types'
    <3>1. Len(q) <= QueueSize
      BY <1>2, <2>3, Numbers DEF Types
    <3> QED
      BY <1>2, <2>2, <2>4, <3>1 DEF Types
  <2>12. /\ SameTransports /\ SameTokens /\ SameFlight /\ SameSends /\ SameClosing
         /\ \A d \in Conns : SameInput(d)
    BY <1>2, <2>2 DEF SameTransports, SameTokens, SameFlight, SameSends, SameClosing, SameInput
  <2>13. /\ Framed' /\ th'[t] = g /\ (\A y \in Threads : y # t => th'[y] = th[y])
         /\ Associated' /\ Closed'
    BY <1>2, <1>3, <2>9, <2>10, <2>12, Move DEF MayGo
  <2>14. NoNewHolder /\ NoNewUser /\ NoNewFly
    BY <1>1, <1>2, <1>3, <2>10, <2>13
    DEF NoNewHolder, NoNewUser, NoNewFly, Holder, WithUser, Fly, Holding, Carrying, Flying, Threads
  <2>15. Tokens'
    BY <1>2, <2>12, <2>14, TokensKept
  <2>16. 1 \in 1 .. Len(client.queue) /\ \A i \in 1 .. Len(q) : i + 1 \in 1 .. Len(client.queue)
    BY <2>3
  <2>17. ASSUME NEW s \in Requests PROVE Unique(s)'
    <3>1. Unique(s) /\ answer'[s] = answer[s]
      BY <1>2 DEF AllUnique
    <3>2. InQueue(s)' => InQueue(s)
      BY <2>3, <2>4, <2>16 DEF InQueue
    <3>3. \A i, j \in 1 .. Len(q) : q[i] = s /\ q[j] = s => i = j
      <4> SUFFICES ASSUME NEW i \in 1 .. Len(q), NEW j \in 1 .. Len(q), q[i] = s, q[j] = s
                   PROVE  i = j
        OBVIOUS
      <4>1. client.queue[i + 1] = s /\ client.queue[j + 1] = s
        BY <2>3
      <4>2. i + 1 = j + 1
        BY <2>16, <3>1, <4>1 DEF Unique
      <4> QED
        BY <4>2
    <3>4. \A v \in Users : WithUser(v, s)' => WithUser(v, s)
      BY <2>14 DEF NoNewUser
    <3>5. CASE s # r
      <4>1. \A e \in Conns : With(e, s)' => With(e, s)
        BY <2>2, <2>10, <2>13, <3>5 DEF With
      <4> QED
        BY <2>4, <3>1, <3>2, <3>3, <3>4, <4>1, UniqueOne
    <3>6. CASE s = r
      <4>1. InQueue(r)
        BY <2>3, <2>16 DEF InQueue
      <4>2. /\ answer[r] = "pending" /\ (\A e \in Conns : ~With(e, r))
            /\ \A v \in Users : ~WithUser(v, r)
        BY <3>1, <3>6, <4>1 DEF Unique
      <4>3. \A e \in Conns : With(e, r)' => e = c
        BY <2>2, <2>10, <2>13, <4>2 DEF With
      <4>4. ~InQueue(r)'
        <5>1. ASSUME NEW i \in 1 .. Len(q), q[i] = r PROVE FALSE
          <6>1. client.queue[i + 1] = r /\ client.queue[1] = r
            BY <2>3, <5>1
          <6>2. i + 1 = 1
            BY <2>16, <3>1, <3>6, <6>1 DEF Unique
          <6> QED
            BY <6>2
        <5> QED
          BY <2>4, <5>1 DEF InQueue
      <4> QED
        BY <2>4, <3>1, <3>3, <3>4, <3>6, <4>2, <4>3, <4>4 DEF Unique
    <3> QED
      BY <3>5, <3>6
  <2>18. Once
    BY <1>2 DEF Once
  <2>19. Own' /\ Inputs'
    BY <1>2, <2>12, <2>14, <2>18, OwnAnswers, InputsKept DEF SameTokens
  <2> QED
    BY <2>11, <2>13, <2>15, <2>17, <2>18, <2>19 DEF IInv, AllUnique
<1> QED
  BY <1>6, <1>7

-----------------------------------------------------------------------------
\* The settling of the request a connection serves.
LEMMA TakeCallFrame ==
  ASSUME IInv, NEW t \in Transports, th[t].pc = "dispatch", NEW kind, NEW c \in Conns,
         NEW b \in {"dispatch", "close", "timeoutDone"}, TakeCall(t, kind, c, b, "release")
  PROVE  \E g : FrameOK(t, g) /\ g.pc = "release" /\ g.conn = c /\ th' = [th EXCEPT ![t] = g]
<1>1. t \in Threads /\ t \notin Users
  BY Reactor
<1>2. th[t] \in Frames
  BY <1>1, AtLabel
<1>3. PICK f : f = [th[t] EXCEPT !.batch = th[t].batch \ {<<kind, c>>}, !.conn = c]
  OBVIOUS
<1>4. f \in Frames /\ f.pc = "dispatch" /\ f.conn = c /\ f.stack = th[t].stack
  BY <1>2, <1>3 DEF Frames
<1>5. FrameOK(t, f)
  <2>1. "dispatch" \in TransportLabels /\ "dispatch" \notin Calls \cup Carrying \cup Flying
    BY DEF TransportLabels, Calls, Carrying, Flying
  <2> QED
    BY <1>4, <2>1, TakeFrame
<1>6. PICK g : g = Call(f, b, "release")
  OBVIOUS
<1>7. th' = [th EXCEPT ![t] = g]
  <2>1. th' = [th EXCEPT ![t] = Call([th[t] EXCEPT !.batch = th[t].batch \ {<<kind, c>>},
                                                   !.conn = c], b, "release")]
    BY DEF TakeCall
  <2>2. th' = [th EXCEPT ![t] = Call(f, b, "release")]
    BY <1>3, <2>1
  <2> QED
    BY <1>6, <2>2
<1>8. FrameOK(t, g) /\ g.pc = "release" /\ g.conn = f.conn
  <2>1. b \in Bottom \cup {"pick"} /\ b # "pick"
    BY DEF Bottom
  <2>2. "release" \in TransportLabels /\ "release" \notin Carrying \cup Flying
    BY DEF TransportLabels, Carrying, Flying
  <2>3. "release" \in UserLabels \cup TransportLabels /\ f.conn \in Conns
    BY <1>4, <2>2
  <2> QED
    BY <1>1, <1>5, <1>6, <2>1, <2>2, <2>3, CallFrame
<1> QED
  BY <1>4, <1>7, <1>8

LEMMA SettleStep ==
  ASSUME IInv, NEW t \in Transports, th[t].pc \notin {"poll", "ready", "stopped"},
         NEW c \in Conns, NEW r \in Requests, conn[c].entry = r,
         NEW g, FrameOK(t, g), g.pc = "release", g.conn = c, th' = [th EXCEPT ![t] = g],
         NEW d \in Connections, conn' = [conn EXCEPT ![c] = d],
         d.entry = None, d.waiting = conn[c].waiting, d.state = conn[c].state,
         d.transport = conn[c].transport,
         NEW v \in Outcomes, answer' = [answer EXCEPT ![r] = v],
         client' = client, closing' = closing, io' \in [Transports -> Ios],
         \A s \in Transports : io'[s].sends = io[s].sends /\ io'[s].shutdown = io[s].shutdown,
         Input(c)',
         AllAlone /\ v # "timeout" =>
           /\ v \in Requests => v = r
           /\ d.peer \in {"none", "up"} => Alone(c)'
  PROVE  IInv' /\ Once
<1>1. Types /\ Inputs /\ Tokens /\ AllUnique /\ Own /\ None \notin Requests
  BY ValuesAssumption DEF IInv
<1>2. t \in Threads /\ t \notin Users /\ Placed(t, g) /\ MayGo(t, g.pc)
  BY Reactor DEF MayGo
<1>3. /\ conn' \in [Conns -> Connections] /\ conn'[c] = d
      /\ \A e \in Conns : e # c => conn'[e] = conn[e]
  BY <1>1 DEF Types
<1>4. /\ answer' \in [Requests -> Outcomes] /\ answer'[r] = v
      /\ \A s \in Requests : s # r => answer'[s] = answer[s]
  BY <1>1 DEF Types
<1>5. Types'
  BY <1>1, <1>3, <1>4 DEF Types
<1>6. /\ SameTransports /\ SameSends /\ SameClosing /\ SameQueue
      /\ \A e \in Conns : e # c => SameInput(e)
  BY <1>3 DEF SameTransports, SameSends, SameClosing, SameQueue, SameInput
<1>7. /\ Framed' /\ Associated' /\ Closed' /\ th'[t] = g
      /\ \A y \in Threads : y # t => th'[y] = th[y]
  BY <1>2, <1>6, Move
<1>8. NoNewCarrier /\ NoNewUser /\ NoNewFly
  BY <1>2, <1>7
  DEF NoNewCarrier, NoNewUser, NoNewFly, WithUser, Fly, Carrying, Flying, Threads
<1>9. conn[c].waiting = <<>> /\ conn[c].state # "Idle" /\ \A x \in Threads : ~Holder(x, c)
  BY <1>1 DEF Tokens, Token
<1>10. Tokens'
  <2>1. \A y \in Threads : Holder(y, c)' => y = t
    BY <1>7, <1>9 DEF Holder
  <2>2. Token(c)'
    BY <1>3, <1>9, <2>1 DEF Token
  <2>3. ASSUME NEW e \in Conns, e # c
        PROVE  /\ conn'[e].entry = conn[e].entry /\ conn'[e].waiting = conn[e].waiting
               /\ conn'[e].state = conn[e].state
               /\ \A x \in Threads : Holder(x, e)' => Holder(x, e)
    BY <1>3, <1>7, <2>3 DEF Holder
  <2> QED
    BY <1>1, <2>2, <2>3, TokensStep
<1>11. NoNewWith
  <2>1. ASSUME NEW e \in Conns, NEW s \in Requests, With(e, s)' PROVE With(e, s)
    BY <1>1, <1>3, <1>8, <2>1 DEF With, NoNewCarrier
  <2> QED
    BY <2>1 DEF NoNewWith
<1>12. /\ answer[r] = "pending" /\ ~InQueue(r) /\ \A u \in Users : ~WithUser(u, r)
       /\ \A e \in Conns : With(e, r) => e = c
  <2>1. Unique(r) /\ With(c, r)
    BY <1>1 DEF AllUnique, With
  <2> QED
    BY <2>1 DEF Unique
<1>13. \A e \in Conns : ~With(e, r)'
  <2>1. ~With(c, r)'
    <3>1. \A x \in Threads : ~(th'[x].conn = c /\ th'[x].pc \in Carrying /\ th'[x].req = r)
      BY <1>7, <1>9 DEF Holder, Holding, Carrying
    <3>2. conn'[c].entry # r /\ conn'[c].waiting = <<>>
      BY <1>1, <1>3, <1>9
    <3> QED
      BY <3>1, <3>2 DEF With
  <2> QED
    BY <1>11, <1>12, <2>1 DEF NoNewWith
<1>14. AllUnique'
  <2>1. \A u \in Users : ~WithUser(u, r)'
    BY <1>8, <1>12 DEF NoNewUser
  <2> QED
    BY <1>1, <1>4, <1>6, <1>8, <1>11, <1>12, <1>13, <2>1, UniqueKept
<1>15. Inputs'
  BY <1>1, <1>6, InputsStep
<1>16. Once
  BY <1>4, <1>12 DEF Once, Answered
<1>17. Own'
  <2> SUFFICES ASSUME NoTimeout', OwnResponse, AllAlone PROVE OwnResponse' /\ AllAlone'
    BY <1>1, <1>16, OwnStep
  <2>1. v # "timeout"
    BY <1>4 DEF NoTimeout
  <2>2. OwnResponse'
    BY <1>4, <2>1 DEF OwnResponse
  <2>3. \A e \in Conns : e # c =>
          /\ SameInput(e) /\ conn'[e].parser = conn[e].parser /\ conn'[e].entry = conn[e].entry
          /\ \A x \in Threads : Fly(x, e)' => Fly(x, e) /\ th'[x].req = th[x].req
    BY <1>3, <1>6, <1>8 DEF NoNewFly
  <2>4. conn'[c].peer \in {"none", "up"} => Alone(c)'
    BY <1>3, <2>1
  <2> QED
    BY <1>6, <2>2, <2>3, <2>4, AllAloneStep
<1> QED
  BY <1>5, <1>7, <1>10, <1>14, <1>15, <1>16, <1>17 DEF IInv

\* Settled(d), and the fields it leaves.
LEMMA SettledFields ==
  ASSUME NEW d \in Connections
  PROVE  /\ Settled(d) \in Connections /\ Settled(d).entry = None
         /\ Settled(d).waiting = d.waiting /\ Settled(d).state = d.state
         /\ Settled(d).transport = d.transport /\ Settled(d).peer = d.peer
         /\ Settled(d).wire = d.wire /\ Settled(d).inbox = d.inbox
         /\ Settled(d).parser = d.parser
BY DEF Connections, Settled

LEMMA SendFailsKeeps ==
  ASSUME IInv, NEW t \in Transports, SendFails(t)
  PROVE  IInv' /\ Once
<1>1. PICK c : c = th[t].conn
  OBVIOUS
<1>2. /\ Types /\ Inputs /\ th[t].pc = "send" /\ conn[c].peer \in {"down", "refused"}
      /\ UNCHANGED <<client, io, closing>>
  BY <1>1 DEF IInv, SendFails
<1>3. t \in Threads /\ t \notin Users
  BY Reactor
<1>4. c \in Conns /\ FrameOK(t, th[t]) /\ th[t].stack # <<>>
  BY <1>1, <1>2, <1>3, AtLabel DEF Located, Calls
<1>5. conn[c] \in Connections /\ Input(c)
  BY <1>2, <1>4, ConnectionTypes DEF Inputs
<1>6. CASE conn[c].entry = None
  <2>1. Return(t) /\ UNCHANGED <<conn, answer>>
    BY <1>1, <1>6 DEF SendFails
  <2>2. Types' /\ SameRest
    BY <1>2, <2>1, Unmoved
  <2> QED
    BY <1>2, <1>3, <2>1, <2>2, ReturnStep DEF Calls
<1>7. CASE conn[c].entry # None
  <2>1. PICK r, d, g : r = conn[c].entry /\ d = Settled(conn[c]) /\ g = [th[t] EXCEPT !.pc = "release"]
    OBVIOUS
  <2>2. r \in Requests
    BY <1>5, <1>7, <2>1 DEF Connections
  <2>3. /\ answer' = [answer EXCEPT ![r] = "error"] /\ conn' = [conn EXCEPT ![c] = d]
        /\ th' = [th EXCEPT ![t] = g]
    BY <1>1, <1>2, <1>3, <1>4, <1>7, <2>1 DEF SendFails, Goto, Types, IInv, Framed
  <2>4. /\ d \in Connections /\ d.entry = None /\ d.waiting = conn[c].waiting
        /\ d.state = conn[c].state /\ d.transport = conn[c].transport /\ d.peer = conn[c].peer
        /\ d.wire = conn[c].wire /\ d.inbox = conn[c].inbox
    BY <1>5, <2>1, SettledFields
  <2>5. FrameOK(t, g) /\ g.pc = "release" /\ g.conn = c
    <3>1. "release" \in TransportLabels /\ "release" \notin Carrying \cup Flying
      BY DEF TransportLabels, Carrying, Flying
    <3> QED
      BY <1>1, <1>3, <1>4, <2>1, <3>1, GotoFrame
  <2>6. conn'[c] = d
    BY <1>2, <1>4, <2>3 DEF Types
  <2>7. Input(c)'
    BY <1>5, <2>4, <2>6 DEF Input
  <2>8. io' \in [Transports -> Ios]
    BY <1>2 DEF Types
  <2>9. "error" \in Outcomes /\ "error" \notin Requests /\ d.peer \notin {"none", "up"}
    BY <1>2, <2>4, ValuesAssumption DEF Outcomes
  <2>10. th[t].pc \notin {"poll", "ready", "stopped"}
    BY <1>2
  <2> QED
    BY <1>2, <1>4, <2>1, <2>2, <2>3, <2>4, <2>5, <2>7, <2>8, <2>9, <2>10, SettleStep, ZenonT(60)
<1> QED
  BY <1>6, <1>7

LEMMA HandleIncomingKeeps ==
  ASSUME IInv, NEW t \in Transports, NEW c \in Conns, HandleIncoming(t, c)
  PROVE  IInv' /\ Once
<1>1. PICK b, p : b = conn[c].inbox /\ p = conn[c].parser \o conn[c].inbox
  OBVIOUS
<1>2. /\ Types /\ Inputs /\ Own /\ th[t].pc = "dispatch" /\ b # <<>> /\ b[Len(b)] \in Requests
      /\ UNCHANGED <<client, io, closing>>
  BY <1>1 DEF IInv, HandleIncoming, Meets, Received
<1>3. t \in Threads /\ t \notin Users /\ th[t] \in Frames
  BY Reactor, AtLabel
<1>4. conn[c] \in Connections /\ Input(c)
  BY <1>2, ConnectionTypes DEF Inputs
<1>5. b \in Seq(Requests \cup Marks) /\ conn[c].parser \in Seq(Requests)
  BY <1>1, <1>4 DEF Connections
<1>6. b \in Seq(Requests)
  <2>1. PICK n \in Nat : n = Len(b)
    BY <1>5
  <2>2. \A i \in 1 .. n - 1 : b[i] \in Requests
    BY <1>1, <1>4, <2>1 DEF Input
  <2>3. \A i \in 1 .. n : b[i] \in Requests
    BY <1>2, <2>1, <2>2
  <2> QED
    BY <1>5, <2>1, <2>3
<1>7. conn[c].peer = "up"
  BY <1>1, <1>2, <1>4 DEF Input
<1>8. /\ p \in Seq(Requests) /\ p # <<>>
      /\ conn[c].parser = <<>> => p = b
  <2>1. p \in Seq(Requests) /\ Len(p) = Len(conn[c].parser) + Len(b)
    BY <1>1, <1>5, <1>6, ConcatProperties
  <2>2. Len(conn[c].parser) \in Nat /\ Len(b) \in Nat /\ Len(b) # 0
    BY <1>2, <1>5, EmptySeq
  <2>3. conn[c].parser = <<>> => p = b
    BY <1>1, <1>6, ConcatEmptySeq
  <2>4. p # <<>>
    BY <2>1, <2>2
  <2> QED
    BY <2>1, <2>3, <2>4
<1>9. AllAlone => /\ conn[c].parser = <<>> /\ b = <<conn[c].entry>> /\ conn[c].wire = <<>>
                  /\ (\A x \in Threads : ~Fly(x, c))
                  /\ \A s \in Transports : \A i \in 1 .. Len(io[s].sends) : ~Queued(s, i, c)
  <2> SUFFICES ASSUME AllAlone
               PROVE  /\ conn[c].parser = <<>> /\ b = <<conn[c].entry>> /\ conn[c].wire = <<>>
                      /\ (\A x \in Threads : ~Fly(x, c))
                      /\ \A s \in Transports : \A i \in 1 .. Len(io[s].sends) : ~Queued(s, i, c)
    OBVIOUS
  <2>1. Alone(c)
    BY <1>7 DEF AllAlone
  <2> QED
    BY <1>1, <1>2, <2>1 DEF Alone
<1>10. CASE conn[c].entry = None
  <2>1. PICK g : g = [th[t] EXCEPT !.batch = @ \ {<<"read", c>>}, !.conn = c, !.pc = "dispatch"]
    OBVIOUS
  <2>2. th' = [th EXCEPT ![t] = g] /\ answer' = answer
    BY <1>3, <1>10, <2>1 DEF HandleIncoming, TakeTo, IInv, Framed
  <2>3. g \in Frames /\ g.pc = "dispatch" /\ g.stack = th[t].stack
    BY <1>3, <2>1 DEF Frames, TransportLabels
  <2>4. FrameOK(t, g)
    <3>1. "dispatch" \in TransportLabels /\ "dispatch" \notin Calls \cup Carrying \cup Flying \cup Located
      BY DEF TransportLabels, Calls, Carrying, Flying, Located
    <3> QED
      BY <2>3, <3>1, TakeFrame
  <2>5. Plain(t, g) /\ Placed(t, g) /\ MayGo(t, g.pc)
    BY <1>2, <1>3, <2>3, Reactor DEF Plain, Holding, Carrying, Flying, MayGo
  <2>6. PICK e, d : e = <<>> /\ d = [conn[c] EXCEPT !.inbox = e, !.parser = p]
    OBVIOUS
  <2>7. e \in Seq(Requests \cup Marks)
    BY <2>6, EmptySeq
  <2>8. /\ d \in Connections /\ d.entry = conn[c].entry /\ d.waiting = conn[c].waiting
        /\ d.state = conn[c].state /\ d.transport = conn[c].transport /\ d.peer = conn[c].peer
        /\ d.wire = conn[c].wire /\ d.inbox = <<>>
    BY <1>4, <1>8, <2>6, <2>7 DEF Connections
  <2>9. conn' = [conn EXCEPT ![c] = d] /\ conn'[c] = d
    BY <1>1, <1>2, <1>10, <2>6 DEF HandleIncoming, Types
  <2>10. Input(c)'
    BY <1>4, <2>8, <2>9 DEF Input
  <2>11. ~AllAlone
    <3> SUFFICES ASSUME AllAlone PROVE FALSE
      OBVIOUS
    <3>1. b = <<None>>
      BY <1>9, <1>10
    <3>2. b[Len(b)] = None
      BY <3>1
    <3> QED
      BY <1>2, <3>2, ValuesAssumption
  <2> QED
    BY <1>2, <1>3, <2>2, <2>4, <2>5, <2>8, <2>9, <2>10, <2>11, BytesStep
<1>11. CASE conn[c].entry # None
  <2>1. PICK r, v, e : r = conn[c].entry /\ v = Head(p) /\ e = <<>>
    OBVIOUS
  <2>2. r \in Requests /\ v \in Requests /\ v \in Outcomes
    BY <1>4, <1>8, <1>11, <2>1 DEF Connections, Outcomes
  <2>3. TakeCall(t, "read", c, "dispatch", "release")
    BY <1>11 DEF HandleIncoming
  <2>4. PICK g : FrameOK(t, g) /\ g.pc = "release" /\ g.conn = c /\ th' = [th EXCEPT ![t] = g]
    BY <1>2, <2>3, TakeCallFrame
  <2>5. PICK f, d : f = Settled(conn[c]) /\ d = [f EXCEPT !.inbox = e, !.parser = e]
    OBVIOUS
  <2>6. answer' = [answer EXCEPT ![r] = v] /\ conn' = [conn EXCEPT ![c] = d]
    BY <1>1, <1>11, <2>1, <2>5 DEF HandleIncoming
  <2>7. /\ f \in Connections /\ f.entry = None /\ f.waiting = conn[c].waiting
        /\ f.state = conn[c].state /\ f.transport = conn[c].transport /\ f.peer = conn[c].peer
        /\ f.wire = conn[c].wire
    BY <1>4, <2>5, SettledFields
  <2>8. e \in Seq(Requests \cup Marks) /\ e \in Seq(Requests)
    BY <2>1, EmptySeq
  <2>9. /\ d \in Connections /\ d.entry = None /\ d.waiting = conn[c].waiting
        /\ d.state = conn[c].state /\ d.transport = conn[c].transport /\ d.peer = conn[c].peer
        /\ d.wire = conn[c].wire /\ d.inbox = <<>> /\ d.parser = <<>>
    BY <2>1, <2>5, <2>7, <2>8 DEF Connections
  <2>10. conn'[c] = d /\ io' \in [Transports -> Ios]
    BY <1>2, <2>6 DEF Types
  <2>11. Input(c)'
    BY <1>4, <2>9, <2>10 DEF Input
  <2>12. AllAlone => v = r /\ Alone(c)'
    <3> SUFFICES ASSUME AllAlone PROVE v = r /\ Alone(c)'
      OBVIOUS
    <3>1. v = r
      BY <1>8, <1>9, <2>1
    <3>2. \A x \in Threads : ~Fly(x, c)'
      <4>1. th'[t] = g /\ \A y \in Threads : y # t => th'[y] = th[y]
        BY <1>3, <2>4, Move
      <4> QED
        BY <1>9, <2>4, <4>1 DEF Fly, Flying
    <3>3. \A s \in Transports : \A i \in 1 .. Len(io'[s].sends) : ~Queued(s, i, c)'
      BY <1>2, <1>9 DEF Queued
    <3>4. conn'[c].parser = <<>> /\ conn'[c].wire = <<>> /\ conn'[c].inbox = <<>>
      BY <1>9, <2>9, <2>10
    <3> QED
      BY <3>1, <3>2, <3>3, <3>4 DEF Alone
  <2>13. /\ th[t].pc \notin {"poll", "ready", "stopped"}
         /\ \A s \in Transports : io'[s].sends = io[s].sends /\ io'[s].shutdown = io[s].shutdown
    BY <1>2
  <2> QED
    BY <1>2, <2>1, <2>2, <2>4, <2>6, <2>9, <2>10, <2>11, <2>12, <2>13, SettleStep
<1> QED
  BY <1>10, <1>11

\* The end or the failure of the stream is read from a socket that is down.
LEMMA MarkMeansDown ==
  ASSUME IInv, NEW c \in Conns, NEW m \in Marks, Received(conn[c], {m})
  PROVE  conn[c].peer = "down"
<1>1. Input(c) /\ m \notin Requests
  BY ValuesAssumption DEF IInv, Inputs, Marks
<1> QED
  BY <1>1 DEF Input, Received

\* Such a step settles the request the connection serves ...
LEMMA DownSettles ==
  ASSUME IInv, NEW t \in Transports, th[t].pc = "dispatch", NEW c \in Conns,
         conn[c].peer = "down", NEW r \in Requests, conn[c].entry = r,
         NEW e \in Seq(Requests \cup Marks),
         \A i \in 1 .. Len(e) - 1 : e[i] \in Requests,
         e # <<>> => e[Len(e)] \notin Requests,
         answer' = [answer EXCEPT ![r] = "error"],
         NEW d, d = [Settled(conn[c]) EXCEPT !.inbox = e], conn' = [conn EXCEPT ![c] = d],
         NEW b \in {"dispatch", "close"}, TakeCall(t, "read", c, b, "release"),
         UNCHANGED <<client, io, closing>>
  PROVE  IInv' /\ Once
<1>1. Types /\ Inputs
  BY DEF IInv
<1>2. conn[c] \in Connections /\ Input(c)
  BY <1>1, ConnectionTypes DEF Inputs
<1>3. PICK f : f = Settled(conn[c]) /\ d = [f EXCEPT !.inbox = e]
  OBVIOUS
<1>4. "error" \in Outcomes /\ "error" \notin Requests
  BY ValuesAssumption DEF Outcomes
<1>5. /\ f \in Connections /\ f.entry = None /\ f.waiting = conn[c].waiting
      /\ f.state = conn[c].state /\ f.transport = conn[c].transport /\ f.peer = conn[c].peer
      /\ f.wire = conn[c].wire
  BY <1>2, <1>3, SettledFields
<1>6. /\ d \in Connections /\ d.entry = None /\ d.waiting = conn[c].waiting
      /\ d.state = conn[c].state /\ d.transport = conn[c].transport /\ d.peer = conn[c].peer
      /\ d.wire = conn[c].wire /\ d.inbox = e
  BY <1>3, <1>5, ZenonT(60) DEF Connections
<1>7. PICK g : FrameOK(t, g) /\ g.pc = "release" /\ g.conn = c /\ th' = [th EXCEPT ![t] = g]
  <2>1. b \in {"dispatch", "close", "timeoutDone"}
    OBVIOUS
  <2> QED
    BY <2>1, TakeCallFrame
<1>8. conn'[c] = d /\ io' \in [Transports -> Ios]
  BY <1>1, <1>4 DEF Types
<1>9. Input(c)'
  <2>1. conn[c].wire = <<>>
    BY <1>2 DEF Input
  <2> QED
    BY <1>6, <1>8, <2>1 DEF Input
<1>10. /\ th[t].pc \notin {"poll", "ready", "stopped"} /\ d.peer \notin {"none", "up"}
       /\ \A s \in Transports : io'[s].sends = io[s].sends /\ io'[s].shutdown = io[s].shutdown
  BY <1>6
<1> QED
  BY <1>4, <1>6, <1>7, <1>8, <1>9, <1>10, SettleStep

\* ... or finds none, and goes on in the batch.
LEMMA DownGoesOn ==
  ASSUME IInv, NEW t \in Transports, th[t].pc = "dispatch", NEW c \in Conns,
         conn[c].peer = "down",
         NEW e \in Seq(Requests \cup Marks),
         \A i \in 1 .. Len(e) - 1 : e[i] \in Requests,
         e # <<>> => e[Len(e)] \notin Requests,
         conn' = [conn EXCEPT ![c].inbox = e],
         NEW l \in {"dispatch", "close"}, TakeTo(t, "read", c, l),
         UNCHANGED <<client, io, answer, closing>>
  PROVE  IInv' /\ Once
<1>1. Types /\ Inputs
  BY DEF IInv
<1>2. conn[c] \in Connections /\ Input(c)
  BY <1>1, ConnectionTypes DEF Inputs
<1>3. t \in Threads /\ t \notin Users /\ th[t] \in Frames /\ l \in TransportLabels
  BY Reactor, AtLabel DEF TransportLabels
<1>4. PICK g : g = [th[t] EXCEPT !.batch = @ \ {<<"read", c>>}, !.conn = c, !.pc = l]
  OBVIOUS
<1>5. th' = [th EXCEPT ![t] = g]
  BY <1>3, <1>4 DEF TakeTo, IInv, Framed
<1>6. g \in Frames /\ g.pc = l /\ g.stack = th[t].stack
  BY <1>3, <1>4 DEF Frames
<1>7. FrameOK(t, g)
  <2>1. l \notin Calls \cup Carrying \cup Flying \cup Located
    BY DEF Calls, Carrying, Flying, Located
  <2> QED
    BY <1>3, <1>6, <2>1, TakeFrame
<1>8. Plain(t, g) /\ Placed(t, g) /\ MayGo(t, g.pc)
  BY <1>3, <1>6, Reactor DEF Plain, Holding, Carrying, Flying, MayGo
<1>9. PICK d : d = [conn[c] EXCEPT !.inbox = e]
  OBVIOUS
<1>10. /\ d \in Connections /\ d.entry = conn[c].entry /\ d.waiting = conn[c].waiting
       /\ d.state = conn[c].state /\ d.transport = conn[c].transport /\ d.peer = "down"
       /\ d.wire = conn[c].wire /\ d.inbox = e
  BY <1>2, <1>9 DEF Connections
<1>11. conn' = [conn EXCEPT ![c] = d] /\ conn'[c] = d
  BY <1>1, <1>9 DEF Types
<1>12. Input(c)'
  <2>1. conn[c].wire = <<>>
    BY <1>2 DEF Input
  <2> QED
    BY <1>10, <1>11, <2>1 DEF Input
<1> QED
  BY <1>3, <1>5, <1>7, <1>8, <1>10, <1>11, <1>12, BytesStep

LEMMA HandleEofKeeps ==
  ASSUME IInv, NEW t \in Transports, NEW c \in Conns, HandleEof(t, c)
  PROVE  IInv' /\ Once
<1>1. /\ th[t].pc = "dispatch" /\ conn[c].peer = "down" /\ UNCHANGED <<client, io, closing>>
  BY MarkMeansDown DEF HandleEof, Meets, Marks
<1>2. PICK e : e = <<>>
  OBVIOUS
<1>3. e \in Seq(Requests \cup Marks) /\ Len(e) = 0
  BY <1>2, EmptySeq
<1>4. \A i \in 1 .. Len(e) - 1 : e[i] \in Requests
  BY <1>3
<1>5. CASE Len(conn[c].inbox) = 1 /\ conn[c].entry # None
  <2>1. PICK r, d : r = conn[c].entry /\ d = [Settled(conn[c]) EXCEPT !.inbox = e]
    OBVIOUS
  <2>2. /\ answer' = [answer EXCEPT ![r] = "error"] /\ conn' = [conn EXCEPT ![c] = d]
        /\ TakeCall(t, "read", c, "close", "release")
    BY <1>2, <1>5, <2>1 DEF HandleEof
  <2>3. r \in Requests
    BY <1>5, <2>1, ConnectionTypes DEF IInv, Connections
  <2> QED
    BY <1>1, <1>2, <1>3, <1>4, <2>1, <2>2, <2>3, DownSettles
<1>6. CASE ~(Len(conn[c].inbox) = 1 /\ conn[c].entry # None)
  <2>1. /\ conn' = [conn EXCEPT ![c] = [conn[c] EXCEPT !.inbox = e]]
        /\ TakeTo(t, "read", c, "close") /\ answer' = answer
    BY <1>2, <1>6 DEF HandleEof
  <2>2. conn' = [conn EXCEPT ![c].inbox = e]
    BY <2>1 DEF IInv, Types
  <2> QED
    BY <1>1, <1>2, <1>3, <1>4, <2>1, <2>2, DownGoesOn
<1> QED
  BY <1>5, <1>6

LEMMA HandleResetKeeps ==
  ASSUME IInv, NEW t \in Transports, NEW c \in Conns, HandleReset(t, c)
  PROVE  IInv' /\ Once
<1>1. /\ th[t].pc = "dispatch" /\ conn[c].peer = "down" /\ UNCHANGED <<client, io, closing>>
  BY MarkMeansDown DEF HandleReset, Meets, Marks
<1>2. PICK e : e = <<"eof">>
  OBVIOUS
<1>3. /\ e \in Seq(Requests \cup Marks) /\ Len(e) = 1 /\ e[Len(e)] \notin Requests
  BY <1>2, ValuesAssumption DEF Marks
<1>4. \A i \in 1 .. Len(e) - 1 : e[i] \in Requests
  BY <1>3
<1>5. CASE conn[c].entry # None
  <2>1. PICK r, d : r = conn[c].entry /\ d = [Settled(conn[c]) EXCEPT !.inbox = e]
    OBVIOUS
  <2>2. /\ answer' = [answer EXCEPT ![r] = "error"] /\ conn' = [conn EXCEPT ![c] = d]
        /\ TakeCall(t, "read", c, "dispatch", "release")
    BY <1>2, <1>5, <2>1 DEF HandleReset
  <2>3. r \in Requests
    BY <1>5, <2>1, ConnectionTypes DEF IInv, Connections
  <2> QED
    BY <1>1, <1>3, <1>4, <2>1, <2>2, <2>3, DownSettles
<1>6. CASE conn[c].entry = None
  <2>1. /\ conn' = [conn EXCEPT ![c].inbox = e]
        /\ TakeTo(t, "read", c, "dispatch") /\ answer' = answer
    BY <1>2, <1>6 DEF HandleReset
  <2> QED
    BY <1>1, <1>3, <1>4, <2>1, DownGoesOn
<1> QED
  BY <1>5, <1>6

LEMMA HandleTimerKeeps ==
  ASSUME IInv, NEW t \in Transports, NEW c \in Conns, HandleTimer(t, c)
  PROVE  IInv' /\ Once
<1>1. Types /\ Inputs /\ th[t].pc = "dispatch" /\ UNCHANGED <<client, closing>>
  BY DEF IInv, HandleTimer, Meets
<1>2. conn[c] \in Connections /\ Input(c) /\ io[t] \in Ios
  BY <1>1, ConnectionTypes DEF Inputs, Types
<1>3. CASE conn[c].timeouts /\ conn[c].entry \in Timed
  <2>1. PICK r, v, d, o : /\ r = conn[c].entry /\ v = "timeout" /\ d = Settled(conn[c])
                          /\ o = [io[t] EXCEPT !.timeoutsLock = TRUE]
    OBVIOUS
  <2>2. /\ answer' = [answer EXCEPT ![r] = v] /\ conn' = [conn EXCEPT ![c] = d]
        /\ io' = [io EXCEPT ![t] = o] /\ TakeCall(t, "timer", c, "timeoutDone", "release")
    BY <1>1, <1>3, <2>1 DEF HandleTimer, Types
  <2>3. r \in Requests /\ v \in Outcomes
    BY <1>3, <2>1, ClientAssumption DEF Outcomes
  <2>4. /\ d \in Connections /\ d.entry = None /\ d.waiting = conn[c].waiting
        /\ d.state = conn[c].state /\ d.transport = conn[c].transport /\ d.peer = conn[c].peer
        /\ d.wire = conn[c].wire /\ d.inbox = conn[c].inbox
    BY <1>2, <2>1, SettledFields
  <2>5. PICK g : FrameOK(t, g) /\ g.pc = "release" /\ g.conn = c /\ th' = [th EXCEPT ![t] = g]
    BY <1>1, <2>2, TakeCallFrame
  <2>6. CalmIo(t, o)
    BY <1>2, <2>1 DEF CalmIo, Ios
  <2>7. io' \in [Transports -> Ios] /\ SameSends /\ SameClosing
    BY <1>1, <2>2, <2>6, CalmIoKept
  <2>8. conn'[c] = d
    BY <1>1, <2>2 DEF Types
  <2>9. Input(c)'
    BY <1>2, <2>4, <2>8 DEF Input
  <2>10. \A s \in Transports : io'[s].sends = io[s].sends /\ io'[s].shutdown = io[s].shutdown
    BY <2>7 DEF SameSends, SameClosing
  <2>11. th[t].pc \notin {"poll", "ready", "stopped"}
    BY <1>1
  <2> QED
    BY <1>1, <2>1, <2>2, <2>3, <2>4, <2>5, <2>7, <2>9, <2>10, <2>11, SettleStep
<1>4. CASE ~(conn[c].timeouts /\ conn[c].entry \in Timed)
  <2>1. PICK l \in {"crashed", "dispatch"} : TakeTo(t, "timer", c, l)
    BY <1>4 DEF HandleTimer
  <2>2. PICK d : d = [conn[c] EXCEPT !.timeouts = FALSE]
    OBVIOUS
  <2>3. conn' = [conn EXCEPT ![c] = d] /\ UNCHANGED <<io, answer>>
    BY <1>1, <1>4, <2>2 DEF HandleTimer, Types
  <2>4. Calm(c, d)
    BY <1>2, <2>2 DEF Calm, Connections
  <2>5. Types' /\ SameRest
    BY <1>1, <2>3, <2>4, CalmRest
  <2>6. l \in TransportLabels /\ l \notin Calls \cup Holding \cup Flying /\ l \notin Located
    BY <2>1 DEF TransportLabels, Calls, Holding, Carrying, Flying, Located
  <2> QED
    BY <1>1, <2>1, <2>5, <2>6, TakeStep
<1> QED
  BY <1>3, <1>4

-----------------------------------------------------------------------------
\* Every step.
LEMMA TryUseKeeps ==
  ASSUME IInv, NEW x \in Threads, TryUse(x)
  PROVE  IInv' /\ Once
BY TryNextKeeps, TryTakesKeeps

LEMMA UserStepKeeps ==
  ASSUME IInv, NEW u \in Users, UserStep(u)
  PROVE  IInv' /\ Once
<1>1. u \in Threads
  BY DEF Threads
<1>2. CASE TryUse(u)
  BY <1>1, <1>2, TryUseKeeps
<1>3. CASE PickNone(u)
  BY <1>1, <1>3, PickNoneKeeps
<1>4. CASE Enqueue(u)
  BY <1>4, EnqueueKeeps
<1>5. CASE Associate(u)
  BY <1>5, AssociateKeeps
<1>6. CASE AsyncPerform(u)
  BY <1>6, AsyncPerformKeeps
<1>7. CASE Connect(u)
  BY <1>7, ConnectKeeps
<1>8. CASE Then(u)
  BY <1>8, ThenKeeps
<1>9. CASE ProcessWaiting(u)
  BY <1>1, <1>9, ProcessWaitingKeeps
<1>10. CASE WaitingDone(u)
  BY <1>1, <1>10, WaitingDoneKeeps
<1>11. CASE PerformImpl(u)
  BY <1>1, <1>11, PerformImplKeeps
<1>12. CASE AsyncSendRequest(u)
  BY <1>1, <1>12, AsyncSendRequestKeeps
<1> QED
  BY <1>2, <1>3, <1>4, <1>5, <1>6, <1>7, <1>8, <1>9, <1>10, <1>11, <1>12 DEF UserStep

LEMMA EventKeeps ==
  ASSUME IInv, NEW t \in Transports, NEW c \in Conns,
         \/ HandleWritable(t, c)
         \/ HandleIncoming(t, c)
         \/ HandleEof(t, c)
         \/ HandleReset(t, c)
         \/ HandleTimer(t, c)
  PROVE  IInv' /\ Once
<1>1. CASE HandleWritable(t, c)
  BY <1>1, HandleWritableKeeps
<1>2. CASE HandleIncoming(t, c)
  BY <1>2, HandleIncomingKeeps
<1>3. CASE HandleEof(t, c)
  BY <1>3, HandleEofKeeps
<1>4. CASE HandleReset(t, c)
  BY <1>4, HandleResetKeeps
<1>5. CASE HandleTimer(t, c)
  BY <1>5, HandleTimerKeeps
<1> QED
  BY <1>1, <1>2, <1>3, <1>4, <1>5

LEMMA TransportStepKeeps ==
  ASSUME IInv, NEW t \in Transports, TransportStep(t)
  PROVE  IInv' /\ Once
<1>1. t \in Threads
  BY DEF Threads
<1>2. CASE Poll(t)
  BY <1>2, PollKeeps
<1>3. CASE OnReady(t)
  BY <1>3, OnReadyKeeps
<1>4. CASE BatchDone(t) \/ ConnectsDrained(t) \/ SendsDrained(t)
  BY <1>4, LoopKeeps
<1>5. CASE HandleConnectionQueue(t) \/ HandleRequestsQueue(t)
  BY <1>5, HandleQueuesKeeps
<1>6. CASE DrainConnect(t) \/ DrainConnectFails(t)
  BY <1>6, DrainConnectKeeps
<1>7. CASE DrainSend(t)
  BY <1>7, DrainSendKeeps
<1>8. CASE \E c \in Conns : \/ HandleWritable(t, c)
                           \/ HandleIncoming(t, c)
                           \/ HandleEof(t, c)
                           \/ HandleReset(t, c)
                           \/ HandleTimer(t, c)
  BY <1>8, EventKeeps
<1>9. CASE ProcessWaiting(t)
  BY <1>1, <1>9, ProcessWaitingKeeps
<1>10. CASE WaitingDone(t)
  BY <1>1, <1>10, WaitingDoneKeeps
<1>11. CASE WatchRead(t)
  BY <1>11, WatchReadKeeps
<1>12. CASE TimeoutDone(t)
  BY <1>12, TimeoutDoneKeeps
<1>13. CASE PerformImpl(t)
  BY <1>1, <1>13, PerformImplKeeps
<1>14. CASE AsyncSendRequest(t)
  BY <1>1, <1>14, AsyncSendRequestKeeps
<1>15. CASE SendOk(t)
  BY <1>15, SendOkKeeps
<1>16. CASE SendFails(t)
  BY <1>16, SendFailsKeeps
<1>17. CASE RegisterTimer(t)
  BY <1>17, RegisterTimerKeeps
<1>18. CASE Release(t)
  BY <1>18, ReleaseKeeps
<1>19. CASE LockQueues(t)
  BY <1>19, LockQueuesKeeps
<1>20. CASE TryUse(t)
  BY <1>1, <1>20, TryUseKeeps
<1>21. CASE PickNone(t)
  BY <1>1, <1>21, PickNoneKeeps
<1>22. CASE Dequeue(t)
  BY <1>22, DequeueKeeps
<1> QED
  BY <1>2, <1>3, <1>4, <1>5, <1>6, <1>7, <1>8, <1>9, <1>10, <1>11, <1>12, <1>13, <1>14, <1>15,
     <1>16, <1>17, <1>18, <1>19, <1>20, <1>21, <1>22 DEF TransportStep

LEMMA NextKeeps ==
  ASSUME IInv, [Next]_vars
  PROVE  IInv' /\ Once
<1>1. ASSUME NEW u \in Users, NEW r \in Requests, DoRequest(u, r) PROVE IInv' /\ Once
  BY <1>1, DoRequestKeeps
<1>2. ASSUME NEW t \in Transports, ReactorShutdown(t) \/ ReactorNotify(t) PROVE IInv' /\ Once
  BY <1>2, ReactorShutdownKeeps
<1>3. ASSUME NEW c \in Conns,
             \/ Server(c)
             \/ Refuse(c)
             \/ Hangup(c, "close", "eof")
             \/ Hangup(c, "reset", "reset")
             \/ TimerExpires(c)
      PROVE  IInv' /\ Once
  <2>1. CASE Accept(c) \/ Refuse(c)
    BY <2>1, PeerKeeps
  <2>2. CASE Respond(c)
    BY <2>2, RespondKeeps
  <2>3. CASE TimerExpires(c)
    BY <2>3, TimerExpiresKeeps
  <2>4. "eof" \in Marks /\ "reset" \in Marks
    BY DEF Marks
  <2>5. CASE Hangup(c, "close", "eof") \/ Hangup(c, "reset", "reset")
    BY <2>4, <2>5, HangupKeeps
  <2> QED
    BY <1>3, <2>1, <2>2, <2>3, <2>5 DEF Server
<1>4. CASE Shutdown
  <2>1. CASE StopQueues \/ ShutdownDone
    BY <2>1, StopKeeps
  <2>2. CASE \E c \in Conns : PoolClose(c)
    BY <2>2, PoolCloseKeeps
  <2> QED
    BY <1>2, <1>4, <2>1, <2>2 DEF Shutdown
<1>5. CASE UNCHANGED vars
  <2>1. UNCHANGED <<conn, client, io, th, answer, closing>>
    BY <1>5 DEF vars
  <2>2. Types' /\ SameRest
    BY <2>1, Unmoved
  <2>3. Closed'
    BY <2>1, <2>2, ClosedStill DEF SameRest, IInv
  <2> QED
    BY <2>1, <2>2, <2>3, OtherStep DEF SameRest
<1>6. CASE \E u \in Users : UserStep(u)
  BY <1>6, UserStepKeeps
<1>7. CASE \E t \in Transports : TransportStep(t)
  BY <1>7, TransportStepKeeps
<1> QED
  BY <1>1, <1>2, <1>3, <1>4, <1>5, <1>6, <1>7 DEF Next

LEMMA Invariant == Spec => []IInv
<1>1. IInv /\ [Next]_vars => IInv'
  BY NextKeeps
<1> QED
  BY <1>1, InitEstablishes, PTL DEF Spec

-----------------------------------------------------------------------------
\* The types hold in every state, requestsQueues never outgrows its ring, and
\* once Client::shutdown() closes sockets no reactor is inside a handler.
THEOREM ClientIsSound == Spec => []ClientSound
<1>1. ASSUME IInv PROVE ClientSound
  <2>1. /\ Types /\ Closed
        /\ \A x \in Threads : FrameOK(x, th[x]) /\ th[x] \in Frames
    BY <1>1 DEF IInv, Framed, FrameOK
  <2>2. \A x \in Threads : /\ th[x].pc \in IF x \in Users THEN UserLabels ELSE TransportLabels
                           /\ th[x].conn \in Conns \cup {None}
                           /\ th[x].req \in Requests \cup {None}
    BY <2>1 DEF FrameOK, Frames, Threads
  <2>3. TypeOK
    BY <2>1, <2>2 DEF TypeOK, Types, Connections, Marks, Clients, Ios, Sends, Outcomes
  <2>4. NoHandlingAfterShutdown
    BY <2>1 DEF Closed, NoHandlingAfterShutdown
  <2> QED
    BY <2>3, <2>4 DEF ClientSound
<1>2. IInv => ClientSound
  BY <1>1
<1> QED
  BY <1>2, Invariant, PTL

\* A connection has one request at a time, and none while it is idle, whoever
\* takes it (doRequest, processRequestQueue) and whoever lets it go (onDone).
THEOREM ConnectionsAreExclusive == Spec => []ConnectionsExclusive
<1>1. ASSUME IInv, NEW c \in Conns
      PROVE  /\ Cardinality(Carried(c)) <= 1
             /\ conn[c].state = "Idle" => Carried(c) = {}
  <2>1. Token(c) /\ conn[c] \in Connections
    BY <1>1, ConnectionTypes DEF IInv, Tokens
  <2>2. PICK E, W, H :
          /\ E = {conn[c].entry} \ {None}
          /\ W = {conn[c].waiting[i] : i \in 1 .. Len(conn[c].waiting)}
          /\ H = {th[x].req : x \in {y \in Threads : /\ th[y].conn = c
                                                     /\ th[y].pc \in {"got", "asyncPerform", "perform"}}}
    OBVIOUS
  <2>3. Carried(c) = (E \cup W) \cup H
    BY <2>2 DEF Carried
  <2>4. (\A x \in Threads : ~Holder(x, c)) => H = {}
    BY <2>2 DEF Holder, Holding, Carrying
  <2>5. conn[c].waiting = <<>> => W = {}
    BY <2>2
  <2>6. conn[c].state = "Idle" => Carried(c) = {}
    BY <2>1, <2>2, <2>3, <2>4, <2>5 DEF Token
  <2>7. PICK n \in Nat : n = Len(conn[c].waiting)
    BY <2>1 DEF Connections
  <2>8. \A a, b \in Carried(c) : a = b
    <3>1. CASE conn[c].entry # None
      BY <2>1, <2>2, <2>3, <2>4, <2>5, <3>1 DEF Token
    <3>2. CASE conn[c].entry = None /\ conn[c].waiting # <<>>
      <4>1. E = {} /\ H = {}
        BY <2>1, <2>2, <2>4, <3>2 DEF Token
      <4>2. \A i \in 1 .. n : i = 1
        BY <2>1, <2>7 DEF Token
      <4> QED
        BY <2>2, <2>3, <2>7, <4>1, <4>2
    <3>3. CASE conn[c].entry = None /\ conn[c].waiting = <<>>
      <4>1. E = {} /\ W = {}
        BY <2>2, <2>5, <3>3
      <4>2. \A x, y \in Threads : Holder(x, c) /\ Holder(y, c) => x = y
        BY <2>1 DEF Token
      <4> QED
        BY <2>2, <2>3, <4>1, <4>2 DEF Holder, Holding, Carrying
    <3> QED
      BY <3>1, <3>2, <3>3
  <2>9. Cardinality(Carried(c)) <= 1
    <3>1. CASE Carried(c) = {}
      BY <3>1, FS_EmptySet
    <3>2. CASE Carried(c) # {}
      <4>1. PICK a : Carried(c) = {a}
        BY <2>8, <3>2
      <4> QED
        BY <4>1, FS_Singleton
    <3> QED
      BY <3>1, <3>2
  <2> QED
    BY <2>6, <2>9
<1>2. IInv => ConnectionsExclusive
  BY <1>1 DEF ConnectionsExclusive
<1> QED
  BY <1>2, Invariant, PTL

\* handleResponsePacket, handleError, handleTimeout and the full queue: the first
\* of them settles the promise of a request, and no later one changes it.
THEOREM SettledOnceOnly == Spec => AnsweredOnce
<1>1. IInv /\ [Next]_vars => [\A r \in Requests : Answered(r) => answer'[r] = answer[r]]_vars
  BY NextKeeps DEF Once
<1> QED
  BY <1>1, Invariant, PTL DEF Spec, AnsweredOnce

\* As long as no request has timed out, a response goes to the request it
\* answers, however connections are shared, reused, refused, closed or reset.
THEOREM ResponsesAreOwn == Spec => []OwnUntilTimeout
<1>1. IInv => OwnUntilTimeout
  BY DEF IInv, Own, NoTimeout, OwnUntilTimeout
<1> QED
  BY <1>1, Invariant, PTL
=============================================================================
