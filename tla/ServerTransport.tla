-------------------------- MODULE ServerTransport --------------------------
(***************************************************************************)
(* Pistache's server side transport (src/common/transport.cc), with the    *)
(* peers (peer.cc), the part of the listener that hands a connection over  *)
(* (listener.cc), the idle check of the endpoint (endpoint.cc) and the     *)
(* ways a response is put on the wire (http.cc).                           *)
(*                                                                         *)
(* One transport with its reactor thread, the listener's thread, and       *)
(* application threads that answer requests later.  Sockets are watched    *)
(* edge-triggered.  The kernel gives an accepted connection any free       *)
(* descriptor, so that a descriptor names another connection once it was   *)
(* closed.  PollableQueues are FIFOs whose readiness is seen by a later    *)
(* poll; the events of one poll are handled in any order, since a queue    *)
(* that was reported before keeps its old place in epoll's ready list.     *)
(***************************************************************************)
EXTENDS Integers, Sequences, SequencesExt, FiniteSets

CONSTANTS
  NConns,       \* connections, numbered in the order they are made
  Fds,          \* file descriptors for them
  NRequests,    \* requests per connection
  Kinds,        \* how the handler answers: "raw" (send), "file" (serveFile), "app" (send, from an application thread)
  Size,         \* bytes of a response, or of each part of it
  Room,         \* bytes a socket's send buffer holds
  Pieces,       \* pieces of a request a client may send while it waits for a response
  MaxTicks,     \* idle checks that find a connection timed out
  Failures,     \* what may go wrong: "close", "reset" (by the client), "io" (write error)
  None

Conns == 1 .. NConns

ASSUME TransportAssumption ==
  /\ NConns \in Nat /\ NRequests \in Nat /\ Pieces \in Nat /\ MaxTicks \in Nat
  /\ Size \in Nat \ {0} /\ Room \in Nat \ {0}
  /\ Kinds \subseteq {"raw", "file", "app"}
  /\ Failures \subseteq {"close", "reset", "io"}
  /\ None \notin Conns \cup Fds

VARIABLES
  sock,         \* per connection: the client's end and the kernel's buffers
  open,         \* the connection each descriptor belongs to
  epoll,        \* per descriptor: interest, and whether epoll has something to report
  peer,         \* per connection: Peer::fd_ and isIdle_
  peers_,       \* the peer of a descriptor
  toWrite,      \* the deque of a descriptor; None when it has no entry
  writesQueue, peersQueue,
  io,           \* the reactor thread: where it is, the batch it handles, the descriptor at hand
  listener,     \* the listener's thread: the connection it hands over
  app,          \* responses application threads still have to send
  promise,      \* per write: how its promise was settled
  log           \* per connection: what was written for it, in order

vars == <<sock, open, epoll, peer, peers_, toWrite, writesQueue, peersQueue, io, listener,
          app, promise, log>>

queues == <<toWrite, writesQueue, peersQueue>>

Parts == {"raw", "head", "body", "408"}

\* A WriteEntry with its BufferHolder; base is where its data begins in the part,
\* conn, n and part say what it was written for.
Entry(c, n, part, fd) ==
  [conn |-> c, n |-> n, part |-> part, fd |-> fd, base |-> 0, size |-> Size, offset |-> 0]

\* The values of a WriteEntry.
Entries ==
  [conn : Conns, n : 0 .. NRequests, part : Parts, fd : Fds, base : Nat, size : Nat, offset : Nat]

ASSUME NoneAssumption == None \notin Seq(Entries)

WriteOf(e) == <<e.conn, e.n, e.part>>

Writes == Conns \X (0 .. NRequests) \X Parts

Init ==
  /\ sock = [c \in Conns |-> [state |-> "none", inbox |-> <<>>, eof |-> FALSE, reset |-> FALSE,
                              asked |-> 0, pieces |-> 0, used |-> 0, sent |-> <<>>]]
  /\ open = [f \in Fds |-> None]
  /\ epoll = [f \in Fds |-> [interest |-> {}, armed |-> FALSE]]
  /\ peer = [c \in Conns |-> [fd |-> None, idle |-> FALSE, requests |-> 0]]
  /\ peers_ = [f \in Fds |-> None]
  /\ toWrite = [f \in Fds |-> None]
  /\ writesQueue = <<>> /\ peersQueue = <<>>
  /\ io = [pc |-> "poll", batch |-> {}, fd |-> None, ticks |-> 0]
  /\ listener = [pc |-> "idle", conn |-> None, fd |-> None]
  /\ app = {}
  /\ promise = [w \in Writes |-> "none"]
  /\ log = [c \in Conns |-> <<>>]

-----------------------------------------------------------------------------
\* The kernel.
Readable(s) == s.inbox # <<>> \/ s.eof \/ s.reset
Writable(s) == s.used < Room \/ s.reset

\* What epoll reports for a descriptor now.
Flags(f) ==
  {x \in epoll[f].interest : \/ x = "R" /\ Readable(sock[open[f]])
                             \/ x = "W" /\ Writable(sock[open[f]])}

\* The socket of connection c has news of kind x: an edge.
Wake(c, x) ==
  epoll' = [f \in Fds |-> IF open[f] = c /\ x \in epoll[f].interest
                          THEN [epoll[f] EXCEPT !.armed = TRUE] ELSE epoll[f]]

\* epoll_ctl ADD or MOD on a descriptor with socket s: what is ready at that moment will be reported.
Watch(f, interest, s) ==
  [epoll EXCEPT ![f] = [interest |-> interest,
     armed |-> @.armed \/ ("R" \in interest /\ Readable(s)) \/ ("W" \in interest /\ Writable(s))]]

\* The client connects, and the connection waits to be accepted.
Connect(c) ==
  /\ sock[c].state = "none"
  /\ \A d \in 1 .. c - 1 : sock[d].state # "none"
  /\ sock' = [sock EXCEPT ![c].state = "backlog"]
  /\ UNCHANGED <<open, epoll, peer, peers_, queues, io, listener, app, promise, log>>

Alive(c) == sock[c].state \in {"backlog", "open"} /\ ~sock[c].eof /\ ~sock[c].reset

\* The client sends its next request, once it has read the response to the last.
Request(c) ==
  /\ Alive(c)
  /\ sock[c].asked < NRequests
  /\ sock[c].used = 0
  /\ \A n \in 1 .. sock[c].asked : \E part \in {"raw", "body"} : promise[<<c, n, part>>] = "fulfilled"
  /\ sock' = [sock EXCEPT ![c].inbox = Append(@, "request"), ![c].asked = @ + 1]
  /\ Wake(c, "R")
  /\ UNCHANGED <<open, peer, peers_, queues, io, listener, app, promise, log>>

\* The client sends a piece of a request it does not complete before it has the response.
Piece(c) ==
  /\ Alive(c)
  /\ sock[c].pieces < Pieces
  /\ sock[c].asked > 0
  /\ sock' = [sock EXCEPT ![c].inbox = Append(@, "piece"), ![c].pieces = @ + 1]
  /\ Wake(c, "R")
  /\ UNCHANGED <<open, peer, peers_, queues, io, listener, app, promise, log>>

\* The client reads what has arrived, and makes room.
Read(c) ==
  /\ Alive(c)
  /\ sock[c].used > 0
  /\ sock' = [sock EXCEPT ![c].used = 0]
  /\ Wake(c, "W")
  /\ UNCHANGED <<open, peer, peers_, queues, io, listener, app, promise, log>>

\* The client closes its end, or its end is reset.
Close(c) ==
  /\ Alive(c)
  /\ \/ /\ "close" \in Failures
        /\ sock' = [sock EXCEPT ![c].eof = TRUE]
     \/ /\ "reset" \in Failures
        /\ sock' = [sock EXCEPT ![c].reset = TRUE]
  /\ Wake(c, "R")
  /\ UNCHANGED <<open, peer, peers_, queues, io, listener, app, promise, log>>

-----------------------------------------------------------------------------
\* Listener::handleNewConnection: accept, and make the Peer.
Accept(c, f) ==
  /\ listener.pc = "idle"
  /\ sock[c].state = "backlog"
  /\ open[f] = None
  /\ sock' = [sock EXCEPT ![c].state = "open"]
  /\ open' = [open EXCEPT ![f] = c]
  /\ peer' = [peer EXCEPT ![c].fd = f]
  /\ listener' = [pc |-> "dispatch", conn |-> c, fd |-> f]
  /\ UNCHANGED <<epoll, peers_, queues, io, app, promise, log>>

\* dispatchPeer and handleNewPeer on the listener's thread: the peer is queued ...
HandleNewPeer ==
  /\ listener.pc = "dispatch"
  /\ peersQueue' = Append(peersQueue, listener.conn)
  /\ listener' = [listener EXCEPT !.pc = "emplace"]
  /\ UNCHANGED <<sock, open, epoll, peer, peers_, toWrite, writesQueue, io, app, promise, log>>

\* Mutant: the descriptor is taken before the peer is queued.
EmplaceStale ==
  /\ listener.pc = "emplace"
  /\ toWrite' = [toWrite EXCEPT ![listener.fd] = IF @ = None THEN <<>> ELSE @]
  /\ listener' = [pc |-> "idle", conn |-> None, fd |-> None]
  /\ UNCHANGED <<sock, open, epoll, peer, peers_, writesQueue, peersQueue, io, app, promise, log>>

\* ... and a deque is made for it, unless it is gone already.
Emplace ==
  LET f == peer[listener.conn].fd IN
  /\ listener.pc = "emplace"
  /\ toWrite' = IF f = None \/ toWrite[f] # None THEN toWrite
                ELSE [toWrite EXCEPT ![f] = <<>>]
  /\ listener' = [pc |-> "idle", conn |-> None, fd |-> None]
  /\ UNCHANGED <<sock, open, epoll, peer, peers_, writesQueue, peersQueue, io, app, promise, log>>

-----------------------------------------------------------------------------
\* Transport::asyncWrite: the write is queued, whatever the thread.
Push(e) ==
  /\ writesQueue' = Append(writesQueue, e)
  /\ promise' = [promise EXCEPT ![WriteOf(e)] = "pending"]
  /\ log' = [log EXCEPT ![e.conn] = Append(@, WriteOf(e))]

\* ResponseWriter::send on an application's thread marks the peer idle and reads the
\* descriptor; a peer that is gone, or has none, gets no bytes ...
AppFd(a) ==
  /\ a \in app
  /\ a.fd = None
  /\ app' = IF peer[a.conn].fd = None THEN app \ {a}
            ELSE (app \ {a}) \cup {[a EXCEPT !.fd = peer[a.conn].fd]}
  /\ peer' = [peer EXCEPT ![a.conn].idle = TRUE]
  /\ UNCHANGED <<sock, open, epoll, peers_, queues, io, listener, promise, log>>

\* ... and queues the write.
AppPush(a) ==
  /\ a \in app
  /\ a.fd # None
  /\ Push(Entry(a.conn, a.n, "raw", a.fd))
  /\ app' = app \ {a}
  /\ UNCHANGED <<sock, open, epoll, peer, peers_, toWrite, peersQueue, io, listener>>

-----------------------------------------------------------------------------
\* SyncImpl::runOnce on the reactor thread: a batch of everything that is ready.
\* The timer of the idle check is ready when it has elapsed.
Poll ==
  LET ready == {f \in Fds : epoll[f].armed /\ open[f] # None /\ Flags(f) # {}}
      events == {[tag |-> f, flags |-> Flags(f)] : f \in ready}
                \cup {[tag |-> q, flags |-> {"R"}] : q \in {x \in {"writes", "peers"} :
                        IF x = "writes" THEN writesQueue # <<>> ELSE peersQueue # <<>>}}
  IN
  /\ io.pc = "poll"
  /\ \/ events # {} /\ io' = [io EXCEPT !.pc = "handle", !.batch = events]
     \/ /\ io.ticks < MaxTicks
        /\ io' = [io EXCEPT !.pc = "tick", !.batch = events, !.ticks = @ + 1]
  /\ epoll' = [f \in Fds |-> [epoll[f] EXCEPT !.armed = FALSE]]
  /\ UNCHANGED <<sock, open, peer, peers_, queues, listener, app, promise, log>>

\* Transport::onReady takes the next event.  A socket that is both readable and
\* writable is handled as readable only; asyncWriteImpl returns at once when there
\* is nothing to write.
OnReady(e) ==
  LET f == e.tag IN
  /\ io.pc = "handle"
  /\ e \in io.batch
  /\ \/ /\ f \in {"writes", "peers"}
        /\ io' = [io EXCEPT !.pc = f, !.batch = @ \ {e}]
        /\ UNCHANGED epoll
     \/ /\ "R" \in e.flags /\ f \in Fds
        /\ io' = [io EXCEPT !.pc = IF peers_[f] = None THEN "handle" ELSE "read",
                            !.batch = @ \ {e}, !.fd = f]
        /\ UNCHANGED epoll
     \/ /\ e.flags = {"W"}
        /\ IF epoll[f].interest = {}
             THEN io' = [io EXCEPT !.pc = "crashed"] /\ UNCHANGED epoll    \* modifyFd throws
             ELSE /\ io' = [io EXCEPT !.pc = IF toWrite[f] \in {None, <<>>} THEN "handle" ELSE "write",
                                      !.batch = @ \ {e}, !.fd = f]
                  /\ epoll' = Watch(f, {"R"}, sock[open[f]])
  /\ UNCHANGED <<sock, open, peer, peers_, queues, listener, app, promise, log>>

BatchDone ==
  /\ io.pc = "handle"
  /\ io.batch = {}
  /\ io' = [io EXCEPT !.pc = "poll", !.fd = None]
  /\ UNCHANGED <<sock, open, epoll, peer, peers_, queues, listener, app, promise, log>>

\* handlePeerQueue: one peer is registered, or the queue is empty.
HandlePeer ==
  /\ io.pc = "peers"
  /\ IF peersQueue = <<>>
       THEN /\ io' = [io EXCEPT !.pc = "handle"]
            /\ UNCHANGED <<epoll, peers_, peersQueue>>
       ELSE LET c == Head(peersQueue)
                f == peer[c].fd IN
            /\ peersQueue' = Tail(peersQueue)
            /\ peers_' = [peers_ EXCEPT ![f] = c]
            /\ epoll' = Watch(f, {"R"}, sock[c])
            /\ UNCHANGED io
  /\ UNCHANGED <<sock, open, peer, toWrite, writesQueue, listener, app, promise, log>>

\* handleWriteQueue: one write goes to the deque of its descriptor, unless that
\* is nobody's.
HandleWriteQueue ==
  /\ io.pc = "writes"
  /\ IF writesQueue = <<>>
       THEN io' = [io EXCEPT !.pc = "handle"] /\ UNCHANGED <<epoll, toWrite, writesQueue>>
       ELSE LET e == Head(writesQueue)
                f == e.fd IN
            /\ writesQueue' = Tail(writesQueue)
            /\ IF peers_[f] = None
                 THEN UNCHANGED <<epoll, toWrite>>
                 ELSE /\ toWrite' = [toWrite EXCEPT ![f] = Append(IF @ = None THEN <<>> ELSE @, e)]
                      /\ epoll' = Watch(f, {"R", "W"}, sock[open[f]])
            /\ UNCHANGED io
  /\ UNCHANGED <<sock, open, peer, peers_, peersQueue, listener, app, promise, log>>

-----------------------------------------------------------------------------
\* removePeer for the peers in C that still have a descriptor, and its closeFd:
\* nothing of the descriptor is left.  s: the sockets; idle: peers to mark idle.
RemovePeers(C, s, idle) ==
  LET fds == {peer[c].fd : c \in C} IN
  /\ peers_' = [f \in Fds |-> IF f \in fds THEN None ELSE peers_[f]]
  /\ epoll' = [f \in Fds |-> IF f \in fds THEN [interest |-> {}, armed |-> FALSE] ELSE epoll[f]]
  /\ toWrite' = [f \in Fds |-> IF f \in fds THEN None ELSE toWrite[f]]
  /\ open' = [f \in Fds |-> IF f \in fds THEN None ELSE open[f]]
  /\ peer' = [c \in Conns |-> [peer[c] EXCEPT !.fd = IF c \in C THEN None ELSE @,
                                              !.idle = @ \/ c \in idle]]
  /\ sock' = [c \in Conns |-> IF c \in C /\ peer[c].fd # None
                              THEN [s[c] EXCEPT !.state = "closed"] ELSE s[c]]

\* TransportImpl::checkIdlePeers, before the events of the batch: peers that have
\* timed out are removed when idle, and answered 408 first when not.
CheckIdlePeers(C) ==
  LET idle == {c \in C : peer[c].idle}
      late == SetToSeq(C \ idle)
      writes == [i \in DOMAIN late |-> Entry(late[i], 0, "408", peer[late[i]].fd)]
      ids == {WriteOf(writes[i]) : i \in DOMAIN writes} IN
  /\ io.pc = "tick"
  /\ C # {} /\ C \subseteq {peers_[f] : f \in Fds} \ {None}
  /\ \A w \in ids : promise[w] = "none"
  /\ RemovePeers(idle, sock, C)
  /\ writesQueue' = writesQueue \o writes
  /\ promise' = [w \in Writes |-> IF w \in ids THEN "pending" ELSE promise[w]]
  /\ log' = [c \in Conns |-> IF c \in C \ idle THEN Append(log[c], <<c, 0, "408">>) ELSE log[c]]
  /\ io' = [io EXCEPT !.pc = "handle"]
  /\ UNCHANGED <<peersQueue, listener, app>>

\* The idle check finds nobody timed out.
NobodyIdle ==
  /\ io.pc = "tick"
  /\ io' = [io EXCEPT !.pc = "handle"]
  /\ UNCHANGED <<sock, open, epoll, peer, peers_, queues, listener, app, promise, log>>

-----------------------------------------------------------------------------
\* handleIncoming: recv() until there is nothing left.  A piece of a request only
\* reaches the parser; Handler::onInput passes a complete one to the handler, which
\* sends the response, starts on a file, or leaves the response to a thread.
Receive(kind) ==
  LET f == io.fd
      c == peers_[f]
      n == peer[c].requests + 1 IN
  /\ io.pc = "read"
  /\ ~sock[c].reset
  /\ sock[c].inbox # <<>>
  /\ sock' = [sock EXCEPT ![c].inbox = Tail(@)]
  /\ \/ /\ Head(sock[c].inbox) = "piece"
        /\ UNCHANGED <<peer, writesQueue, app, promise, log>>
     \/ /\ Head(sock[c].inbox) = "request"
        /\ peer' = [peer EXCEPT ![c].requests = n, ![c].idle = kind = "raw"]
        /\ \/ /\ kind = "app"
              /\ app' = app \cup {[conn |-> c, n |-> n, fd |-> None]}
              /\ UNCHANGED <<writesQueue, promise, log>>
           \/ /\ kind # "app"
              /\ Push(Entry(c, n, IF kind = "raw" THEN "raw" ELSE "head", f))
              /\ UNCHANGED app
  /\ UNCHANGED <<open, epoll, peers_, toWrite, peersQueue, io, listener>>

\* recv() returns EAGAIN.
ReceiveAgain ==
  LET c == peers_[io.fd] IN
  /\ io.pc = "read"
  /\ ~Readable(sock[c])
  /\ io' = [io EXCEPT !.pc = "handle"]
  /\ UNCHANGED <<sock, open, epoll, peer, peers_, queues, listener, app, promise, log>>

\* handlePeerDisconnection, at the end of the stream or on an error.
Disconnection ==
  LET c == peers_[io.fd] IN
  /\ io.pc = "read"
  /\ sock[c].reset \/ (sock[c].eof /\ sock[c].inbox = <<>>)
  /\ RemovePeers({c}, sock, {})
  /\ io' = [io EXCEPT !.pc = "handle"]
  /\ UNCHANGED <<writesQueue, peersQueue, listener, app, promise, log>>

-----------------------------------------------------------------------------
\* asyncWriteImpl, one entry at a time under toWriteLock.  e is the first entry of
\* the deque, k the bytes send() takes of what is left of it.
WriteStep == io.pc = "write"

Left(e) == e.size - e.offset

Sent(c, e, k) ==
  [sock EXCEPT ![c].used = @ + k,
               ![c].sent = @ \o [i \in 1 .. k |-> <<WriteOf(e), e.base + e.offset + i>>]]

Taken(e) ==
  LET free == Room - sock[open[e.fd]].used IN IF free < Left(e) THEN free ELSE Left(e)

\* cleanUp(): the entry is popped; an empty deque goes, and with it the interest in
\* writing.
CleanUp(f, s) ==
  LET rest == Tail(toWrite[f]) IN
  /\ toWrite' = [toWrite EXCEPT ![f] = IF rest = <<>> THEN None ELSE rest]
  /\ epoll' = IF rest = <<>> THEN Watch(f, {"R"}, s) ELSE epoll
  /\ io' = IF rest = <<>> THEN [io EXCEPT !.pc = "handle"] ELSE io

\* The whole entry is out, and the promise is fulfilled: serveFile then queues the
\* file, closePeer removes the peer it has answered 408.
WriteDone ==
  LET f == io.fd
      e == Head(toWrite[f])
      c == open[f]
      s == Sent(c, e, Left(e)) IN
  /\ WriteStep
  /\ ~sock[c].reset
  /\ Taken(e) = Left(e)
  /\ \/ /\ e.part \in {"raw", "body"}
        /\ sock' = s
        /\ CleanUp(f, s[c])
        /\ promise' = [promise EXCEPT ![WriteOf(e)] = "fulfilled"]
        /\ UNCHANGED <<open, peer, peers_, writesQueue, log>>
     \/ /\ e.part = "head"
        /\ sock' = s
        /\ CleanUp(f, s[c])
        /\ writesQueue' = Append(writesQueue, Entry(e.conn, e.n, "body", e.fd))
        /\ promise' = [promise EXCEPT ![WriteOf(e)] = "fulfilled",
                                      ![<<e.conn, e.n, "body">>] = "pending"]
        /\ log' = [log EXCEPT ![e.conn] = Append(@, <<e.conn, e.n, "body">>)]
        /\ UNCHANGED <<open, peer, peers_>>
     \/ /\ e.part = "408" /\ peer[e.conn].fd = f
        /\ RemovePeers({e.conn}, s, {})
        /\ promise' = [promise EXCEPT ![WriteOf(e)] = "fulfilled"]
        /\ io' = [io EXCEPT !.pc = "handle"]
        /\ UNCHANGED <<writesQueue, log>>
     \/ /\ e.part = "408" /\ peer[e.conn].fd # f     \* removed before
        /\ sock' = s
        /\ CleanUp(f, s[c])
        /\ promise' = [promise EXCEPT ![WriteOf(e)] = "fulfilled"]
        /\ UNCHANGED <<open, peer, peers_, writesQueue, log>>
  /\ UNCHANGED <<peersQueue, listener, app>>

\* Mutant: the rest of a buffer is cut off where the last send() began.
WriteAgainShort ==
  LET f == io.fd
      e == Head(toWrite[f])
      c == open[f] IN
  /\ WriteStep
  /\ ~sock[c].reset
  /\ Taken(e) < Left(e)
  /\ sock' = Sent(c, e, Taken(e))
  /\ epoll' = Watch(f, {"R", "W"}, sock'[c])
  /\ io' = [io EXCEPT !.pc = "handle"]
  /\ UNCHANGED <<open, peer, peers_, queues, listener, app, promise, log>>

\* Mutant: the copy keeps the offset.
WriteAgainTwice ==
  LET f == io.fd
      e == Head(toWrite[f])
      c == open[f]
      total == e.offset + Taken(e)
      rest == [e EXCEPT !.base = @ + total, !.size = @ - total, !.offset = total] IN
  /\ WriteStep
  /\ ~sock[c].reset
  /\ Taken(e) < Left(e)
  /\ sock' = Sent(c, e, Taken(e))
  /\ toWrite' = [toWrite EXCEPT ![f] = <<rest>> \o Tail(@)]
  /\ epoll' = Watch(f, {"R", "W"}, sock'[c])
  /\ io' = [io EXCEPT !.pc = "handle"]
  /\ UNCHANGED <<open, peer, peers_, writesQueue, peersQueue, listener, app, promise, log>>

\* Mutant: the descriptor is not watched for writing again.
WriteAgainUnwatched ==
  LET f == io.fd
      e == Head(toWrite[f])
      total == e.offset + Taken(e)
      rest == IF e.part = "body" THEN [e EXCEPT !.offset = total]
              ELSE [e EXCEPT !.base = @ + total, !.size = @ - total, !.offset = 0] IN
  /\ WriteStep
  /\ ~sock[open[f]].reset
  /\ Taken(e) < Left(e)
  /\ sock' = Sent(open[f], e, Taken(e))
  /\ toWrite' = [toWrite EXCEPT ![f] = <<rest>> \o Tail(@)]
  /\ io' = [io EXCEPT !.pc = "handle"]
  /\ UNCHANGED <<open, epoll, peer, peers_, writesQueue, peersQueue, listener, app, promise, log>>

\* send() takes a part, or nothing, and EAGAIN comes: detach() keeps the rest, for a
\* file by its offset and for a buffer as a copy from there, at the front of the
\* deque, and the descriptor is watched for writing.
WriteAgain ==
  LET f == io.fd
      e == Head(toWrite[f])
      c == open[f]
      total == e.offset + Taken(e)
      rest == IF e.part = "body" THEN [e EXCEPT !.offset = total]
              ELSE [e EXCEPT !.base = @ + total, !.size = @ - total, !.offset = 0] IN
  /\ WriteStep
  /\ ~sock[c].reset
  /\ Taken(e) < Left(e)
  /\ sock' = Sent(c, e, Taken(e))
  /\ toWrite' = [toWrite EXCEPT ![f] = <<rest>> \o Tail(@)]
  /\ epoll' = Watch(f, {"R", "W"}, sock'[c])
  /\ io' = [io EXCEPT !.pc = "handle"]
  /\ UNCHANGED <<open, peer, peers_, writesQueue, peersQueue, listener, app, promise, log>>

\* EPIPE or ECONNRESET: the entry and the deque are dropped, promises and all.
WriteBroken ==
  /\ WriteStep
  /\ sock[open[io.fd]].reset
  /\ toWrite' = [toWrite EXCEPT ![io.fd] = None]
  /\ io' = [io EXCEPT !.pc = "handle"]
  /\ UNCHANGED <<sock, open, epoll, peer, peers_, writesQueue, peersQueue, listener, app, promise, log>>

\* Mutant: the promise is fulfilled all the same.
WriteFailsFulfilled ==
  LET f == io.fd IN
  /\ WriteStep
  /\ "io" \in Failures
  /\ promise' = [promise EXCEPT ![WriteOf(Head(toWrite[f]))] = "fulfilled"]
  /\ CleanUp(f, sock[open[f]])
  /\ UNCHANGED <<sock, open, peer, peers_, writesQueue, peersQueue, listener, app, log>>

\* Another error: the entry is dropped and its promise rejected, which ends a
\* serveFile. The rejection ends in putOnWire's reject handler, which returns: what is
\* chained to it stays pending, and closePeer does not remove the peer of a 408.
WriteFails ==
  LET f == io.fd IN
  /\ WriteStep
  /\ "io" \in Failures
  /\ promise' = [promise EXCEPT ![WriteOf(Head(toWrite[f]))] = "rejected"]
  /\ CleanUp(f, sock[open[f]])
  /\ UNCHANGED <<sock, open, peer, peers_, writesQueue, peersQueue, listener, app, log>>

-----------------------------------------------------------------------------
ListenerStep == (\E c \in Conns, f \in Fds : Accept(c, f)) \/ HandleNewPeer \/ Emplace

AppStep == \E a \in app : AppFd(a) \/ AppPush(a)

IoStep ==
  \/ Poll \/ (\E e \in io.batch : OnReady(e)) \/ BatchDone
  \/ HandlePeer \/ HandleWriteQueue
  \/ (\E C \in SUBSET Conns : CheckIdlePeers(C)) \/ NobodyIdle
  \/ (\E kind \in Kinds : Receive(kind)) \/ ReceiveAgain \/ Disconnection
  \/ WriteDone \/ WriteAgain \/ WriteBroken \/ WriteFails

ClientStep ==
  \E c \in Conns : Connect(c) \/ Request(c) \/ Piece(c) \/ Read(c) \/ Close(c)

Next == ListenerStep \/ AppStep \/ IoStep \/ ClientStep

Spec == Init /\ [][Next]_vars

\* The three kinds of threads run, and clients read what they are sent; none need
\* connect, send or close.
FairSpec ==
  /\ Spec
  /\ WF_vars(ListenerStep) /\ WF_vars(AppStep)
  /\ WF_vars(Poll /\ io'.pc = "handle") /\ WF_vars(IoStep /\ io.pc # "poll")
  /\ \A c \in Conns : WF_vars(Read(c))

-----------------------------------------------------------------------------
TypeOK ==
  /\ open \in [Fds -> Conns \cup {None}]
  /\ peers_ \in [Fds -> Conns \cup {None}]
  /\ \A c \in Conns : /\ sock[c].state \in {"none", "backlog", "open", "closed"}
                      /\ sock[c].used \in 0 .. Room
                      /\ peer[c].fd \in Fds \cup {None}
                      /\ peer[c].requests \in 0 .. NRequests
  /\ \A f \in Fds : /\ epoll[f].interest \subseteq {"R", "W"}
                    /\ toWrite[f] = None \/
                         \A i \in DOMAIN toWrite[f] : Left(toWrite[f][i]) \in 1 .. Size
  /\ promise \in [Writes -> {"none", "pending", "fulfilled", "rejected"}]
  /\ io.pc \in {"poll", "tick", "handle", "writes", "peers", "read", "write", "crashed"}

\* A descriptor of peers_ is open, watched, and the peer's own; one with a deque is
\* open: closing a connection leaves nothing that the next connection with its
\* descriptor would inherit, although the listener makes the deque on its own
\* thread (handleNewPeer, removePeer, closeFd).
NothingInherited ==
  \A f \in Fds :
    /\ peers_[f] # None => /\ open[f] = peers_[f]
                           /\ peer[peers_[f]].fd = f
                           /\ epoll[f].interest # {}
    /\ toWrite[f] # None => open[f] # None

\* What every state keeps: the types, and nothing left under a descriptor for the
\* next connection that gets it.
TransportSound == TypeOK /\ NothingInherited

\* The bytes of write w that connection c was sent are its first k, in order, nothing twice and no gap.
Reached(c, w, k) ==
  LET s == sock[c].sent
      spots == {x \in DOMAIN s : s[x][1] = w} IN
  /\ {s[x][2] : x \in spots} = 1 .. k
  /\ \A x, y \in spots : x < y => s[x][2] < s[y][2]

\* Connection c was sent every byte of write w.
Whole(c, w) == \A k \in 1 .. Size : <<w, k>> \in Range(sock[c].sent)

\* The bytes a connection gets of its own responses are the bytes written for it,
\* in the order they were written, nothing twice and no gap: each write has reached
\* the client up to some byte, and only a complete or a rejected one is followed by
\* another (asyncWriteImpl and BufferHolder::detach over short writes).
InOrder ==
  \A c \in Conns :
    LET s == sock[c].sent IN
    /\ \A w \in Range(log[c]) : \E k \in 0 .. Size : Reached(c, w, k)
    /\ \A i, j \in DOMAIN log[c] : \A y \in DOMAIN s :
         i < j /\ s[y][1] = log[c][j] =>
           /\ Whole(c, log[c][i]) \/ promise[log[c][i]] = "rejected"
           /\ \A x \in DOMAIN s : s[x][1] = log[c][i] => x < y

\* A promise is fulfilled only when every byte is out, all on one connection.
FulfilledIsSent ==
  \A w \in Writes : promise[w] = "fulfilled" => \E c \in Conns : Whole(c, w)

\* A connection is sent only what was written for it: a response reaches the client
\* that asked, whoever has its descriptor by then.
OwnBytes == \A c \in Conns : \A i \in DOMAIN sock[c].sent : sock[c].sent[i][1][1] = c

\* The reactor thread survives: an event for a descriptor that an earlier part of
\* the batch has closed is ignored.
StaleEventsIgnored == io.pc # "crashed"

\* A write for a connection that stays open is settled, if the client reads and
\* sends nothing but complete requests (asyncWriteImpl, cleanUp and the interest in
\* writing that handleWriteQueue and detach() ask for).
SettledWhenQuiet ==
  \A w \in Writes :
    promise[w] = "pending" ~> (promise[w] # "pending" \/ ~Alive(w[1]) \/ sock[w[1]].pieces > 0)

\* The same whatever the client sends meanwhile.
EveryWriteSettled ==
  \A w \in Writes : promise[w] = "pending" ~> (promise[w] # "pending" \/ ~Alive(w[1]))

=============================================================================
