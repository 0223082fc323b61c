--------------------------- MODULE PistacheClient ---------------------------
(***************************************************************************)
(* Pistache's HTTP client (src/client/client.cc): Client, ConnectionPool,  *)
(* Connection and the client Transport, with the TimerPool of each         *)
(* connection, towards one host.                                           *)
(*                                                                         *)
(* User threads call doRequest(); each transport has a reactor thread that *)
(* takes a batch of ready file descriptors from epoll and handles them one *)
(* by one.  A thread's calls are kept as a stack of frames, so that the    *)
(* callbacks that run inside callbacks (onDone inside handleTimeout, a     *)
(* direct send inside processRequestQueue) meet the locks their callers    *)
(* hold.  The queues are FIFOs, which is what MPMCQueue and PollableQueue  *)
(* are proved to implement; a response is one packet, and requests go out  *)
(* in one send().                                                          *)
(***************************************************************************)
EXTENDS Integers, Sequences, FiniteSets

CONSTANTS
  Users,        \* threads that call doRequest()
  Transports,   \* the client's transports, each with its reactor thread
  NConns,       \* maxConnectionsPerHost
  Requests,     \* the requests, each issued once
  Timed,        \* those with a timeout
  QueueSize,    \* capacity of the host's requestsQueues entry
  Failures,     \* what may go wrong: "connect", "refuse", "reset", "close"
  MayShutdown,  \* whether Client::shutdown() is called
  None

Conns == 1 .. NConns
Threads == Users \cup Transports

ASSUME ClientAssumption ==
  /\ NConns \in Nat \ {0}
  /\ QueueSize \in Nat
  /\ Timed \subseteq Requests
  /\ Failures \subseteq {"connect", "refuse", "reset", "close"}
  /\ MayShutdown \in BOOLEAN

\* Users and reactors are different threads, and a request is not mistaken for
\* a mark in a socket or an outcome of its promise.
ASSUME ValuesAssumption ==
  /\ Users \cap Transports = {}
  /\ None \notin Requests \cup Transports \cup Conns
  /\ Requests \cap {"new", "pending", "full", "error", "timeout", "eof", "reset"} = {}

VARIABLES
  conn,     \* the Connections of the pool, with their socket
  client,   \* queue: requestsQueues[host]; lock: queuesLock; stop: stopProcessRequestQueues
  io,       \* per transport: its two PollableQueues, timeoutsLock, stopHandling, and
            \* shutdown of its reactor worker: "no", "set" (shutdown_), "notified"
  th,       \* per thread: where it is, its locals, its callers
  answer,   \* per request: how its promise was settled
  closing   \* where Client::shutdown() is

vars == <<conn, client, io, th, answer, closing>>

ConnInit ==
  [state |-> "Idle", status |-> "NotConnected", transport |-> None,
   waiting |-> <<>>,       \* Connection::requestsQueue
   entry |-> None,         \* requestEntry
   timer |-> "off", registered |-> FALSE, timeouts |-> FALSE,
   connect |-> "none",     \* the promise of asyncConnect
   interest |-> "none",    \* what epoll watches the socket for
   parser |-> <<>>,        \* responses fed to the parser since its reset
   peer |-> "none", wire |-> <<>>, inbox |-> <<>>]

Init ==
  /\ conn = [c \in Conns |-> ConnInit]
  /\ client = [queue |-> <<>>, lock |-> None, stop |-> FALSE]
  /\ io = [t \in Transports |->
             [connects |-> <<>>, sends |-> <<>>, timeoutsLock |-> FALSE,
              stopHandling |-> FALSE, shutdown |-> "no"]]
  /\ th = [x \in Threads |->
             [pc |-> IF x \in Users THEN "idle" ELSE "poll", conn |-> None, req |-> None,
              k |-> 1, batch |-> {}, stack |-> <<>>]]
  /\ answer = [r \in Requests |-> "new"]
  /\ closing = "no"

-----------------------------------------------------------------------------
\* The thread's frame: jump, call (come back to label l), return to the caller.
Goto(x, l) == th' = [th EXCEPT ![x].pc = l]

Call(f, l, callee) ==
  [f EXCEPT !.pc = callee, !.stack = <<[pc |-> l, conn |-> f.conn]>> \o @]

Back(f) ==
  IF f.stack = <<>> THEN [f EXCEPT !.pc = "idle", !.conn = None]
  ELSE [f EXCEPT !.pc = Head(f.stack).pc, !.conn = Head(f.stack).conn,
                 !.stack = Tail(f.stack), !.k = 1]

Return(x) == th' = [th EXCEPT ![x] = Back(@)]

\* Mutant: requestEntry survives.
SettledKeepsEntry(d) == [d EXCEPT !.timer = IF d.entry \in Timed THEN "off" ELSE @]

\* What handleResponsePacket, handleError and handleTimeout share: the timer is
\* disarmed and released, requestEntry dropped.
Settled(d) == [d EXCEPT !.entry = None, !.timer = IF d.entry \in Timed THEN "off" ELSE @]

-----------------------------------------------------------------------------
\* Client::doRequest on a user's thread: pickConnection scans the pool.
DoRequest(u, r) ==
  /\ th[u].pc = "idle"
  /\ answer[r] = "new"
  /\ closing = "no"
  /\ answer' = [answer EXCEPT ![r] = "pending"]
  /\ th' = [th EXCEPT ![u].pc = "pick", ![u].req = r, ![u].k = 1]
  /\ UNCHANGED <<conn, client, io, closing>>

\* Mutant: the outcome of the compare_exchange is ignored.
TryUseUnchecked(x) ==
  /\ th[x].pc = "pick"
  /\ th[x].k \in Conns
  /\ conn' = [conn EXCEPT ![th[x].k].state = "Used"]
  /\ th' = [th EXCEPT ![x].conn = th[x].k, ![x].pc = IF x \in Users THEN "got" ELSE "dequeue"]
  /\ UNCHANGED <<client, io, answer, closing>>

\* One tryUse() of the scan, by doRequest or by processRequestQueue.
TryUse(x) ==
  LET k == th[x].k IN
  /\ th[x].pc = "pick"
  /\ k \in Conns
  /\ IF conn[k].state = "Idle"
       THEN /\ conn' = [conn EXCEPT ![k].state = "Used"]
            /\ th' = [th EXCEPT ![x].conn = k,
                                ![x].pc = IF x \in Users THEN "got" ELSE "dequeue"]
       ELSE /\ th' = [th EXCEPT ![x].k = k + 1]
            /\ UNCHANGED conn
  /\ UNCHANGED <<client, io, answer, closing>>

\* Mutant: processRequestQueue breaks out of the loop with queuesLock held.
PickNoneKeepsLock(x) ==
  /\ th[x].pc = "pick"
  /\ th[x].k > NConns
  /\ IF x \in Users THEN Goto(x, "enqueue") ELSE Return(x)
  /\ UNCHANGED <<conn, client, io, answer, closing>>

\* The scan ends without a connection: doRequest goes on to queue the request,
\* processRequestQueue is finished with the host and unlocks.
PickNone(x) ==
  /\ th[x].pc = "pick"
  /\ th[x].k > NConns
  /\ IF x \in Users
       THEN Goto(x, "enqueue") /\ UNCHANGED client
       ELSE Return(x) /\ client' = [client EXCEPT !.lock = None]
  /\ UNCHANGED <<conn, io, answer, closing>>

\* Mutant: the queue is taken to be unbounded.
EnqueueUnbounded(u) ==
  /\ th[u].pc = "enqueue"
  /\ client.lock = None
  /\ client' = [client EXCEPT !.queue = Append(@, th[u].req)]
  /\ Return(u)
  /\ UNCHANGED <<conn, io, answer, closing>>

\* The promise of a request without a connection: enqueue under queuesLock,
\* or reject with "Queue is full".
Enqueue(u) ==
  /\ th[u].pc = "enqueue"
  /\ client.lock = None
  /\ IF Len(client.queue) < QueueSize
       THEN client' = [client EXCEPT !.queue = Append(@, th[u].req)] /\ UNCHANGED answer
       ELSE answer' = [answer EXCEPT ![th[u].req] = "full"] /\ UNCHANGED client
  /\ Return(u)
  /\ UNCHANGED <<conn, io, closing>>

\* associateTransport on first use (ioIndex also counts the connections of
\* other hosts, so any transport may be next), then isConnected().
Associate(u) ==
  LET c == th[u].conn IN
  /\ th[u].pc = "got"
  /\ \E t \in Transports :
       /\ conn[c].transport \in {None, t}
       /\ conn' = [conn EXCEPT ![c].transport = t]
  /\ Goto(u, IF conn[c].status = "Connected" THEN "perform" ELSE "asyncPerform")
  /\ UNCHANGED <<client, io, answer, closing>>

\* asyncPerform: the request waits in the connection for connect().
AsyncPerform(u) ==
  /\ th[u].pc = "asyncPerform"
  /\ conn' = [conn EXCEPT ![th[u].conn].waiting = Append(@, th[u].req)]
  /\ Goto(u, "connect")
  /\ UNCHANGED <<client, io, answer, closing>>

\* Connection::connect hands a new socket to the transport ...
Connect(u) ==
  LET c == th[u].conn IN
  /\ th[u].pc = "connect"
  /\ conn' = [conn EXCEPT ![c].status = "Connecting", ![c].connect = "pending"]
  /\ io' = [io EXCEPT ![conn[c].transport].connects = Append(@, c)]
  /\ Goto(u, "then")
  /\ UNCHANGED <<client, answer, closing>>

\* ... and attaches what is to follow; if the connection stands by now, that
\* runs here, on the user's thread.
Then(u) ==
  LET c == th[u].conn IN
  /\ th[u].pc = "then"
  /\ IF conn[c].connect = "resolved"
       THEN conn' = [conn EXCEPT ![c].status = "Connected"] /\ Goto(u, "connected")
       ELSE conn' = [conn EXCEPT ![c].connect = "attached"] /\ Return(u)
  /\ UNCHANGED <<client, io, answer, closing>>

\* Connection::processRequestQueue serves the requests that wait in it.
ProcessWaiting(x) ==
  LET c == th[x].conn IN
  /\ th[x].pc = "connected"
  /\ conn[c].waiting # <<>>
  /\ conn' = [conn EXCEPT ![c].waiting = Tail(@)]
  /\ th' = [th EXCEPT ![x] = Call([@ EXCEPT !.req = Head(conn[c].waiting)], "connected", "perform")]
  /\ UNCHANGED <<client, io, answer, closing>>

WaitingDone(x) ==
  /\ th[x].pc = "connected"
  /\ conn[th[x].conn].waiting = <<>>
  /\ IF x \in Users THEN Return(x) ELSE Goto(x, "watch")
  /\ UNCHANGED <<conn, client, io, answer, closing>>

-----------------------------------------------------------------------------
\* performImpl: arm the timer of a request with a timeout, set requestEntry ...
PerformImpl(x) ==
  LET c == th[x].conn
      r == th[x].req
  IN
  /\ th[x].pc = "perform"
  /\ conn' = [conn EXCEPT ![c].entry = r,
                          ![c].timer = IF r \in Timed THEN "armed" ELSE @]
  /\ Goto(x, "asyncSend")
  /\ UNCHANGED <<client, io, answer, closing>>

\* ... and asyncSendRequest: at once on the transport's own thread, otherwise
\* through its queue.  A connection without a transport is a null pointer.
AsyncSendRequest(x) ==
  LET c == th[x].conn
      t == conn[c].transport
  IN
  /\ th[x].pc = "asyncSend"
  /\ IF t \in {x, None}
       THEN Goto(x, IF t = None THEN "crashed" ELSE "send") /\ UNCHANGED io
       ELSE /\ io' = [io EXCEPT ![t].sends = Append(@, [conn |-> c, req |-> th[x].req])]
            /\ Return(x)
  /\ UNCHANGED <<conn, client, answer, closing>>

\* asyncSendRequestImpl: the bytes leave.  A request with a timeout goes on to
\* register its timer.
SendOk(t) ==
  LET c == th[t].conn IN
  /\ th[t].pc = "send"
  /\ conn[c].peer # "refused"
  /\ conn' = IF conn[c].peer = "up" THEN [conn EXCEPT ![c].wire = Append(@, th[t].req)]
             ELSE conn
  /\ IF th[t].req \in Timed THEN Goto(t, "register") ELSE Return(t)
  /\ UNCHANGED <<client, io, answer, closing>>

\* The socket is dead: handleError on whatever request the connection serves.
SendFails(t) ==
  LET c == th[t].conn IN
  /\ th[t].pc = "send"
  /\ conn[c].peer \in {"down", "refused"}
  /\ IF conn[c].entry # None
       THEN /\ answer' = [answer EXCEPT ![conn[c].entry] = "error"]
            /\ conn' = [conn EXCEPT ![c] = Settled(@)]
            /\ Goto(t, "release")
       ELSE Return(t) /\ UNCHANGED <<conn, answer>>
  /\ UNCHANGED <<client, io, closing>>

\* timeouts.insert and registerReactor under timeoutsLock
RegisterTimer(t) ==
  /\ th[t].pc = "register"
  /\ ~io[t].timeoutsLock
  /\ conn' = [conn EXCEPT ![th[t].conn].timeouts = TRUE, ![th[t].conn].registered = TRUE]
  /\ Return(t)
  /\ UNCHANGED <<client, io, answer, closing>>

-----------------------------------------------------------------------------
\* Mutant: onDone releases the connection and does not look at the queue.
ReleaseOnly(t) ==
  /\ th[t].pc = "release"
  /\ conn' = [conn EXCEPT ![th[t].conn].state = "Idle"]
  /\ Return(t)
  /\ UNCHANGED <<client, io, answer, closing>>

\* onDone: releaseConnection, then Client::processRequestQueue with its first,
\* unlocked look at stopProcessRequestQueues
Release(t) ==
  /\ th[t].pc = "release"
  /\ conn' = [conn EXCEPT ![th[t].conn].state = "Idle"]
  /\ IF client.stop THEN Return(t) ELSE Goto(t, "lockQueues")
  /\ UNCHANGED <<client, io, answer, closing>>

LockQueues(t) ==
  /\ th[t].pc = "lockQueues"
  /\ client.lock = None
  /\ IF client.stop THEN Return(t) /\ UNCHANGED client
     ELSE /\ client' = [client EXCEPT !.lock = t]
          /\ th' = [th EXCEPT ![t].pc = "pick", ![t].k = 1]
  /\ UNCHANGED <<conn, io, answer, closing>>

\* The picked connection serves the oldest queued request, or is put back.
Dequeue(t) ==
  LET c == th[t].conn IN
  /\ th[t].pc = "dequeue"
  /\ IF client.queue = <<>>
       THEN /\ conn' = [conn EXCEPT ![c].state = "Idle"]
            /\ client' = [client EXCEPT !.lock = None]
            /\ Return(t)
       ELSE /\ client' = [client EXCEPT !.queue = Tail(@)]
            /\ th' = [th EXCEPT ![t] = Call([@ EXCEPT !.req = Head(client.queue)],
                                            "pick", "perform")]
            /\ UNCHANGED conn
  /\ UNCHANGED <<io, answer, closing>>

-----------------------------------------------------------------------------
\* What epoll reports for the sockets, timers and queues of transport t.
Ready(t) ==
  LET mine == {c \in Conns : conn[c].transport = t}
      Flag(kind, p) == IF p THEN {<<kind, None>>} ELSE {}
  IN
  Flag("connects", io[t].connects # <<>>)
    \cup Flag("sends", io[t].sends # <<>>)
    \cup Flag("shutdown", io[t].shutdown = "notified")
    \cup {<<"write", c>> : c \in {d \in mine : conn[d].interest = "write" /\ conn[d].peer # "none"}}
    \cup {<<"read", c>> : c \in {d \in mine : conn[d].interest = "read" /\ conn[d].inbox # <<>>}}
    \cup {<<"timer", c>> : c \in {d \in mine : conn[d].registered /\ conn[d].timer = "expired"}}

\* SyncImpl::runOnce: poll, then handle the batch unless the reactor is shut
\* down or, in onReady, the transport is; shutdown_mutex_ and handlingMutex
\* are held until the batch is done.
Poll(t) ==
  /\ th[t].pc = "poll"
  /\ Ready(t) # {}
  /\ th' = [th EXCEPT ![t].pc = "ready", ![t].batch = Ready(t)]
  /\ UNCHANGED <<conn, client, io, answer, closing>>

\* Mutant: shutdown_ is not looked at again under shutdown_mutex_.
OnReadyUnchecked(t) ==
  /\ th[t].pc = "ready"
  /\ Goto(t, IF io[t].stopHandling THEN "poll" ELSE "dispatch")
  /\ UNCHANGED <<conn, client, io, answer, closing>>


OnReady(t) ==
  /\ th[t].pc = "ready"
  /\ Goto(t, CASE io[t].shutdown # "no" -> "stopped"
               [] io[t].shutdown = "no" /\ io[t].stopHandling -> "poll"
               [] OTHER -> "dispatch")
  /\ UNCHANGED <<conn, client, io, answer, closing>>

BatchDone(t) ==
  /\ th[t].pc = "dispatch"
  /\ th[t].batch = {}
  /\ Goto(t, "poll")
  /\ UNCHANGED <<conn, client, io, answer, closing>>

Handling(t) == th[t].pc \notin {"poll", "ready", "stopped"}

\* The loop over the batch meets an event of this kind on connection c ...
Meets(t, kind, c) == th[t].pc = "dispatch" /\ <<kind, c>> \in th[t].batch

\* ... and goes on at label l, with c its connection.
TakeTo(t, kind, c, l) ==
  th' = [th EXCEPT ![t].batch = @ \ {<<kind, c>>}, ![t].conn = c, ![t].pc = l]

\* The same when l is a call that comes back to label b.
TakeCall(t, kind, c, b, l) ==
  th' = [th EXCEPT ![t] = Call([@ EXCEPT !.batch = th[t].batch \ {<<kind, c>>}, !.conn = c], b, l)]

-----------------------------------------------------------------------------
\* handleConnectionQueue drains connectionsQueue: connect() is started and the
\* socket watched, once, for being writable.
HandleConnectionQueue(t) ==
  /\ Meets(t, "connects", None)
  /\ TakeTo(t, "connects", None, "drainConnects")
  /\ UNCHANGED <<conn, client, io, answer, closing>>

DrainConnect(t) ==
  /\ th[t].pc = "drainConnects"
  /\ io[t].connects # <<>>
  /\ io' = [io EXCEPT ![t].connects = Tail(@)]
  /\ conn' = [conn EXCEPT ![Head(io[t].connects)].interest = "write"]
  /\ UNCHANGED <<client, th, answer, closing>>

\* connect() fails at once: the promise of the connect is rejected, which
\* PrintException only prints.
DrainConnectFails(t) ==
  /\ th[t].pc = "drainConnects"
  /\ io[t].connects # <<>>
  /\ "connect" \in Failures
  /\ io' = [io EXCEPT ![t].connects = Tail(@)]
  /\ UNCHANGED <<conn, client, th, answer, closing>>

ConnectsDrained(t) ==
  /\ th[t].pc = "drainConnects"
  /\ io[t].connects = <<>>
  /\ Goto(t, "dispatch")
  /\ UNCHANGED <<conn, client, io, answer, closing>>

\* handleRequestsQueue drains requestsQueue, one asyncSendRequestImpl each.
HandleRequestsQueue(t) ==
  /\ Meets(t, "sends", None)
  /\ TakeTo(t, "sends", None, "drainSends")
  /\ UNCHANGED <<conn, client, io, answer, closing>>

DrainSend(t) ==
  /\ th[t].pc = "drainSends"
  /\ io[t].sends # <<>>
  /\ io' = [io EXCEPT ![t].sends = Tail(@)]
  /\ LET e == Head(io[t].sends) IN
     th' = [th EXCEPT ![t] = [Call(@, "drainSends", "send") EXCEPT !.conn = e.conn, !.req = e.req]]
  /\ UNCHANGED <<conn, client, answer, closing>>

SendsDrained(t) ==
  /\ th[t].pc = "drainSends"
  /\ io[t].sends = <<>>
  /\ Goto(t, "dispatch")
  /\ UNCHANGED <<conn, client, io, answer, closing>>

\* handleWritableEntry: connect() has finished, with success or without (a
\* refused socket is writable too).  The promise resolves: if Connection::connect
\* has attached its continuation, the connection is connected and serves what
\* waits in it ...
HandleWritable(t, c) ==
  /\ Meets(t, "write", c)
  /\ IF conn[c].connect = "attached"
       THEN /\ conn' = [conn EXCEPT ![c].status = "Connected", ![c].interest = "none"]
            /\ TakeTo(t, "write", c, "connected")
       ELSE /\ conn' = [conn EXCEPT ![c].connect = "resolved", ![c].interest = "none"]
            /\ TakeTo(t, "write", c, "watch")
  /\ UNCHANGED <<client, io, answer, closing>>

\* ... and only then is the socket watched for data.
WatchRead(t) ==
  /\ th[t].pc = "watch"
  /\ conn' = [conn EXCEPT ![th[t].conn].interest = "read"]
  /\ Goto(t, "dispatch")
  /\ UNCHANGED <<client, io, answer, closing>>

-----------------------------------------------------------------------------
\* recv() is called until there is no more: what it reports last is one of S.
Received(d, S) == d.inbox # <<>> /\ d.inbox[Len(d.inbox)] \in S

\* Mutant: the parser is not reset after a response.
HandleIncomingNoReset(t, c) ==
  LET d == conn[c]
      parsed == d.parser \o d.inbox
  IN
  /\ Meets(t, "read", c)
  /\ Received(d, Requests)
  /\ d.entry # None
  /\ answer' = [answer EXCEPT ![d.entry] = Head(parsed)]
  /\ conn' = [conn EXCEPT ![c] = [Settled(d) EXCEPT !.inbox = <<>>, !.parser = parsed]]
  /\ TakeCall(t, "read", c, "dispatch", "release")
  /\ UNCHANGED <<client, io, closing>>

\* handleIncoming reads until EAGAIN: everything that has arrived is one packet
\* for handleResponsePacket.  A finished parse with no request to answer leaves
\* the parser as it is, the response still in it.
HandleIncoming(t, c) ==
  LET d == conn[c]
      parsed == d.parser \o d.inbox
  IN
  /\ Meets(t, "read", c)
  /\ Received(d, Requests)
  /\ IF d.entry # None
       THEN /\ answer' = [answer EXCEPT ![d.entry] = Head(parsed)]
            /\ conn' = [conn EXCEPT ![c] = [Settled(d) EXCEPT !.inbox = <<>>, !.parser = <<>>]]
            /\ TakeCall(t, "read", c, "dispatch", "release")
       ELSE /\ conn' = [conn EXCEPT ![c].inbox = <<>>, ![c].parser = parsed]
            /\ TakeTo(t, "read", c, "dispatch")
            /\ UNCHANGED answer
  /\ UNCHANGED <<client, io, closing>>

\* recv() reports the end of the stream.  Without data before it, it is an
\* error of the request; data read before it is dropped.  The socket leaves
\* `connections' and Connection::close() is called: label "close" has no
\* action, for close() waits for the handlingMutex this thread itself holds.
HandleEof(t, c) ==
  LET d == conn[c]
      fails == Len(d.inbox) = 1 /\ d.entry # None
  IN
  /\ Meets(t, "read", c)
  /\ Received(d, {"eof"})
  /\ conn' = [conn EXCEPT ![c] = [(IF fails THEN Settled(d) ELSE d)
                                    EXCEPT !.inbox = <<>>]]
  /\ IF fails
       THEN /\ answer' = [answer EXCEPT ![d.entry] = "error"]
            /\ TakeCall(t, "read", c, "close", "release")
       ELSE TakeTo(t, "read", c, "close") /\ UNCHANGED answer
  /\ UNCHANGED <<client, io, closing>>

\* Mutant: the failed request stays in requestEntry.
HandleResetKeepsEntry(t, c) ==
  LET d == conn[c] IN
  /\ Meets(t, "read", c)
  /\ Received(d, {"reset"})
  /\ d.entry # None
  /\ answer' = [answer EXCEPT ![d.entry] = "error"]
  /\ conn' = [conn EXCEPT ![c].inbox = <<"eof">>]
  /\ TakeCall(t, "read", c, "dispatch", "release")
  /\ UNCHANGED <<client, io, closing>>

\* recv() fails: the socket is left as it is, and reports its end next.
HandleReset(t, c) ==
  LET d == conn[c] IN
  /\ Meets(t, "read", c)
  /\ Received(d, {"reset"})
  /\ IF d.entry # None
       THEN /\ answer' = [answer EXCEPT ![d.entry] = "error"]
            /\ conn' = [conn EXCEPT ![c] = [Settled(d) EXCEPT !.inbox = <<"eof">>]]
            /\ TakeCall(t, "read", c, "dispatch", "release")
       ELSE /\ conn' = [conn EXCEPT ![c].inbox = <<"eof">>]
            /\ TakeTo(t, "read", c, "dispatch")
            /\ UNCHANGED answer
  /\ UNCHANGED <<client, io, closing>>

\* handleReadableEntry for a timer, with timeoutsLock held: handleTimeout
\* rejects whatever request the connection serves now.  A request without a
\* timeout has a null timer, which handleTimeout dereferences.
HandleTimer(t, c) ==
  LET d == conn[c] IN
  /\ Meets(t, "timer", c)
  /\ ~io[t].timeoutsLock
  /\ IF d.timeouts /\ d.entry \in Timed
       THEN /\ answer' = [answer EXCEPT ![d.entry] = "timeout"]
            /\ conn' = [conn EXCEPT ![c] = Settled(d)]
            /\ io' = [io EXCEPT ![t].timeoutsLock = TRUE]
            /\ TakeCall(t, "timer", c, "timeoutDone", "release")
       ELSE /\ TakeTo(t, "timer", c, IF d.timeouts /\ d.entry # None THEN "crashed" ELSE "dispatch")
            /\ conn' = [conn EXCEPT ![c].timeouts = FALSE]
            /\ UNCHANGED <<io, answer>>
  /\ UNCHANGED <<client, closing>>

\* timeouts.erase, and timeoutsLock is released
TimeoutDone(t) ==
  /\ th[t].pc = "timeoutDone"
  /\ conn' = [conn EXCEPT ![th[t].conn].timeouts = FALSE]
  /\ io' = [io EXCEPT ![t].timeoutsLock = FALSE]
  /\ Goto(t, "dispatch")
  /\ UNCHANGED <<client, answer, closing>>

-----------------------------------------------------------------------------
\* The other end of the sockets, and the clock.
Accept(c) ==
  /\ conn[c].interest = "write"
  /\ conn[c].peer = "none"
  /\ conn' = [conn EXCEPT ![c].peer = "up"]
  /\ UNCHANGED <<client, io, th, answer, closing>>

Refuse(c) ==
  /\ "refuse" \in Failures
  /\ conn[c].interest = "write"
  /\ conn[c].peer = "none"
  /\ conn' = [conn EXCEPT ![c].peer = "refused"]
  /\ UNCHANGED <<client, io, th, answer, closing>>

\* The server answers the requests of a connection in their order.
Respond(c) ==
  /\ conn[c].peer = "up"
  /\ conn[c].wire # <<>>
  /\ conn' = [conn EXCEPT ![c].wire = Tail(@), ![c].inbox = Append(@, Head(conn[c].wire))]
  /\ UNCHANGED <<client, io, th, answer, closing>>

\* It closes or resets the connection, whatever it was doing.
Hangup(c, how, mark) ==
  /\ how \in Failures
  /\ conn[c].peer = "up"
  /\ conn' = [conn EXCEPT ![c].peer = "down", ![c].wire = <<>>, ![c].inbox = Append(@, mark)]
  /\ UNCHANGED <<client, io, th, answer, closing>>

TimerExpires(c) ==
  /\ conn[c].timer = "armed"
  /\ conn' = [conn EXCEPT ![c].timer = "expired"]
  /\ UNCHANGED <<client, io, th, answer, closing>>

-----------------------------------------------------------------------------
\* Client::shutdown(): each worker of the reactor in turn has shutdown_ set ...
ReactorShutdown(t) ==
  /\ MayShutdown
  /\ closing = "no"
  /\ io[t].shutdown = "no"
  /\ \A u \in Transports : io[u].shutdown # "set"
  /\ io' = [io EXCEPT ![t].shutdown = "set"]
  /\ UNCHANGED <<conn, client, th, answer, closing>>

\* ... and is notified under shutdown_mutex_, that is, between two batches;
ReactorNotify(t) ==
  /\ io[t].shutdown = "set"
  /\ ~Handling(t)
  /\ io' = [io EXCEPT ![t].shutdown = "notified"]
  /\ closing' = IF \A u \in Transports \ {t} : io[u].shutdown = "notified" THEN "stop" ELSE closing
  /\ UNCHANGED <<conn, client, th, answer>>

\* then stopProcessRequestQueues is set under queuesLock,
StopQueues ==
  /\ closing = "stop"
  /\ client.lock = None
  /\ client' = [client EXCEPT !.stop = TRUE]
  /\ closing' = "pool"
  /\ UNCHANGED <<conn, io, th, answer>>

\* and the pool closes every connection that is connected, each under the
\* handlingMutex of its transport.
PoolClose(c) ==
  LET t == conn[c].transport IN
  /\ closing = "pool"
  /\ conn[c].status = "Connected"
  /\ ~Handling(t)
  /\ conn' = [conn EXCEPT ![c].status = "NotConnected", ![c].interest = "none"]
  /\ io' = [io EXCEPT ![t].stopHandling = TRUE]
  /\ UNCHANGED <<client, th, answer, closing>>

ShutdownDone ==
  /\ closing = "pool"
  /\ \A c \in Conns : conn[c].status # "Connected"
  /\ closing' = "done"
  /\ UNCHANGED <<conn, client, io, th, answer>>

-----------------------------------------------------------------------------
UserStep(u) ==
  \/ TryUse(u)
  \/ PickNone(u)
  \/ Enqueue(u)
  \/ Associate(u)
  \/ AsyncPerform(u)
  \/ Connect(u)
  \/ Then(u)
  \/ ProcessWaiting(u)
  \/ WaitingDone(u)
  \/ PerformImpl(u)
  \/ AsyncSendRequest(u)

TransportStep(t) ==
  \/ Poll(t)
  \/ OnReady(t)
  \/ BatchDone(t)
  \/ HandleConnectionQueue(t)
  \/ DrainConnect(t)
  \/ DrainConnectFails(t)
  \/ ConnectsDrained(t)
  \/ HandleRequestsQueue(t)
  \/ DrainSend(t)
  \/ SendsDrained(t)
  \/ \E c \in Conns : \/ HandleWritable(t, c)
                      \/ HandleIncoming(t, c)
                      \/ HandleEof(t, c)
                      \/ HandleReset(t, c)
                      \/ HandleTimer(t, c)
  \/ ProcessWaiting(t)
  \/ WaitingDone(t)
  \/ WatchRead(t)
  \/ TimeoutDone(t)
  \/ PerformImpl(t)
  \/ AsyncSendRequest(t)
  \/ SendOk(t)
  \/ SendFails(t)
  \/ RegisterTimer(t)
  \/ Release(t)
  \/ LockQueues(t)
  \/ TryUse(t)
  \/ PickNone(t)
  \/ Dequeue(t)

Server(c) == Accept(c) \/ Respond(c)

Shutdown ==
  \/ \E t \in Transports : ReactorNotify(t)
  \/ StopQueues
  \/ \E c \in Conns : PoolClose(c)
  \/ ShutdownDone

Next ==
  \/ \E u \in Users : UserStep(u) \/ \E r \in Requests : DoRequest(u, r)
  \/ \E t \in Transports : TransportStep(t) \/ ReactorShutdown(t)
  \/ \E c \in Conns : \/ Server(c)
                      \/ Refuse(c)
                      \/ Hangup(c, "close", "eof")
                      \/ Hangup(c, "reset", "reset")
                      \/ TimerExpires(c)
  \/ Shutdown

\* Every thread that can run does, the server answers, timers go off.  Nobody
\* is obliged to issue a request, to call shutdown() or to break a connection.
Fairness ==
  /\ \A u \in Users : WF_vars(UserStep(u))
  /\ \A t \in Transports : WF_vars(TransportStep(t))
  /\ \A c \in Conns : WF_vars(Server(c)) /\ WF_vars(TimerExpires(c))
  /\ WF_vars(Shutdown)

Spec == Init /\ [][Next]_vars

FairSpec == Spec /\ Fairness

-----------------------------------------------------------------------------
Answered(r) == answer[r] \notin {"new", "pending"}

\* The requests a connection is in charge of: in requestEntry, in its own queue,
\* or in the hands of a thread that has taken the connection for it.
Carried(c) ==
  ({conn[c].entry} \ {None})
    \cup {conn[c].waiting[i] : i \in 1 .. Len(conn[c].waiting)}
    \cup {th[x].req : x \in {y \in Threads : /\ th[y].conn = c
                                             /\ th[y].pc \in {"got", "asyncPerform", "perform"}}}

UserLabels == {"idle", "pick", "got", "enqueue", "asyncPerform", "connect", "then",
               "connected", "perform", "asyncSend"}

TransportLabels ==
  {"poll", "ready", "stopped", "dispatch", "drainConnects", "drainSends", "connected", "watch",
   "perform", "asyncSend", "send", "register", "release", "lockQueues", "pick", "dequeue",
   "timeoutDone", "close", "crashed"}

\* The type of the variables; requestsQueues[host] never outgrows its ring.
TypeOK ==
  /\ conn \in [Conns ->
       [state : {"Idle", "Used"}, status : {"NotConnected", "Connecting", "Connected"},
        transport : Transports \cup {None}, waiting : Seq(Requests),
        entry : Requests \cup {None}, timer : {"off", "armed", "expired"},
        registered : BOOLEAN, timeouts : BOOLEAN,
        connect : {"none", "pending", "attached", "resolved"},
        interest : {"none", "write", "read"}, parser : Seq(Requests),
        peer : {"none", "up", "refused", "down"}, wire : Seq(Requests),
        inbox : Seq(Requests \cup {"eof", "reset"})]]
  /\ client \in [queue : Seq(Requests), lock : Transports \cup {None}, stop : BOOLEAN]
  /\ Len(client.queue) <= QueueSize
  /\ io \in [Transports ->
       [connects : Seq(Conns), sends : Seq([conn : Conns, req : Requests]),
        timeoutsLock : BOOLEAN, stopHandling : BOOLEAN,
        shutdown : {"no", "set", "notified"}]]
  /\ \A x \in Threads :
       /\ th[x].pc \in IF x \in Users THEN UserLabels ELSE TransportLabels
       /\ th[x].conn \in Conns \cup {None}
       /\ th[x].req \in Requests \cup {None}
  /\ answer \in [Requests ->
       {"new", "pending", "full", "error", "timeout"} \cup Requests]
  /\ closing \in {"no", "stop", "pool", "done"}

\* tryUse() and the releases of onDone keep a connection to one request at a
\* time: HTTP/1.1 answers carry no name, so a second one would get the wrong
\* response.  An idle connection is in charge of none.
ConnectionsExclusive ==
  \A c \in Conns :
    /\ Cardinality(Carried(c)) <= 1
    /\ conn[c].state = "Idle" => Carried(c) = {}

\* A request's promise is settled once, whichever of the response, the error
\* and the timeout comes first.
AnsweredOnce ==
  [][\A r \in Requests : Answered(r) => answer'[r] = answer[r]]_vars

\* A request that gets a response gets its own (handleResponsePacket hands what
\* it has parsed to the request of the moment).
OwnResponse == \A r \in Requests : answer[r] \in Requests => answer[r] = r

\* As long as no request has timed out every response is its request's own,
\* however connections fail: after a timeout the connection is used again and
\* the late response answers the next request.
OwnUntilTimeout == (\A r \in Requests : answer[r] # "timeout") => OwnResponse

\* The connection that processRequestQueue picks for a queued request has a
\* transport to send it through.
ServedReady ==
  \A t \in Transports : th[t].pc = "perform" => conn[th[t].conn].transport # None

\* Once the pool closes sockets, no reactor thread is inside a handler that
\* could use one (Client::shutdown waits for the batch, runOnce looks again).
NoHandlingAfterShutdown ==
  closing \in {"pool", "done"} => \A t \in Transports : ~Handling(t)

\* What every state of the client keeps: its types, and no handler at work on
\* a socket that shutdown() closes.
ClientSound == TypeOK /\ NoHandlingAfterShutdown

\* A request that waits in requestsQueues while a connection works is served:
\* every onDone takes the queue up again.
QueueServed ==
  \A r \in Requests :
    ((\E i \in 1 .. Len(client.queue) : client.queue[i] = r)
       /\ \E c \in Conns : conn[c].entry # None)
      ~> (Answered(r) \/ \E t \in Transports : io[t].shutdown # "no")

\* Client::shutdown() returns, whatever the reactor threads are doing.
ShutdownCompletes == (\E t \in Transports : io[t].shutdown # "no") ~> (closing = "done")

\* Every request that was sent by doRequest() gets an answer.
EveryRequestAnswered == \A r \in Requests : (answer[r] = "pending") ~> Answered(r)

\* A request with a timeout that a connection has taken on is answered, by the
\* timeout if by nothing else.
TimeoutAnswers ==
  \A c \in Conns : \A r \in Timed : (conn[c].entry = r) ~> Answered(r)

\* Connection::close() gets the handlingMutex it waits for.
CloseReturns == \A t \in Transports : (th[t].pc = "close") ~> (th[t].pc # "close")
=============================================================================
