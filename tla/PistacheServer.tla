--------------------------- MODULE PistacheServer ---------------------------
(***************************************************************************)
(* The life of a Pistache server: Endpoint (src/server/endpoint.cc), its   *)
(* Listener (src/server/listener.cc) and the reactor's worker threads      *)
(* (AsyncImpl and SyncImpl of src/common/reactor.cc), from bind() to the   *)
(* end of the destructor.                                                  *)
(*                                                                         *)
(* serve() runs Listener::run on the caller's thread, serveThreaded() on   *)
(* one of its own.  shutdown() may be called by any thread while the       *)
(* endpoint lives; the destructor calls it, too, joins the thread that     *)
(* accepts, takes the handlers from the workers and joins these.  What a   *)
(* worker does with a connection is ServerTransport's; here a connection   *)
(* is opened by its worker and closed with the worker's transport.         *)
(***************************************************************************)
EXTENDS Naturals, FiniteSets

CONSTANTS
    Workers,            \* the threads of AsyncImpl
    Conns,              \* connections that clients make
    Stoppers,           \* threads that call Endpoint::shutdown()
    Blocking,           \* whether serve() is used: a set of Booleans
    Inside,             \* whether a request handler calls shutdown()
    Early               \* whether stoppers may come before run() can be told

\* Threads are told apart from each other and from the labels below.
WorkersAssumption ==
    /\ IsFiniteSet(Workers) /\ Workers # {}
    /\ Workers \cap {"owner", "free", "nowhere", "idle", "notify", "workers", "done"} = {}
    /\ "owner" \notin Stoppers
KindsAssumption == Blocking \subseteq BOOLEAN /\ Inside \in BOOLEAN /\ Early \in BOOLEAN

VARIABLES
    blocking,           \* serve(), not serveThreaded()
    main,               \* the thread that owns the endpoint
    run,                \* where Listener::run is
    reactor,            \* reactor_ is set
    bound,              \* shutdownFd of the listener is bound
    told,               \* and was notified
    conn,               \* where each connection is
    at,                 \* the worker whose transport it was given
    worker,             \* where each worker's thread is
    flag,               \* shutdown_ of each SyncImpl
    note,               \* its shutdownFd was notified
    lockR,              \* reg_unreg_mutex_ of its poller: who holds it
    lockS,              \* its shutdown_mutex_
    handlers,           \* its handlers_
    failed,             \* its poll has failed
    stop,               \* each caller of shutdown(): where it is
    left                \* and the workers it has yet to tell

owner == <<blocking, main>>
listener == <<run, reactor, bound, told>>
clients == <<conn, at>>
thread == <<worker, lockR, lockS, handlers, failed>>
signal == <<flag, note>>
callers == <<stop, left>>
vars == <<owner, listener, clients, thread, signal, callers>>

Owner == "owner"
Free == "free"
Nowhere == "nowhere"
Callers == Stoppers \cup {Owner} \cup Workers

Init ==
    /\ blocking \in Blocking /\ main = "made" /\ run = "no" /\ reactor = FALSE /\ bound = FALSE /\ told = FALSE
    /\ conn = [c \in Conns |-> "out"] /\ at = [c \in Conns |-> Nowhere]
    /\ worker = [w \in Workers |-> "none"] /\ flag = [w \in Workers |-> FALSE] /\ note = [w \in Workers |-> FALSE]
    /\ lockR = [w \in Workers |-> Free] /\ lockS = [w \in Workers |-> Free]
    /\ handlers = [w \in Workers |-> "there"] /\ failed = [w \in Workers |-> FALSE]
    /\ stop = [t \in Callers |-> "idle"] /\ left = [t \in Callers |-> {}]

-----------------------------------------------------------------------------
(* The owner: serve() or serveThreaded(), later the destructor *)

Go(s) == main' = s /\ UNCHANGED blocking

\* Listener::bind: the socket listens, and the reactor has its handlers.
Bind ==
    /\ main = "made" /\ Go("bound") /\ reactor' = TRUE
    /\ UNCHANGED <<run, bound, told, clients, thread, signal, callers>>

\* run() on this thread, or runThreaded(), which binds shutdownFd first.
Serve ==
    /\ main = "bound" /\ Go(IF blocking THEN "serving" ELSE "free") /\ run' = "bind"
    /\ bound' = ~blocking
    /\ UNCHANGED <<reactor, told, clients, thread, signal, callers>>

\* The endpoint is destroyed when run() has returned, or any time when it has
\* a thread of its own; nobody else uses the endpoint any more.
Destroy ==
    /\ main = (IF blocking THEN "serving" ELSE "free") /\ (blocking => run = "returned")
    /\ \A t \in Stoppers : stop[t] \in {"idle", "done"}
    /\ Go("ending") /\ stop' = [stop EXCEPT ![Owner] = "notify"]
    /\ UNCHANGED <<listener, clients, thread, signal, left>>

\* ~Listener: the shutdown of ~Endpoint is done, and so is run().
Joined ==
    /\ main = "ending" /\ stop[Owner] = "done" /\ run = "returned" /\ Go("detach")
    /\ UNCHANGED <<listener, clients, thread, signal, callers>>

\* mutant: the handlers are taken without the mutex.
DetachUnlocked(w) ==
    /\ main = "detach" /\ handlers[w] = "there"
    /\ handlers' = [handlers EXCEPT ![w] = "emptied"] /\ lockR' = lockR
    /\ UNCHANGED <<owner, listener, clients, worker, lockS, failed, signal, callers>>

\* detachAndRemoveAllHandlers: no handler is registered any more (index_ = 0),
Detach(w) ==
    /\ main = "detach" /\ handlers[w] = "there" /\ lockR[w] = Free
    /\ handlers' = [handlers EXCEPT ![w] = "emptied"] /\ lockR' = [lockR EXCEPT ![w] = Owner]
    /\ UNCHANGED <<owner, listener, clients, worker, lockS, failed, signal, callers>>

\* and then none is left: the transport is deleted, with its connections and
\* those that wait in its queue.
Remove(w) ==
    /\ main = "detach" /\ handlers[w] = "emptied"
    /\ handlers' = [handlers EXCEPT ![w] = "gone"] /\ lockR' = [lockR EXCEPT ![w] = Free]
    /\ conn' = [c \in Conns |-> IF at[c] = w THEN "closed" ELSE conn[c]]
    /\ UNCHANGED <<owner, listener, at, worker, lockS, failed, signal, callers>>

\* ~AsyncImpl joins every worker; connections never accepted are refused.
Destroyed ==
    /\ main = "detach" /\ \A w \in Workers : handlers[w] = "gone" /\ worker[w] = "exited"
    /\ Go("gone") /\ conn' = [c \in Conns |-> "closed"]
    /\ UNCHANGED <<listener, at, thread, signal, callers>>

-----------------------------------------------------------------------------
(* Listener::run *)

RunBind ==
    /\ run = "bind" /\ run' = "workers" /\ bound' = TRUE
    /\ UNCHANGED <<owner, reactor, told, clients, thread, signal, callers>>

RunWorkers ==
    /\ run = "workers" /\ run' = "poll" /\ worker' = [w \in Workers |-> "spawned"]
    /\ UNCHANGED <<owner, reactor, bound, told, clients, lockR, lockS, handlers, failed, signal, callers>>

\* A connection is accepted and given to a worker, by its descriptor.
Accept(c, w) ==
    /\ run = "poll" /\ conn[c] = "backlog"
    /\ conn' = [conn EXCEPT ![c] = "queued"] /\ at' = [at EXCEPT ![c] = w]
    /\ UNCHANGED <<owner, listener, thread, signal, callers>>

\* Its TLS handshake fails, or the client left before it was accepted, which
\* is a SocketError that run() logs.
AcceptFails(c) ==
    /\ run = "poll" /\ conn[c] = "backlog" /\ conn' = [conn EXCEPT ![c] = "closed"]
    /\ UNCHANGED <<owner, listener, at, thread, signal, callers>>

RunReturns ==
    /\ run = "poll" /\ told /\ run' = "returned"
    /\ UNCHANGED <<owner, reactor, bound, told, clients, thread, signal, callers>>

-----------------------------------------------------------------------------
(* Listener::shutdown, by any caller *)

\* A stopper begins, a request handler begins, or the destructor.
StopBegins(t) ==
    /\ stop[t] = "idle" /\ stop' = [stop EXCEPT ![t] = "notify"]
    /\ \/ t \in Stoppers /\ main \in {"made", "bound", "serving", "free"} /\ (Early \/ bound)
       \/ t \in Workers /\ Inside /\ worker[t] = "handle"
    /\ UNCHANGED <<owner, listener, clients, thread, signal, left>>

\* The listener is told when it can be, and the workers are next.
StopNotify(t) ==
    /\ stop[t] = "notify" /\ stop' = [stop EXCEPT ![t] = IF reactor THEN "workers" ELSE "done"]
    /\ told' = (told \/ bound) /\ left' = [left EXCEPT ![t] = Workers]
    /\ UNCHANGED <<owner, run, reactor, bound, clients, thread, signal>>

\* SyncImpl::shutdown of one worker: the flag,
StopStore(t, w) ==
    /\ stop[t] = "workers" /\ w \in left[t] /\ left' = [left EXCEPT ![t] = @ \ {w}]
    /\ flag' = [flag EXCEPT ![w] = TRUE] /\ stop' = [stop EXCEPT ![t] = w]
    /\ UNCHANGED <<owner, listener, clients, thread, note>>

\* mutant: nobody is woken.
StopWorkerQuiet(t, w) ==
    /\ stop[t] = w /\ lockS[w] = Free /\ stop' = [stop EXCEPT ![t] = "workers"]
    /\ UNCHANGED <<owner, listener, clients, thread, signal, left>>

\* and, once no batch is being handled, the notification.
StopWorker(t, w) ==
    /\ stop[t] = w /\ lockS[w] = Free /\ stop' = [stop EXCEPT ![t] = "workers"]
    /\ note' = [note EXCEPT ![w] = TRUE]
    /\ UNCHANGED <<owner, listener, clients, thread, flag, left>>

StopEnds(t) ==
    /\ stop[t] = "workers" /\ left[t] = {} /\ stop' = [stop EXCEPT ![t] = "done"]
    /\ UNCHANGED <<owner, listener, clients, thread, signal, left>>

-----------------------------------------------------------------------------
(* A worker: SyncImpl::run *)

Step(w, s) == worker' = [worker EXCEPT ![w] = s]

\* The handlers are told the thread's id, without the mutex: the number of
\* handlers is read,
WorkerStarts(w) ==
    /\ worker[w] = "spawned" /\ Step(w, IF handlers[w] = "there" THEN "each" ELSE "loop")
    /\ UNCHANGED <<owner, listener, clients, lockR, lockS, handlers, failed, signal, callers>>

\* and then the handler, which may be gone.
WorkerIds(w) ==
    /\ worker[w] = "each" /\ Step(w, IF handlers[w] = "gone" THEN "null" ELSE "loop")
    /\ UNCHANGED <<owner, listener, clients, lockR, lockS, handlers, failed, signal, callers>>

\* while (!shutdown_), and runOnce, which throws when there is no handler.
WorkerLoops(w) ==
    /\ worker[w] = "loop"
    /\ Step(w, IF flag[w] THEN "exited" ELSE IF handlers[w] = "there" THEN "lock" ELSE "threw")
    /\ UNCHANGED <<owner, listener, clients, lockR, lockS, handlers, failed, signal, callers>>

WorkerLocks(w) ==
    /\ worker[w] = "lock" /\ lockR[w] = Free /\ lockR' = [lockR EXCEPT ![w] = w] /\ Step(w, "poll")
    /\ UNCHANGED <<owner, listener, clients, lockS, handlers, failed, signal, callers>>

\* The poll returns with events.
Waiting(w) == \E c \in Conns : conn[c] = "queued" /\ at[c] = w

WorkerPolls(w) ==
    /\ worker[w] = "poll" /\ (note[w] \/ Waiting(w))
    /\ note' = [note EXCEPT ![w] = FALSE]
    /\ IF flag[w] THEN Step(w, "loop") /\ lockR' = [lockR EXCEPT ![w] = Free]
       ELSE Step(w, "polled") /\ UNCHANGED lockR
    /\ UNCHANGED <<owner, listener, clients, lockS, handlers, failed, flag, callers>>

\* It fails (once at most here): the next iteration.
PollFails(w) ==
    /\ worker[w] = "poll" /\ ~failed[w] /\ failed' = [failed EXCEPT ![w] = TRUE]
    /\ Step(w, "lock") /\ lockR' = [lockR EXCEPT ![w] = Free]
    /\ UNCHANGED <<owner, listener, clients, lockS, handlers, signal, callers>>

\* shutdown_ is tested again under shutdown_mutex_.
WorkerTests(w) ==
    /\ worker[w] = "polled" /\ lockS[w] = Free
    /\ IF flag[w] THEN Step(w, "loop") /\ lockR' = [lockR EXCEPT ![w] = Free] /\ UNCHANGED lockS
       ELSE Step(w, "handle") /\ lockS' = [lockS EXCEPT ![w] = w] /\ UNCHANGED lockR
    /\ UNCHANGED <<owner, listener, clients, handlers, failed, signal, callers>>

\* handleFds: the transport takes the connections that wait.
WorkerHandles(w) ==
    /\ worker[w] = "handle" /\ stop[w] \in {"idle", "done"} /\ Step(w, "lock")
    /\ lockR' = [lockR EXCEPT ![w] = Free] /\ lockS' = [lockS EXCEPT ![w] = Free]
    /\ conn' = [c \in Conns |-> IF conn[c] = "queued" /\ at[c] = w THEN "open" ELSE conn[c]]
    /\ UNCHANGED <<owner, listener, at, handlers, failed, signal, callers>>

-----------------------------------------------------------------------------
(* Clients *)

Connect(c) ==
    /\ conn[c] = "out" /\ main \in {"bound", "serving", "free"} /\ conn' = [conn EXCEPT ![c] = "backlog"]
    /\ UNCHANGED <<owner, listener, at, thread, signal, callers>>

-----------------------------------------------------------------------------

Running == RunBind \/ RunWorkers \/ RunReturns \/ \E c \in Conns : AcceptFails(c) \/ \E w \in Workers : Accept(c, w)
Owning == Bind \/ Serve \/ Joined \/ Destroyed \/ \E w \in Workers : Detach(w) \/ Remove(w)
Stopping(t) == StopNotify(t) \/ StopEnds(t) \/ \E w \in Workers : StopStore(t, w) \/ StopWorker(t, w)
Working(w) == \/ WorkerStarts(w) \/ WorkerIds(w) \/ WorkerLoops(w) \/ WorkerLocks(w)
              \/ WorkerPolls(w) \/ WorkerTests(w) \/ WorkerHandles(w)

Progress ==
    \/ Owning \/ Running
    \/ \E t \in Callers : Stopping(t)
    \/ \E w \in Workers : Working(w)

Next ==
    \/ Progress \/ Destroy
    \/ \E t \in Callers : StopBegins(t)
    \/ \E w \in Workers : PollFails(w)
    \/ \E c \in Conns : Connect(c)

\* Some thread that can go on does: every thread has finitely many steps to
\* take, so none is starved.  Nobody has to call shutdown() or the destructor.
Fairness == WF_vars(Progress)

Spec == Init /\ [][Next]_vars
FairSpec == Spec /\ Fairness

-----------------------------------------------------------------------------
(* Properties *)

Crashed == \E w \in Workers : worker[w] = "null"

\* Types.
TypeOK ==
    /\ main \in {"made", "bound", "serving", "free", "ending", "detach", "gone"}
    /\ run \in {"no", "bind", "workers", "poll", "returned"} /\ {reactor, bound, told} \subseteq BOOLEAN
    /\ \A c \in Conns : conn[c] \in {"out", "backlog", "queued", "open", "closed"}
    /\ \A w \in Workers : worker[w] \in {"none", "spawned", "each", "loop", "lock", "poll", "polled", "handle",
                                         "exited", "null", "threw"}

\* A worker that handles events, or is about to, has its handlers: the
\* destructor takes none away in the middle of a batch.
HandlersKept ==
    \A w \in Workers : worker[w] \in {"polled", "handle"} => handlers[w] = "there"

\* No worker finds itself without handlers when it begins to poll.
NeverThrows == \A w \in Workers : worker[w] # "threw"

\* When the destructor has returned no thread is left, and no connection is
\* open, wherever it was when the server was stopped.
NothingLeft ==
    main = "gone" => run = "returned" /\ \A c \in Conns : conn[c] = "closed"

\* A server's threads, handlers and connections end in order.
LifeSound == TypeOK /\ HandlersKept /\ NeverThrows /\ NothingLeft

Stopped == \E t \in Stoppers \cup {Owner} : stop[t] = "done" \* some shutdown() returned

\* What the server owes: run() to return and the destructor to end when it was
\* asked to stop, and a connection that was accepted to be opened, unless its
\* worker is stopped.
Owed ==
    \/ Stopped /\ run # "returned"
    \/ main \in {"ending", "detach"}
    \/ \E c \in Conns : conn[c] = "queued" /\ ~flag[at[c]]

\* Everything owed is done in the end: no shutdown() is lost, whoever calls it
\* and whenever, the destructor finds no thread that never ends, and no
\* connection is forgotten in a worker's queue.
ServerServes == []<>(~Owed \/ Crashed)

-----------------------------------------------------------------------------
(* What the code does not keep *)

\* The comment in SyncImpl::run says the mutex is held there, so that no
\* handler can go away.
HandlerThere == ~Crashed
=============================================================================
