----------------------------- MODULE CrowServer -----------------------------
(***************************************************************************)
(* Crow's HTTP server (crow_all.h): the accepting thread, one worker per   *)
(* io_service, the connections and the task_timer of each worker.          *)
(*                                                                         *)
(* A Connection is a raw pointer that deletes itself when it believes that *)
(* it neither reads nor writes.  A worker runs one handler at a time, from *)
(* the FIFO of its io_service; closing a socket puts the handlers of its   *)
(* pending operations there, with an error.  The parser is abstracted to   *)
(* whole requests and pieces of requests, a response to the number of the  *)
(* request it was made for.                                                *)
(***************************************************************************)
EXTENDS Naturals, Sequences, FiniteSets

CONSTANTS
  Conns,        \* connections ever accepted
  NWorkers,     \* io_services with a thread of their own (concurrency - 1)
  Kinds,        \* requests the clients send
  MaxReads,     \* reads that bring data, on all connections
  Piped,        \* whether a client may send a request before the last is answered
  Elsewhere,    \* whether responses may be completed on threads that are no workers
  Garbage,      \* values an uninitialized task_id_ may have
  None

Workers == 0 .. NWorkers - 1

\* How a request is answered: by its handler before it returns, or by somebody later, by a
\* middleware, with 400 for the missing host, or by an upgrade.
Hows == {"now", "later", "middleware", "invalid", "upgrade"}

\* long: the response is a file, or at least stream_threshold long; expect: 100-continue is
\* asked for, and waited for or not.
AllKinds == [how : Hows, close : BOOLEAN, long : BOOLEAN, expect : {"no", "wait", "hurry"}]

CrowAssumption ==
  /\ NWorkers \in Nat \ {0}
  /\ MaxReads \in Nat
  /\ Kinds \subseteq AllKinds
  /\ Piped \in BOOLEAN /\ Elsewhere \in BOOLEAN
  /\ Garbage \subseteq Nat
  /\ IsFiniteSet(Conns) /\ None \notin Conns /\ None \notin Kinds

VARIABLES
  conn,         \* the connections, with their sockets and the asynchronous operations on them
  timer,        \* the task_timer of each worker
  queue,        \* the handlers each io_service will run
  load,         \* task_queue_length_pool_
  accepting     \* the connection the acceptor waits with

vars == <<conn, timer, queue, load, accepting>>

Unborn ==
  [life |-> "none", svc |-> 0, open |-> FALSE, reads |-> 0, asked |-> 0, part |-> None,
   is_reading |-> FALSE, is_writing |-> FALSE, need_after |-> FALSE, need_read |-> FALSE,
   close |-> FALSE, task_id |-> 0, completed |-> FALSE, hook |-> FALSE, body |-> 0, long |-> FALSE,
   reading |-> FALSE, writes |-> 0, at |-> "idle", users |-> {}, sent |-> <<>>, lost |-> FALSE]

Init ==
  /\ conn = [c \in Conns |-> Unborn]
  /\ timer = [w \in Workers |-> [tasks |-> {}, highest |-> 0, robbed |-> {}]]
  /\ queue = [w \in Workers |-> <<>>]
  /\ load = [w \in Workers |-> 0]
  /\ accepting = None

-----------------------------------------------------------------------------
\* What a handler of connection c works on: the connection, its timer, its io_service, its counter.
World(c) == LET w == conn[c].svc
            IN  [c |-> c, k |-> conn[c], t |-> timer[w], q |-> queue[w], n |-> load[w]]

Becomes(s) == LET w == s.k.svc
              IN  /\ conn' = [conn EXCEPT ![s.c] = s.k]
                  /\ timer' = [timer EXCEPT ![w] = s.t]
                  /\ queue' = [queue EXCEPT ![w] = s.q]
                  /\ load' = [load EXCEPT ![w] = s.n]

Job(op, c, what, req) == [op |-> op, c |-> c, what |-> what, req |-> req]

\* Erases whatever task has the id: robbed are the connections whose deadline somebody else erased.
Cancel(s) ==
  LET gone == {x \in s.t.tasks : x.id = s.k.task_id}
  IN  [s EXCEPT !.t.tasks = @ \ gone, !.t.robbed = @ \cup ({x.owner : x \in gone} \ {s.c})]

StartDeadline(s) ==
  LET r == Cancel(s)
      id == r.t.highest + 1
  IN  [r EXCEPT !.t.tasks = @ \cup {[id |-> id, owner |-> s.c]}, !.t.highest = id,
                !.t.robbed = @ \ {s.c}, !.k.task_id = id]

\* Starts a read; on a closed socket its handler is queued at once.
DoRead(s) ==
  IF s.k.open THEN [s EXCEPT !.k.is_reading = TRUE, !.k.reading = TRUE]
              ELSE [s EXCEPT !.k.is_reading = TRUE, !.q = Append(@, Job("read", s.c, "error", None))]

DoWrite(s) ==
  IF s.k.open THEN [s EXCEPT !.k.is_writing = TRUE, !.k.writes = @ + 1]
              ELSE [s EXCEPT !.k.is_writing = TRUE, !.q = Append(@, Job("write", s.c, "error", None))]

\* Closing the socket queues the handlers of the operations that wait on it.
Ended(s) == (IF s.k.reading THEN <<Job("read", s.c, "error", None)>> ELSE <<>>)
              \o [i \in 1 .. s.k.writes |-> Job("write", s.c, "error", None)]

CloseSocket(s) == [s EXCEPT !.k.open = FALSE, !.k.reading = FALSE, !.k.writes = 0, !.q = @ \o Ended(s)]

\* A bug: a deleted connection is not counted down.
DeleteUncounted(s) ==
  [Cancel(s) EXCEPT !.k = [Unborn EXCEPT !.life = "deleted", !.svc = s.k.svc]]

\* delete this: the destructor cancels the deadline once more.
Delete(s) ==
  [Cancel(s) EXCEPT !.k = [Unborn EXCEPT !.life = "deleted", !.svc = s.k.svc, !.reads = s.k.reads,
                             !.reading = s.k.reading, !.writes = s.k.writes, !.users = s.k.users,
                             !.sent = s.k.sent],
                    !.n = @ - 1]
\* A bug: a connection that still writes is deleted.
CheckDestroyReads(s) == IF ~s.k.is_reading THEN Delete(s) ELSE s

CheckDestroy(s) == IF ~s.k.is_reading /\ ~s.k.is_writing THEN Delete(s) ELSE s

\* A bug: the response stays complete.
ClearBody(s) == [s EXCEPT !.k.body = 0, !.k.long = FALSE]

\* response::clear: the next request finds the response as new.
Clear(s) == [s EXCEPT !.k.completed = FALSE, !.k.body = 0, !.k.long = FALSE]

-----------------------------------------------------------------------------
\* Files and long bodies are written synchronously; on an error an exception is thrown.
WriteStream(s, fault) ==
  IF fault \in {"write", "unrouted"} \/ ~s.k.open THEN [s EXCEPT !.k.is_writing = TRUE, !.k.at = "threw", !.k.lost = TRUE]
  ELSE LET r == [s EXCEPT !.k.sent = Append(@, s.k.body), !.k.is_writing = FALSE,
                          !.k.lost = @ \/ s.k.need_read]
       IN  Clear(IF r.k.close THEN CheckDestroy(CloseSocket(r)) ELSE r)

\* Bugs: the reading goes on without a deadline, or does not go on.
WriteShortUntimed(s) ==
  LET r == DoWrite([s EXCEPT !.k.sent = Append(@, s.k.body)])
  IN  IF r.k.need_read THEN DoRead([r EXCEPT !.k.need_read = FALSE]) ELSE r

WriteShortStops(s) == DoWrite([s EXCEPT !.k.sent = Append(@, s.k.body)])

\* Short responses are written asynchronously; then the reading goes on, if it waited for the response.
WriteShort(s) ==
  LET r == DoWrite([s EXCEPT !.k.sent = Append(@, s.k.body)])
  IN  IF r.k.need_read THEN DoRead(StartDeadline([r EXCEPT !.k.need_read = FALSE])) ELSE r

CompleteRequest(s, fault) ==
  LET r == [s EXCEPT !.k.need_after = FALSE, !.k.hook = FALSE]
  IN  IF r.k.long THEN WriteStream(r, fault) ELSE WriteShort(r)

\* The response is filled for request n, and end() is called.
End(s, n, long, fault) ==
  IF s.k.completed THEN s
  ELSE LET r == [s EXCEPT !.k.completed = TRUE, !.k.body = n, !.k.long = long]
       IN  IF s.k.hook THEN CompleteRequest(r, fault) ELSE r

\* Router::handle catches what leaves the handler of a rule, but for a handler of what no rule matches: the
\* response becomes a 500, complete as it was, that nobody sends, and is_writing stays set.
Caught(s, fault) ==
  IF s.k.at = "threw" /\ fault # "unrouted" THEN [s EXCEPT !.k.at = "idle", !.k.long = FALSE] ELSE s

\* The middlewares and the handler of request n; a response that is still complete is sent again.
\* Here nothing is caught but in the handler.
Answer(s, n, req, fault) ==
  CASE s.k.completed -> CompleteRequest(s, fault)
    [] ~s.k.completed /\ req.how = "middleware" ->
         CompleteRequest([s EXCEPT !.k.completed = TRUE, !.k.body = n, !.k.long = req.long], fault)
    [] ~s.k.completed /\ req.how = "now" ->
         Caught(End([s EXCEPT !.k.hook = TRUE, !.k.need_after = TRUE], n, req.long, fault), fault)
    [] ~s.k.completed /\ req.how = "later" ->
         [s EXCEPT !.k.hook = TRUE, !.k.need_after = TRUE, !.k.users = @ \cup {[n |-> n, long |-> req.long]}]

\* Connection::handle, for the request that has just been parsed.  The address of a client that
\* is gone cannot be asked for: an exception leaves the handler.  An upgrade takes the socket away.
Handle(s, req, fault) ==
  LET n == s.k.asked + 1
      r == [Cancel(s) EXCEPT !.k.asked = n]
      h == [r EXCEPT !.k.close = req.close, !.k.need_after = FALSE]
  IN  CASE fault = "endpoint" -> [r EXCEPT !.k.at = "threw", !.k.lost = TRUE]
        [] fault # "endpoint" /\ req.how = "upgrade" -> [r EXCEPT !.k.close = TRUE, !.k.open = FALSE]
        [] fault # "endpoint" /\ req.how = "invalid" ->
             CompleteRequest([h EXCEPT !.k.completed = FALSE, !.k.body = n, !.k.long = FALSE], fault)
        [] OTHER -> Answer(h, n, req, fault)

\* Connection::handle_header.
HandleHeader(s, req) == IF req.expect = "no" THEN s ELSE DoWrite(s)

\* What the bytes of one read make the parser call.
Feed(s, what, req, fault) ==
  CASE what = "whole" -> Handle(HandleHeader(s, req), req, fault)
    [] what = "head" -> HandleHeader(s, req)
    [] what = "rest" -> Handle(s, req, fault)
    [] OTHER -> s

-----------------------------------------------------------------------------
Free(w) == \A c \in Conns : conn[c].svc = w => conn[c].at = "idle"

Next_(w, op) == queue[w] # <<>> /\ Head(queue[w]).op = op /\ Free(w)

\* The handler at the head of the FIFO starts.
Running(w) == LET j == Head(queue[w]) IN [World(j.c) EXCEPT !.q = Tail(@)]

\* The parser is fed; afterwards the flags are looked at in AfterFeed.
RunRead(w, fault) ==
  /\ Next_(w, "read")
  /\ LET j == Head(queue[w])
         s == Running(w)
         r == Feed(s, j.what, j.req, fault)
     IN  /\ s.k.life = "live"
         /\ CASE r.k.at = "threw" -> Becomes([r EXCEPT !.k.at = "idle"])
              [] r.k.at # "threw" /\ (j.what = "error" \/ ~r.k.open) ->
                   Becomes(CheckDestroy([CloseSocket(Cancel(r)) EXCEPT !.k.is_reading = FALSE]))
              [] r.k.at # "threw" /\ j.what # "error" /\ r.k.open /\ r.k.close ->
                   Becomes(CheckDestroy([Cancel(r) EXCEPT !.k.is_reading = FALSE]))
              [] OTHER -> Becomes([r EXCEPT !.k.at = "fed"])
  /\ UNCHANGED accepting

\* need_to_call_after_handlers_ is tested; until it is acted upon, a response may be completed elsewhere.
AfterFeed(c) ==
  /\ conn[c].at = "fed"
  /\ Becomes(IF conn[c].need_after THEN [World(c) EXCEPT !.k.at = "tested"]
             ELSE DoRead(StartDeadline([World(c) EXCEPT !.k.at = "idle"])))
  /\ UNCHANGED accepting

WaitForUser(c) ==
  /\ conn[c].at = "tested"
  /\ conn' = [conn EXCEPT ![c].at = "idle", ![c].need_read = TRUE]
  /\ UNCHANGED <<timer, queue, load, accepting>>

RunWrite(w) ==
  /\ Next_(w, "write")
  /\ LET s == Clear([Running(w) EXCEPT !.k.is_writing = FALSE])
     IN  /\ s.k.life = "live"
         /\ Becomes(CASE Head(queue[w]).what = "error" -> CheckDestroy(s)
                      [] Head(queue[w]).what = "ok" /\ s.k.close -> CheckDestroy(CloseSocket(s))
                      [] OTHER -> s)
  /\ UNCHANGED accepting

\* Whoever kept the response completes it, on the worker or elsewhere.
UserMay(c) == conn[c].users # {} /\ conn[c].life = "live" /\ (Elsewhere \/ Free(conn[c].svc))

UserEnds(c, u, fault) ==
  /\ UserMay(c)
  /\ u \in conn[c].users
  /\ Becomes([End([World(c) EXCEPT !.k.users = @ \ {u}], u.n, u.long, fault) EXCEPT !.k.at = conn[c].at])
  /\ UNCHANGED accepting

\* The posted start(); over SSL the handshake may fail.
RunStart(w, ok) ==
  /\ Next_(w, "start")
  /\ LET s == [Running(w) EXCEPT !.k.life = "live"]
     IN  Becomes(IF ok THEN DoRead(StartDeadline(s)) ELSE CheckDestroy(s))
  /\ UNCHANGED accepting

\* The timer's second has passed; the tasks that are due are those with the lowest ids.
Elapse(w) ==
  /\ timer[w].highest > 0
  /\ \A i \in DOMAIN queue[w] : queue[w][i].op # "tick"
  /\ queue' = [queue EXCEPT ![w] = Append(@, Job("tick", None, "ok", None))]
  /\ UNCHANGED <<conn, timer, load, accepting>>

\* A bug: the ids start again although tasks are left.
HighestReset(t, due) == 0

\* If no task is left, the issued ids start again.
HighestAfter(t, due) == IF t.tasks = due THEN 0 ELSE t.highest

\* The order of what is queued: of the tasks by their ids, and of a task by number.
Sooner(a, b) == a[1].id < b[1].id \/ (a[1] = b[1] /\ a[2] < b[2])

\* The sockets are closed in the order of the ids, those that are still open.
RunTick(w, last) ==
  /\ Next_(w, "tick")
  /\ LET due == {x \in timer[w].tasks : x.id <= last}
         open == {x \in due : conn[x.owner].open}
         ends == UNION {{x} \X DOMAIN Ended(World(x.owner)) : x \in open}
     IN  /\ conn' = [c \in Conns |-> IF \E x \in open : x.owner = c THEN CloseSocket(World(c)).k ELSE conn[c]]
         /\ \E es \in [1 .. Cardinality(ends) -> ends] :
              /\ \A i, j \in DOMAIN es : i < j => Sooner(es[i], es[j])
              /\ queue' = [queue EXCEPT ![w] =
                             Tail(@) \o [i \in DOMAIN es |-> Ended(World(es[i][1].owner))[es[i][2]]]]
         /\ timer' = [timer EXCEPT ![w].tasks = @ \ due,
                                   ![w].highest = HighestAfter(timer[w], due)]
  /\ UNCHANGED <<load, accepting>>

-----------------------------------------------------------------------------
\* The kernel and the clients.
Answered(k) == k.writes = 0 /\ (k.part = None => Len(k.sent) = k.asked)

\* The reads of all connections that brought data.
Reads == {r \in Conns \X (1 .. MaxReads) : r[2] <= conn[r[1]].reads}

\* A read brings an error or the end of the stream, a piece of a request, a request, its head or its rest.
Arrive(c, what, req) ==
  /\ conn[c].reading
  /\ what # "error" => Cardinality(Reads) < MaxReads
  /\ what \in {"whole", "head", "rest"} => Piped \/ Answered(conn[c])
  /\ CASE what \in {"error", "piece"} -> req = None
       [] what = "whole" -> req.expect # "wait" /\ conn[c].part = None
       [] what = "head" -> req.expect = "wait" /\ conn[c].part = None
       [] what = "rest" -> req = conn[c].part
  /\ conn' = [conn EXCEPT ![c].reading = FALSE,
                          ![c].reads = IF what = "error" THEN @ ELSE @ + 1,
                          ![c].part = CASE what = "head" -> req [] what = "rest" -> None [] OTHER -> @]
  /\ queue' = [queue EXCEPT ![conn[c].svc] = Append(@, Job("read", c, what, req))]
  /\ UNCHANGED <<timer, load, accepting>>

\* A write that waited is done, or fails.  A read that is done had its handler run before the
\* reactor looked at the socket again.
Written(c, what) ==
  /\ conn[c].writes > 0
  /\ \A i \in DOMAIN queue[conn[c].svc] :
       LET j == queue[conn[c].svc][i] IN ~(j.op = "read" /\ j.c = c)
  /\ conn' = [conn EXCEPT ![c].writes = @ - 1]
  /\ queue' = [queue EXCEPT ![conn[c].svc] = Append(@, Job("write", c, what, None))]
  /\ UNCHANGED <<timer, load, accepting>>

-----------------------------------------------------------------------------
\* The first of the least loaded workers.
PickIoService(w, ld) == /\ \A v \in Workers : ld[w] <= ld[v]
                        /\ \A v \in 0 .. w - 1 : ld[w] < ld[v]

\* do_accept: the next connection is made for a worker before a client has come.
DoAccept(cn, ld) ==
  LET unborn == {c \in Conns : cn[c].life = "none"}
  IN  \/ /\ unborn = {}
         /\ accepting' = None /\ conn' = cn /\ load' = ld
      \/ \E w \in Workers, c \in unborn, g \in Garbage :
           /\ PickIoService(w, ld)
           /\ accepting' = c
           /\ conn' = [cn EXCEPT ![c] = [Unborn EXCEPT !.life = "accepting", !.svc = w, !.task_id = g]]
           /\ load' = [ld EXCEPT ![w] = @ + 1]

\* Server::run.
Run ==
  /\ accepting = None
  /\ \A c \in Conns : conn[c].life = "none"
  /\ DoAccept(conn, load)
  /\ UNCHANGED <<timer, queue>>

Accepted ==
  /\ accepting # None
  /\ LET w == conn[accepting].svc
     IN  queue' = [queue EXCEPT ![w] = Append(@, Job("start", accepting, "ok", None))]
  /\ DoAccept([conn EXCEPT ![accepting].life = "posted", ![accepting].open = TRUE], load)
  /\ UNCHANGED timer

\* async_accept failed: the accepting thread deletes the connection.
AcceptFails ==
  /\ accepting # None
  /\ LET s == Delete(World(accepting))
     IN  /\ timer' = [timer EXCEPT ![s.k.svc] = s.t]
         /\ DoAccept([conn EXCEPT ![accepting] = s.k], [load EXCEPT ![s.k.svc] = s.n])
  /\ UNCHANGED queue

-----------------------------------------------------------------------------
\* unrouted is a write that fails for a request no rule matches.
Faults == {"none", "endpoint", "write", "unrouted"}

Parts == {"whole", "head", "rest"}

Next ==
  \/ Run \/ Accepted \/ AcceptFails
  \/ \E w \in Workers :
       \/ \E fault \in Faults : RunRead(w, fault)
       \/ RunWrite(w)
       \/ \E ok \in BOOLEAN : RunStart(w, ok)
       \/ Elapse(w)
       \/ \E last \in 0 .. timer[w].highest : RunTick(w, last)
  \/ \E c \in Conns :
       \/ AfterFeed(c) \/ WaitForUser(c)
       \/ \E u \in conn[c].users, fault \in {"none", "write"} : UserEnds(c, u, fault)
       \/ \E what \in {"error", "piece"} : Arrive(c, what, None)
       \/ \E what \in Parts, req \in Kinds : Arrive(c, what, req)
       \/ \E what \in {"ok", "error"} : Written(c, what)

Spec == Init /\ [][Next]_vars

\* The workers run, seconds pass and with them the deadlines, the kernel gets rid of what was
\* written or fails, and whoever keeps a response completes it.  Nothing is asked of the clients.
\* (Weak fairness is []<>~guard \/ []<><<A>>_vars and strong fairness <>[]~guard \/ []<><<A>>_vars
\* where the guard is simpler to evaluate than ENABLED A.)
Fairness ==
  /\ \A w \in Workers :
       /\ []<>~Next_(w, "read") \/ []<><<\E fault \in Faults : RunRead(w, fault)>>_vars
       /\ []<>~Next_(w, "write") \/ []<><<RunWrite(w)>>_vars
       /\ []<>~Next_(w, "start") \/ []<><<\E ok \in BOOLEAN : RunStart(w, ok)>>_vars
       /\ WF_vars(Elapse(w))
       /\ <>[]~Next_(w, "tick") \/ []<><<RunTick(w, timer[w].highest)>>_vars
  /\ \A c \in Conns :
       /\ []<>(conn[c].at # "fed") \/ []<><<AfterFeed(c)>>_vars
       /\ WF_vars(WaitForUser(c))
       /\ []<>~UserMay(c) \/ []<><<\E u \in conn[c].users, fault \in {"none", "write"} :
                                      UserEnds(c, u, fault)>>_vars
       /\ WF_vars(\E what \in {"ok", "error"} : Written(c, what))

FairSpec == Spec /\ Fairness

-----------------------------------------------------------------------------
TypeOK ==
  /\ conn \in [Conns -> [life : {"none", "accepting", "posted", "live", "deleted"}, svc : Workers,
                         open : BOOLEAN, reads : 0 .. MaxReads, asked : 0 .. MaxReads,
                         part : Kinds \cup {None}, is_reading : BOOLEAN, is_writing : BOOLEAN,
                         need_after : BOOLEAN, need_read : BOOLEAN, close : BOOLEAN, task_id : Nat,
                         completed : BOOLEAN, hook : BOOLEAN, body : 0 .. MaxReads, long : BOOLEAN,
                         reading : BOOLEAN, writes : 0 .. 2 * MaxReads,
                         at : {"idle", "fed", "tested"},
                         users : SUBSET [n : 1 .. MaxReads, long : BOOLEAN],
                         sent : Seq(0 .. MaxReads), lost : BOOLEAN]]
  /\ \A w \in Workers : /\ timer[w].tasks \subseteq [id : 1 .. timer[w].highest, owner : Conns]
                         /\ timer[w].robbed \subseteq Conns
  /\ load \in [Workers -> 0 .. Cardinality(Conns)]
  /\ accepting \in Conns \cup {None}

Refers(w, c) == \/ \E i \in DOMAIN queue[w] : queue[w][i].c = c
                \/ \E x \in timer[w].tasks : x.owner = c

\* A connection that has deleted itself is referred to by no handler that the io_service will still
\* run, no operation that waits on its socket, and no deadline of the timer, although read and write
\* end in either order, the timer closes the socket at any moment, and one flag stands for all
\* writes (check_destroy).
HandlersOwned ==
  \A c \in Conns : conn[c].life = "deleted" =>
    /\ ~conn[c].reading /\ conn[c].writes = 0 /\ conn[c].at = "idle"
    /\ \A w \in Workers : ~Refers(w, c)

\* The load of each worker is the number of its connections: whichever path deletes a connection
\* counts it down, and only once (do_accept, check_destroy).
LoadExact ==
  \A w \in Workers :
    load[w] = Cardinality({c \in Conns : conn[c].svc = w /\ conn[c].life \in {"accepting", "posted", "live"}})

\* While a read waits for a client, the connection's deadline is in the timer, under the id the
\* connection remembers, or was erased by another connection that held the same id.
DeadlineKept ==
  \A c \in Conns :
    conn[c].reading =>
      \/ [id |-> conn[c].task_id, owner |-> c] \in timer[conn[c].svc].tasks
      \/ c \in timer[conn[c].svc].robbed

\* A client is sent its responses in the order of its requests, each made for its request: the one
\* response object of a connection is never sent with what is left of another answer.
OwnResponse ==
  \A c \in Conns : \A i \in DOMAIN conn[c].sent : conn[c].sent[i] = i

\* A connection ends once its client is silent, unless another connection erased its deadline, or an
\* exception or a long response completed late left it with no operation that could end it.
EventuallyDeleted ==
  \A c \in Conns :
    conn[c].life = "live" ~> \/ conn[c].life = "deleted"
                            \/ conn[c].lost
                            \/ c \in timer[conn[c].svc].robbed

\* Connections, timers and counters agree, and responses are not mixed up, in every state.
ConnectionsSound == TypeOK /\ HandlersOwned /\ LoadExact /\ DeadlineKept /\ OwnResponse

\* Nothing erases the deadline of a connection but the connection itself.
DeadlineArmed ==
  \A c \in Conns :
    conn[c].reading => [id |-> conn[c].task_id, owner |-> c] \in timer[conn[c].svc].tasks

\* Who keeps a response to complete it later finds its connection: it is closed after the write.
ResponsesOwned == \A c \in Conns : conn[c].users # {} => conn[c].life = "live"

=============================================================================
