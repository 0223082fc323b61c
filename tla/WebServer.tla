------------------------------ MODULE WebServer ------------------------------
(***************************************************************************)
(* libhttpserver's webserver around the libmicrohttpd daemon: start(TRUE), *)
(* which waits on mutexcond until running is reset; stop(), called by any  *)
(* number of threads and, through sweet_kill, by a resource; and the life  *)
(* of a request: uri_log, the first and the second steps of the answer,    *)
(* the post iterator with its upload stream, the handler, and the          *)
(* completion callback that deletes the modded_request.  The daemon's      *)
(* threads run the callbacks of different connections at the same time;    *)
(* the callbacks of one connection are sequential.                         *)
(*                                                                         *)
(* Data: a piece of a form is one symbol, a file on disk is a sequence of  *)
(* them, and an open stream keeps the file it opened even after the path   *)
(* is unlinked.  Query arguments are left out: every argument is a form's. *)
(***************************************************************************)
EXTENDS Integers, Sequences, SequencesExt, FiniteSets

CONSTANTS
    Stoppers,       \* threads that call stop()
    Conns,          \* connections of clients, one request each
    Body,           \* Body[c]: the post iterator's calls for c's body, in order
    Killers,        \* the connections whose resource calls sweet_kill
    RandomNames,    \* generate_random_filename_on_upload
    Targets,        \* the values file_upload_target may have
    Limit           \* content_size_limit

None == "none"
NoPath == <<>>

AllTargets == {"memory", "disk", "both"}
OnDisk(t) == t # "memory"       \* target # FILE_UPLOAD_MEMORY_ONLY
InMemory(t) == t # "disk"       \* target # FILE_UPLOAD_DISK_ONLY

\* A call of the post iterator: field key, file name (None when the part has
\* none), whether its offset is above 0, and the symbol it carries.
Call(k, f, more, d) == [key |-> k, file |-> f, more |-> more, data |-> d]

Keys == UNION {{Body[c][i].key : i \in DOMAIN Body[c]} : c \in Conns}

\* The calls for one file, and the calls for the values under one key.
FileCalls(c, x) == {i \in DOMAIN Body[c] : <<Body[c][i].key, Body[c][i].file>> = x}
ArgCalls(c, k) == FileCalls(c, <<k, None>>)

TargetAssumption == Targets \subseteq AllTargets
KillersAssumption == Killers \subseteq Conns
LimitAssumption == Limit \in Nat /\ RandomNames \in BOOLEAN

\* What libmicrohttpd calls the iterator with: a piece goes on with a value that has begun.
BodyAssumption ==
    \A c \in Conns :
        /\ Body[c] = [i \in 1 .. Len(Body[c]) |-> Body[c][i]] /\ Len(Body[c]) \in Nat
        /\ \A i \in DOMAIN Body[c] :
              LET e == Body[c][i]
              IN  /\ e = Call(e.key, e.file, e.more, e.data) /\ e.more \in BOOLEAN
                  /\ e.more => \E j \in FileCalls(c, <<e.key, e.file>>) : j < i /\ ~Body[c][j].more

VARIABLES
    target,     \* file_upload_target, fixed when the server is made
    main,       \* where start(TRUE) is
    running,    \* webserver::running
    daemon,     \* the libmicrohttpd daemon: "none", "up" or "stopped"
    stopper,    \* where each call of stop() is
    twice,      \* MHD_stop_daemon was called for a daemon already stopped
    req,        \* the modded_request of each connection
    disk,       \* the paths of the upload directory and the file behind each
    inode       \* the contents of every file ever created, by its number

vars == <<target, main, running, daemon, stopper, twice, req, disk, inode>>

\* A path is random for one (connection, key, name) or the name under the directory.
Path(c, k, f) == IF RandomNames THEN <<c, k, f>> ELSE <<f>>

NoRequest == [phase |-> "none", at |-> 0, args |-> [k \in {} |-> <<>>],
              files |-> [x \in {} |-> NoPath], ukey |-> None, ufile |-> None,
              stream |-> 0, failed |-> FALSE]

Init ==
    /\ target \in Targets
    /\ main = "idle" /\ running = FALSE /\ daemon = "none" /\ twice = FALSE
    /\ stopper = [s \in Stoppers \cup Killers |-> "idle"]
    /\ req = [c \in Conns |-> NoRequest]
    /\ disk = [p \in {} |-> 0] /\ inode = <<>>

-----------------------------------------------------------------------------
(* start and stop *)

\* start: the daemon's threads run before running is set.
StartDaemon ==
    /\ main = "idle" /\ main' = "started" /\ daemon' = "up"
    /\ UNCHANGED <<target, running, stopper, twice, req, disk, inode>>

SetRunning ==
    /\ main = "started" /\ main' = "testing" /\ running' = TRUE
    /\ UNCHANGED <<target, daemon, stopper, twice, req, disk, inode>>

\* The loop around pthread_cond_wait, entered with mutexwait held.
WaitStopped ==
    /\ main = "testing"
    /\ main' = IF running THEN "waiting" ELSE "returned"
    /\ UNCHANGED <<target, running, daemon, stopper, twice, req, disk, inode>>

\* The wait may wake without a signal.
WakeUnasked ==
    /\ main = "waiting" /\ main' = "testing"
    /\ UNCHANGED <<target, running, daemon, stopper, twice, req, disk, inode>>

\* stop reads running before it takes the mutex.
StopTest(s) ==
    /\ stopper[s] = "idle"
    /\ s \in Killers => req[s].phase = "handling"
    /\ stopper' = [stopper EXCEPT ![s] = IF running THEN "locking" ELSE "refused"]
    /\ UNCHANGED <<target, main, running, daemon, twice, req, disk, inode>>

\* The locked section: reset and signal.  mutexcond has one waiter at most.
NotSignalled == main                    \* mutant: the signal is forgotten
Signalled == IF main = "waiting" THEN "testing" ELSE main

StopSignal(s) ==
    /\ stopper[s] = "locking"
    /\ running' = FALSE /\ main' = Signalled
    /\ stopper' = [stopper EXCEPT ![s] = "joining"]
    /\ UNCHANGED <<target, daemon, twice, req, disk, inode>>

-----------------------------------------------------------------------------
(* The request: what the callbacks do *)

Dropped(m, ps) == [p \in DOMAIN m \ ps |-> m[p]]

\* ~http_request removes the file of every file_info it holds.
PathsOf(r) == {r.files[x] : x \in DOMAIN r.files} \ {NoPath}

Live(c) == req[c].phase \notin {"none", "deleted"}

\* mutant: only an answered request is cleaned up.
CompletedKeeps(c) ==
    /\ req' = [req EXCEPT ![c] = [NoRequest EXCEPT !.phase = "deleted"]]
    /\ disk' = IF req[c].phase = "answered" THEN Dropped(disk, PathsOf(req[c])) ELSE disk

\* request_completed: delete the modded_request, and with it the http_request.
Completed(c) ==
    /\ req' = [req EXCEPT ![c] = [NoRequest EXCEPT !.phase = "deleted"]]
    /\ disk' = Dropped(disk, PathsOf(req[c]))

\* A daemon thread accepts the request line: uri_log makes the modded_request.
UriLog(c) ==
    /\ daemon = "up" /\ req[c].phase = "none"
    /\ req' = [req EXCEPT ![c].phase = "logged"]
    /\ UNCHANGED <<target, main, running, daemon, stopper, twice, disk, inode>>

\* answer_to_connection without a dhr: the first step makes the request and,
\* for a form, the post processor.
FirstStep(c) ==
    /\ daemon = "up" /\ req[c].phase = "logged"
    /\ req' = [req EXCEPT ![c].phase = "ready"]
    /\ UNCHANGED <<target, main, running, daemon, stopper, twice, disk, inode>>

\* The second step with data: MHD_post_process calls the iterator.
BeginPiece(c) ==
    /\ daemon = "up" /\ req[c].phase = "ready" /\ req[c].at < Len(Body[c])
    /\ req' = [req EXCEPT ![c].phase = "posting"]
    /\ UNCHANGED <<target, main, running, daemon, stopper, twice, disk, inode>>

ValuesOf(r, k) == IF k \in DOMAIN r.args THEN r.args[k] ELSE <<>>

WithArg(r, k, vs) == [r EXCEPT !.args = [x \in DOMAIN r.args \cup {k} |->
                                            IF x = k THEN vs ELSE r.args[x]]]

Cut(v) == SubSeq(v, 1, IF Len(v) < Limit THEN Len(v) ELSE Limit)

\* set_arg appends a value, cut at the limit; grow_last_arg extends the last
\* one; set_arg_flat keeps one value.
SetArg(r, e) == WithArg(r, e.key, Append(ValuesOf(r, e.key), Cut(<<e.data>>)))
GrowLastArgSets(r, e) == SetArg(r, e)   \* mutant: each piece is a value
GrowLastArg(r, e) ==
    LET vs == ValuesOf(r, e.key)
    IN  WithArg(r, e.key, IF vs = <<>> THEN <<<<e.data>>>>
                          ELSE Front(vs) \o <<Append(Last(vs), e.data)>>)
SetArgFlat(r, e) ==
    LET vs == ValuesOf(r, e.key)
    IN  WithArg(r, e.key, <<Cut((IF vs = <<>> THEN <<>> ELSE vs[1]) \o <<e.data>>)>>)

\* The iterator for a part without a file name.
IterateField(c, e) ==
    LET r == req[c]
        told == IF e.more THEN GrowLastArg(r, e) ELSE SetArg(r, e)
    IN  /\ req' = [req EXCEPT ![c] = [told EXCEPT !.at = r.at + 1]]
        /\ UNCHANGED <<disk, inode>>

\* The iterator for a file: the entry of the files map, whose path is chosen
\* and unlinked when it is new; the stream, closed when the key or the name
\* differ from the last call's and opened to append; the write.
SameName(r, e) == r.ufile = e.file      \* mutant: the key is not compared
SameFile(r, e) == r.ukey = e.key /\ r.ufile = e.file

IterateFile(c, e) ==
    LET r == req[c]
        x == <<e.key, e.file>>
        new == x \notin DOMAIN r.files
        path == IF new THEN Path(c, e.key, e.file) ELSE r.files[x]
        kept == IF new THEN Dropped(disk, {path}) ELSE disk
        open == r.stream # 0 /\ SameFile(r, e)
        there == path \in DOMAIN kept
        into == IF open THEN r.stream ELSE IF there THEN kept[path] ELSE Len(inode) + 1
        files == IF into > Len(inode) THEN Append(inode, <<>>) ELSE inode
        told == IF InMemory(target) THEN SetArgFlat(r, e) ELSE r
    IN  /\ inode' = [files EXCEPT ![into] = Append(@, e.data)]
        /\ disk' = IF open \/ there THEN kept
                   ELSE [p \in DOMAIN kept \cup {path} |-> IF p = path THEN into ELSE kept[p]]
        /\ req' = [req EXCEPT ![c] =
                     [told EXCEPT !.at = r.at + 1, !.stream = into,
                        !.files = [y \in DOMAIN r.files \cup {x} |->
                                     IF y = x THEN path ELSE r.files[y]],
                        !.ukey = e.key, !.ufile = e.file]]

\* A file kept in memory only.
IterateMemory(c, e) ==
    /\ req' = [req EXCEPT ![c] = [SetArgFlat(req[c], e) EXCEPT !.at = req[c].at + 1]]
    /\ UNCHANGED <<disk, inode>>

\* generate_random_upload_filename throws: the entry of the files map is left
\* without a path and the post processor takes no more of the body.
NameFails(c, e) ==
    LET r == req[c]
        x == <<e.key, e.file>>
        told == IF InMemory(target) THEN SetArgFlat(r, e) ELSE r
    IN  /\ RandomNames /\ x \notin DOMAIN r.files
        /\ req' = [req EXCEPT ![c] =
                     [told EXCEPT !.at = Len(Body[c]), !.failed = TRUE,
                        !.files = [y \in DOMAIN r.files \cup {x} |->
                                     IF y = x THEN NoPath ELSE r.files[y]]]]
        /\ UNCHANGED <<disk, inode>>

PostIterator(c) ==
    /\ req[c].phase = "posting" /\ req[c].at < Len(Body[c])
    /\ LET e == Body[c][req[c].at + 1]
       IN  \/ e.file = None /\ IterateField(c, e)
           \/ e.file # None /\ OnDisk(target) /\ IterateFile(c, e)
           \/ e.file # None /\ OnDisk(target) /\ NameFails(c, e)
           \/ e.file # None /\ ~OnDisk(target) /\ IterateMemory(c, e)
    /\ UNCHANGED <<target, main, running, daemon, stopper, twice>>

\* The end of the second step closes the stream.
EndPieceOpen(c) ==                      \* mutant: the stream stays open
    /\ req[c].phase = "posting" /\ req[c].at > 0
    /\ req' = [req EXCEPT ![c].phase = "ready"]
    /\ UNCHANGED <<target, main, running, daemon, stopper, twice, disk, inode>>

EndPiece(c) ==
    /\ req[c].phase = "posting" /\ req[c].at > 0
    /\ req' = [req EXCEPT ![c].phase = "ready", ![c].stream = 0]
    /\ UNCHANGED <<target, main, running, daemon, stopper, twice, disk, inode>>

\* The second step without data: complete_request calls the resource.
CompleteRequest(c) ==
    /\ daemon = "up" /\ req[c].phase = "ready" /\ req[c].at = Len(Body[c])
    /\ req' = [req EXCEPT ![c].phase = "handling"]
    /\ UNCHANGED <<target, main, running, daemon, stopper, twice, disk, inode>>

\* The resource returns; the response is queued.
Answered(c) ==
    /\ req[c].phase = "handling"
    /\ c \in Killers => stopper[c] \in {"done", "refused"}
    /\ req' = [req EXCEPT ![c].phase = "answered"]
    /\ UNCHANGED <<target, main, running, daemon, stopper, twice, disk, inode>>

\* The daemon is done with the request: it was answered, or the client left.
RequestCompleted(c) ==
    /\ daemon = "up" /\ req[c].phase \in {"logged", "ready", "answered"}
    /\ Completed(c)
    /\ UNCHANGED <<target, main, running, daemon, stopper, twice, inode>>

\* MHD_stop_daemon waits for the callbacks in progress, completes every
\* request that is left and frees the daemon.
StopDaemon(s) ==
    /\ stopper[s] = "joining"
    /\ \A c \in Conns : req[c].phase \notin {"posting", "handling"}
    /\ stopper' = [stopper EXCEPT ![s] = "done"]
    /\ daemon' = "stopped" /\ twice' = (twice \/ daemon = "stopped")
    /\ req' = [c \in Conns |-> IF Live(c) THEN [NoRequest EXCEPT !.phase = "deleted"] ELSE req[c]]
    /\ disk' = Dropped(disk, UNION {PathsOf(req[c]) : c \in Conns})
    /\ UNCHANGED <<target, main, running, inode>>

Next ==
    \/ StartDaemon \/ SetRunning \/ WaitStopped \/ WakeUnasked
    \/ \E s \in Stoppers \cup Killers : StopTest(s) \/ StopSignal(s) \/ StopDaemon(s)
    \/ \E c \in Conns :
          \/ UriLog(c) \/ FirstStep(c) \/ BeginPiece(c) \/ PostIterator(c) \/ EndPiece(c)
          \/ CompleteRequest(c) \/ Answered(c) \/ RequestCompleted(c)

\* Every thread that is not blocked runs, and a connection's daemon thread
\* comes back to it; that a client connects or that stop is called is not assumed.
Fairness ==
    /\ WF_vars(StartDaemon) /\ WF_vars(SetRunning) /\ WF_vars(WaitStopped)
    /\ \A s \in Stoppers \cup Killers : WF_vars(StopSignal(s)) /\ WF_vars(StopDaemon(s))
    /\ \A c \in Conns : /\ WF_vars(PostIterator(c)) /\ WF_vars(EndPiece(c))
                        /\ WF_vars(Answered(c)) /\ WF_vars(RequestCompleted(c))

Spec == Init /\ [][Next]_vars
FairSpec == Spec /\ Fairness

-----------------------------------------------------------------------------
(* Properties *)

\* Types.
TypeOK ==
    /\ main \in {"idle", "started", "testing", "waiting", "returned"}
    /\ target \in AllTargets
    /\ running \in BOOLEAN /\ daemon \in {"none", "up", "stopped"} /\ twice \in BOOLEAN
    /\ stopper \in [Stoppers \cup Killers ->
                      {"idle", "locking", "joining", "done", "refused"}]
    /\ \A c \in Conns :
          /\ req[c].phase \in {"none", "logged", "ready", "posting", "handling",
                               "answered", "deleted"}
          /\ req[c].at \in 0..Len(Body[c]) /\ req[c].stream \in 0..Len(inode)
          /\ req[c].stream # 0 => req[c].phase = "posting"
    /\ \A p \in DOMAIN disk : disk[p] \in DOMAIN inode

\* A sequence is what c's client sent in the calls is: a symbol for each, in their order.
Upto(is, i) == {j \in is : j <= i}
Rank(is, i) == Cardinality(Upto(is, i))
Sent(q, c, is) == Len(q) = Cardinality(is) /\ \A i \in is : q[Rank(is, i)] = Body[c][i].data

\* What the resource is given of an upload is whole: every file of the request
\* is on disk under its path with exactly the symbols this client sent for it,
\* whatever the other connections upload under the same name meanwhile.
FilesWhole ==
    \A c \in Conns : req[c].phase = "handling" /\ ~req[c].failed =>
        \A x \in DOMAIN req[c].files :
            /\ req[c].files[x] \in DOMAIN disk
            /\ Sent(inode[disk[req[c].files[x]]], c, FileCalls(c, x))

\* Between requests nothing is left in the upload directory: every path on
\* disk belongs to a request that is still alive, also after an aborted upload
\* and after stop.
NoFilesLeft ==
    DOMAIN disk \subseteq UNION {PathsOf(req[c]) : c \in {d \in Conns : Live(d)}}

\* The calls that begin a value under k, and the ones that add to its value number v.
Begins(c, k) == {i \in ArgCalls(c, k) : ~Body[c][i].more}
Pieces(c, k, v) == {i \in ArgCalls(c, k) : Rank(Begins(c, k), i) = v}

\* An argument is whole: a form field reaches the resource as the sequence of
\* the client's values for it, each glued from its pieces.
OnlyField(c, k) == \A i \in DOMAIN Body[c] : Body[c][i].key = k => Body[c][i].file = None

ArgsWhole ==
    \A c \in Conns : req[c].phase = "handling" /\ ~req[c].failed =>
        \A k \in Keys : OnlyField(c, k) =>
            /\ Len(ValuesOf(req[c], k)) = Cardinality(Begins(c, k))
            /\ \A v \in DOMAIN ValuesOf(req[c], k) : Sent(ValuesOf(req[c], k)[v], c, Pieces(c, k, v))

\* A stop() that returned TRUE releases the thread blocked in start().
StartReturns == (\E s \in DOMAIN stopper : stopper[s] = "done") ~> main = "returned"

\* What a resource is given is whole, and no file outlives its request.
UploadsSound == TypeOK /\ FilesWhole /\ NoFilesLeft /\ ArgsWhole

-----------------------------------------------------------------------------
(* What the code does not keep *)

\* The daemon is stopped at most once: two threads in stop() may both have
\* read running, and the second MHD_stop_daemon gets a freed daemon.
StoppedOnce == ~twice

\* A stop() that ran at all releases start(): a call between the start of the
\* daemon and running = true returns FALSE and start() waits for another.
StopNeverLost == (\E s \in DOMAIN stopper : stopper[s] = "refused" /\ daemon = "up") ~> main = "returned"

\* content_size_limit bounds every argument: grow_last_arg does not apply it.
ArgsBounded ==
    \A c \in Conns : \A k \in DOMAIN req[c].args :
        \A i \in DOMAIN req[c].args[k] : Len(req[c].args[k][i]) <= Limit

=============================================================================
