---------------------------- MODULE CrowWebSocket ----------------------------
(***************************************************************************)
(* A WebSocket connection of Crow (crow_all.h, crow::websocket), from the  *)
(* upgrade to its end.                                                     *)
(*                                                                         *)
(* The connection runs on one io_service: a FIFO of handlers.  The client  *)
(* sends frames, each of them read field by field; other threads send and  *)
(* close through posted handlers.  A frame's payload is its number; what   *)
(* the server writes is named by its kind.                                 *)
(***************************************************************************)
EXTENDS Naturals, Sequences, SequencesExt

CONSTANTS
  Frames,       \* the frames clients send
  MaxFrames,    \* how many of them
  MaxStray,     \* up to how many, once a header was read by half
  Sends,        \* what other threads ask for: "text", "close"
  MaxSends,     \* how often
  Vanishes      \* whether the client may go away at any moment

AllFrames == [op : {"text", "binary", "cont", "close", "ping", "pong"}, fin : BOOLEAN, mask : BOOLEAN,
              len : {"7", "16", "64"}, pieces : 0 .. 2]

ASSUME SocketAssumption == Frames \subseteq AllFrames /\ MaxFrames \in Nat /\ MaxStray \in Nat

VARIABLES
  ws,           \* the websocket::Connection
  queue,        \* handlers of its io_service
  client,       \* the frames it sent, whether it is gone, and the requests other threads made
  out,          \* what was given to the socket, in order
  calls,        \* the callbacks made: messages, onclose, onerror
  asked         \* what was asked to be sent, in the order it reached the connection

vars == <<ws, queue, client, out, calls, asked>>

NoFrame == [op |-> "none", fin |-> FALSE, mask |-> FALSE, len |-> "7", pieces |-> 0]

Fresh == [life |-> "live", open |-> TRUE, reading |-> FALSE, is_reading |-> FALSE, state |-> "MiniHeader",
          frame |-> NoFrame, n |-> 0, left |-> 0, message |-> <<>>, binary |-> FALSE,
          sending |-> <<>>, buffers |-> <<>>, close |-> FALSE, sent_close |-> FALSE, recv_close |-> FALSE,
          close_called |-> FALSE, touched |-> FALSE, broken |-> "no", cut |-> FALSE]

-----------------------------------------------------------------------------
\* Handlers work on a record of everything the connection's thread owns.
World == [k |-> ws, q |-> queue, o |-> out, m |-> calls, a |-> asked]

Becomes(s) == ws' = s.k /\ queue' = s.q /\ out' = s.o /\ calls' = s.m /\ asked' = s.a

Job(op, what) == [op |-> op, what |-> what]

Closes(s, why) == [s EXCEPT !.m.closes = Append(@, why)]

\* The object is used after it was deleted.
Touch(s) == [s EXCEPT !.k.touched = @ \/ s.k.life = "deleted"]

CloseSocket(s) ==
  [s EXCEPT !.k.open = FALSE, !.k.reading = FALSE,
            !.q = @ \o (IF s.k.reading THEN <<Job("read", "error")>> ELSE <<>>)
                    \o (IF s.k.sending # <<>> /\ s.k.open /\ ~\E i \in DOMAIN s.q : s.q[i].op = "write"
                        THEN <<Job("write", "error")>> ELSE <<>>)]

\* A bug: the write that is under way is forgotten.
CheckDestroyReads(s) ==
  LET r == IF s.k.close_called THEN s ELSE Closes(s, "uncleanly")
  IN  IF ~s.k.is_reading THEN [r EXCEPT !.k.life = "deleted"] ELSE r

CheckDestroy(s) ==
  LET r == IF s.k.close_called THEN s ELSE Closes(s, "uncleanly")
  IN  IF s.k.sending = <<>> /\ ~s.k.is_reading THEN [r EXCEPT !.k.life = "deleted"] ELSE r

\* A bug: what is sent stays in write_buffers_.
DoWriteCopies(s) ==
  IF s.k.sending # <<>> THEN s
  ELSE [s EXCEPT !.k.sending = s.k.buffers, !.o = IF s.k.open THEN @ \o s.k.buffers ELSE @,
                 !.q = IF s.k.open THEN @ ELSE Append(@, Job("write", "error"))]

\* One write at a time: what comes meanwhile is collected in write_buffers_.
DoWrite(s) ==
  IF s.k.sending # <<>> THEN s
  ELSE [s EXCEPT !.k.sending = s.k.buffers, !.k.buffers = <<>>,
                 !.o = IF s.k.open THEN @ \o s.k.buffers ELSE @,
                 !.q = IF s.k.open THEN @ ELSE Append(@, Job("write", "error"))]

Send(s, what) == DoWrite([s EXCEPT !.k.buffers = Append(@, what), !.a = Append(@, what)])

\* A bug: that onclose was called is forgotten.
CloseForgets(s, why) ==
  LET r == [s EXCEPT !.k.sent_close = TRUE]
  IN  Send(IF r.k.recv_close /\ ~r.k.close_called THEN Closes(r, why) ELSE r, "close")

Close(s, why) ==
  LET r == [s EXCEPT !.k.sent_close = TRUE]
      h == IF r.k.recv_close /\ ~r.k.close_called
           THEN Closes([r EXCEPT !.k.close_called = TRUE], why) ELSE r
  IN  Send(h, "close")

\* do_read starts the operation for the field that state_ names; an unmasked frame has no mask to read,
\* and a read of no bytes is done at once.
DoRead(s) ==
  LET r == [s EXCEPT !.k.is_reading = TRUE,
                     !.k.state = IF @ = "Mask" /\ ~s.k.frame.mask THEN "Payload" ELSE @]
  IN  IF r.k.state = "Payload" /\ r.k.left = 0 THEN [r EXCEPT !.q = Append(@, Job("read", "ok"))]
      ELSE IF r.k.open THEN [r EXCEPT !.k.reading = TRUE]
      ELSE [r EXCEPT !.q = Append(@, Job("read", "error"))]

Start == DoRead(Send([k |-> Fresh, q |-> <<>>, o |-> <<>>, m |-> [messages |-> <<>>, closes |-> <<>>, errors |-> 0],
                      a |-> <<>>], "101"))

Init ==
  /\ LET s == Start IN ws = s.k /\ queue = s.q /\ out = s.o /\ calls = s.m /\ asked = s.a
  /\ client = [frames |-> <<>>, gone |-> FALSE, posts |-> 0]

-----------------------------------------------------------------------------
\* A complete message goes to the application, with the kind of its first frame.
Deliver(s) ==
  LET r == [s EXCEPT !.k.message = Append(@, s.k.n)]
  IN  IF s.k.frame.fin
      THEN [r EXCEPT !.m.messages = Append(@, [text |-> r.k.message, binary |-> r.k.binary]), !.k.message = <<>>]
      ELSE r

\* A bug: a ping breaks the message it came in the middle of.
HandleFragmentResets(s) ==
  CASE s.k.frame.op = "ping" -> [Send(s, "pong") EXCEPT !.k.message = <<>>]
    [] s.k.frame.op = "pong" -> s
    [] s.k.frame.op = "close" -> Close([s EXCEPT !.k.recv_close = TRUE], "client")
    [] OTHER -> Deliver([s EXCEPT !.k.binary = IF s.k.frame.op = "cont" THEN @ ELSE s.k.frame.op = "binary"])

HandleFragment(s) ==
  CASE s.k.frame.op = "ping" -> Send(s, "pong")
    [] s.k.frame.op = "pong" -> s
    [] s.k.frame.op = "close" /\ ~s.k.sent_close ->
         Close([s EXCEPT !.k.recv_close = TRUE], "client")
    [] s.k.frame.op = "close" /\ s.k.sent_close ->
         LET r == [CloseSocket(s) EXCEPT !.k.recv_close = TRUE, !.k.close = TRUE]
             h == IF r.k.close_called THEN r ELSE Closes([r EXCEPT !.k.close_called = TRUE], "client")
         IN  CheckDestroy(h)
    [] OTHER -> Deliver([s EXCEPT !.k.binary = IF s.k.frame.op = "cont" THEN @ ELSE s.k.frame.op = "binary"])

\* What each field of a frame is followed by.
After(s) ==
  CASE s.k.state = "MiniHeader" ->
         [s EXCEPT !.k.state = CASE s.k.frame.len = "64" -> "Len64" [] s.k.frame.len = "16" -> "Len16"
                                 [] s.k.frame.len = "7" -> "Mask"]
    [] s.k.state \in {"Len16", "Len64"} -> [s EXCEPT !.k.state = "Mask"]
    [] s.k.state = "Mask" -> [s EXCEPT !.k.state = "Payload"]
    [] s.k.state = "Payload" /\ s.k.left > 1 -> [s EXCEPT !.k.left = @ - 1]
    [] s.k.state = "Payload" /\ s.k.left <= 1 ->
         [Touch(HandleFragment(s)) EXCEPT !.k.state = "MiniHeader", !.k.frame = NoFrame]

\* Bugs: the object is never destroyed; it goes on reading.
ReadFailsKeeps(s) == [CloseSocket(s) EXCEPT !.k.close = TRUE, !.m.errors = @ + 1, !.k.broken = s.k.state]

ReadFailsAgain(s) == DoRead([CloseSocket(s) EXCEPT !.k.close = TRUE, !.m.errors = @ + 1])

\* A read that failed closes the socket; in the last two states the object is not destroyed.
\* broken remembers where the reading ended.
ReadFails(s) ==
  LET r == [CloseSocket(s) EXCEPT !.k.close = TRUE, !.m.errors = @ + 1, !.k.broken = s.k.state]
  IN  IF s.k.state \in {"Mask", "Payload"} THEN r ELSE CheckDestroy(r)

RunRead ==
  /\ queue # <<>> /\ Head(queue).op = "read"
  /\ ws.life = "live"
  /\ LET s == [World EXCEPT !.q = Tail(@), !.k.is_reading = FALSE]
     IN  IF Head(queue).what = "error" THEN Becomes(ReadFails(s))
         ELSE LET r == After(s) IN Becomes(IF r.k.life = "deleted" THEN r ELSE DoRead(r))
  /\ UNCHANGED client

RunWrite ==
  /\ queue # <<>> /\ Head(queue).op = "write"
  /\ ws.life = "live"
  /\ LET s == [World EXCEPT !.q = Tail(@), !.k.sending = <<>>]
     IN  Becomes(IF Head(queue).what = "ok" /\ ~ws.close
                 THEN LET r == IF ws.buffers # <<>> THEN DoWrite(s) ELSE s
                      IN  [r EXCEPT !.k.close = ws.sent_close]
                 ELSE CheckDestroy([s EXCEPT !.k.close = TRUE]))
  /\ UNCHANGED client

\* What another thread asked for, posted with a pointer to the connection.
RunPosted ==
  /\ queue # <<>> /\ Head(queue).op = "post"
  /\ ~ws.touched
  /\ LET s == [World EXCEPT !.q = Tail(@)]
     IN  Becomes(IF ws.life = "deleted" THEN Touch(s)
                 ELSE IF Head(queue).what = "close" THEN Close(s, "server") ELSE Send(s, Head(queue).what))
  /\ UNCHANGED client

-----------------------------------------------------------------------------
\* The application sends or closes, from another thread, as long as it was not told of the end.
Post(what) ==
  /\ client.posts < MaxSends
  /\ calls.closes = <<>>
  /\ queue' = Append(queue, Job("post", what))
  /\ client' = [client EXCEPT !.posts = @ + 1]
  /\ UNCHANGED <<ws, out, calls, asked>>

\* The data frames, by their numbers.
DataIn(fs) == {i \in DOMAIN fs : fs[i].op \in {"text", "binary", "cont"}}

\* The client keeps to the protocol: fragments of one message are not mixed with another's.
\* (What the reader takes for a frame after a header was cut is of no protocol.)
InMessage(fs) ==
  \E i \in DataIn(fs) : ~fs[i].fin /\ \A j \in DataIn(fs) : j <= i

Proper(f) ==
  /\ \A i \in DOMAIN client.frames : client.frames[i].op # "close"
  /\ f.op = "cont" => InMessage(client.frames)
  /\ f.op \in {"text", "binary"} => ~InMessage(client.frames)
  /\ f.op \in {"close", "ping", "pong"} => f.fin

ClientVanishes ==
  /\ Vanishes /\ ~client.gone
  /\ client' = [client EXCEPT !.gone = TRUE]
  /\ UNCHANGED <<ws, queue, out, calls, asked>>

\* A read is served with the header of a new frame, or the next field of the frame that was begun.
\* What was sent may still arrive, whole or in part, from a client that is gone.  async_read_some of
\* the header may bring one of its two bytes: what stands for the other is zero, an empty frame
\* without a mask, and from then on any field is read where another begins.
Begins(f, whole) ==
  LET g == IF whole THEN f ELSE [f EXCEPT !.mask = FALSE, !.len = "7", !.pieces = 0] IN
  /\ ws.reading /\ ws.state = "MiniHeader"
  /\ Len(client.frames) < MaxFrames
  /\ IF ws.cut THEN Len(client.frames) < MaxStray ELSE Proper(f)
  /\ client' = [client EXCEPT !.frames = Append(@, g)]
  /\ ws' = [ws EXCEPT !.reading = FALSE, !.frame = g, !.n = Len(client.frames) + 1, !.left = g.pieces,
                      !.cut = @ \/ ~whole]
  /\ queue' = Append(queue, Job("read", "ok"))
  /\ UNCHANGED <<out, calls, asked>>

Arrives ==
  /\ ws.reading /\ ws.state # "MiniHeader"
  /\ ws' = [ws EXCEPT !.reading = FALSE]
  /\ queue' = Append(queue, Job("read", "ok"))
  /\ UNCHANGED <<client, out, calls, asked>>

EndsStream ==
  /\ ws.reading /\ client.gone
  /\ ws' = [ws EXCEPT !.reading = FALSE]
  /\ queue' = Append(queue, Job("read", "error"))
  /\ UNCHANGED <<client, out, calls, asked>>

\* The socket takes what is being sent, or fails; a read that is done has its handler run first.
Written(what) ==
  /\ ws.sending # <<>> /\ ws.open
  /\ \A i \in DOMAIN queue : queue[i].op \notin {"read", "write"}
  /\ what = "error" => client.gone
  /\ queue' = Append(queue, Job("write", what))
  /\ UNCHANGED <<ws, client, out, calls, asked>>

Next ==
  \/ RunRead \/ RunWrite \/ RunPosted
  \/ \E what \in Sends : Post(what)
  \/ \E f \in Frames, whole \in BOOLEAN : Begins(f, whole)
  \/ ClientVanishes \/ Arrives \/ EndsStream
  \/ \E what \in {"ok", "error"} : Written(what)

Spec == Init /\ [][Next]_vars

\* The io_service runs its handlers, and the kernel serves reads and writes that it can serve.
Fairness ==
  /\ WF_vars(RunRead) /\ WF_vars(RunWrite) /\ WF_vars(RunPosted)
  /\ WF_vars(EndsStream)
  /\ WF_vars(\E what \in {"ok", "error"} : Written(what))

FairSpec == Spec /\ Fairness

-----------------------------------------------------------------------------
\* The fragments that end a message, and all fragments of the message that one ends.
EndsIn(fs) == {i \in DataIn(fs) : fs[i].fin}
Fragments(fs, e) == {i \in DataIn(fs) : i <= e /\ \A d \in EndsIn(fs) : d < e => d < i}

\* s is S in ascending order.
Sorted(s, S) == ToSet(s) = S /\ \A i, j \in DOMAIN s : i < j => s[i] < s[j]

\* The frames that were read to their end.
Handled == {i \in DOMAIN client.frames : ws.frame = NoFrame \/ i < ws.n}

\* The fragment that ended each message.
LastOf(messages) == [j \in DOMAIN messages |-> Last(messages[j].text)]

TypeOK ==
  /\ ws.state \in {"MiniHeader", "Len16", "Len64", "Mask", "Payload"}
  /\ ws.frame \in AllFrames \cup {NoFrame}
  /\ ws.left \in 0 .. 2 /\ ws.n \in 0 .. MaxFrames
  /\ ws.life \in {"live", "deleted"}
  /\ \A i \in DOMAIN queue : queue[i].op \in {"read", "write", "post"}
  /\ calls.errors \in 0 .. 1 /\ ws.cut \in BOOLEAN

\* The application is given the client's messages in order, each put together from its fragments
\* with nothing of the control frames between them, and with the kind of its first fragment
\* (handle_fragment), wherever the stream is cut.  The code does not keep it when a read brings half of
\* a header.
HeadersCutAnywhere ==
  /\ Sorted(LastOf(calls.messages), EndsIn(client.frames) \cap Handled)
  /\ \A j \in DOMAIN calls.messages :
       LET m == calls.messages[j]
       IN  /\ Sorted(m.text, Fragments(client.frames, Last(m.text)))
           /\ m.binary = (client.frames[m.text[1]].op = "binary")

\* The same as long as no read brings half of a header, and wherever else the stream is cut.
MessagesWhole == ~ws.cut => HeadersCutAnywhere

\* What the threads and the connection itself send goes to the socket in the order it was asked for,
\* nothing twice and nothing left out, although a write may be under way (do_write).
SentInOrder == IsPrefix(out, asked) /\ (ws.open => asked = out \o ws.buffers)

\* The object is deleted only when no read or write of it can still call back (check_destroy).
DeletedQuiet ==
  ws.life = "deleted" =>
    ~ws.reading /\ (ws.open => ws.sending = <<>>) /\ \A i \in DOMAIN queue : queue[i].op = "post"

\* Once onclose was called for a close frame, it is not called again, whatever happens afterwards.
ClosedOnce ==
  \A i \in DOMAIN calls.closes : calls.closes[i] = "uncleanly" \/ i = Len(calls.closes)

\* A client that goes away between two frames, or within a length, is noticed: onclose is called and
\* the object is deleted.  (Within a mask or a payload it is not.)
EventuallyDeleted ==
  (client.gone /\ ws.broken \notin {"Mask", "Payload"})
    ~> (ws.life = "deleted" /\ calls.closes # <<>>) \/ ws.broken \in {"Mask", "Payload"}

\* Frames in, frames out and the life of the object, together.
SocketSound == TypeOK /\ MessagesWhole /\ SentInOrder /\ DeletedQuiet /\ ClosedOnce

\* A connection that is lost in the middle of a frame is deleted too.
EventuallyDeletedAlways == client.gone ~> ws.life = "deleted"

\* Sending a close frame leads to the end of the object.
CloseDestroys == (ws.sent_close /\ ws.sending = <<>>) ~> ws.life = "deleted"

\* No code runs on the object after it was deleted.
NeverTouched == ~ws.touched

\* onclose is called at most once.
AlwaysClosedOnce == Len(calls.closes) <= 1

=============================================================================
