----------------------------- MODULE CrowProofs -----------------------------
(***************************************************************************)
(* SocketSound of CrowWebSocket for any frames a client may send, any      *)
(* number of them, and any requests of other threads; MiddlewareSound of   *)
(* CrowMiddleware for any middlewares of a request; and ServerSound of     *)
(* CrowServer for any connections, workers and reads.                      *)
(*                                                                         *)
(* The handlers of a socket, and those of a connection, are operators on   *)
(* a record of what they work on: each operator has a lemma of what it     *)
(* keeps, and a step composes them.                                        *)
(***************************************************************************)
EXTENDS MCCrow, SequenceTheorems, FunctionTheorems, FiniteSetTheorems, TLAPS

Outs == Sends \cup {"101", "close", "pong"}
Message == [text : Seq(Nat), binary : BOOLEAN]
Jobs == [op : {"read", "write"}, what : {"ok", "error"}] \cup [op : {"post"}, what : Sends]
States == {"MiniHeader", "Len16", "Len64", "Mask", "Payload"}

Connection ==
  [life : {"live", "deleted"}, open : BOOLEAN, reading : BOOLEAN, is_reading : BOOLEAN, state : States,
   frame : AllFrames \cup {NoFrame}, n : Nat, left : 0 .. 2, message : Seq(Nat), binary : BOOLEAN,
   sending : Seq(Outs), buffers : Seq(Outs), close : BOOLEAN, sent_close : BOOLEAN, recv_close : BOOLEAN,
   close_called : BOOLEAN, touched : BOOLEAN, broken : States \cup {"no"}, cut : BOOLEAN]

Worlds ==
  [k : Connection, q : Seq(Jobs), o : Seq(Outs), a : Seq(Outs),
   m : [messages : Seq(Message), closes : Seq({"uncleanly", "client", "server"}), errors : Nat]]

\* A read is under way or its handler is queued, never both nor twice, exactly
\* while is_reading says so; the same of a write; and a deleted object has
\* neither.
Quiet(s) ==
  /\ s.k.reading => s.k.is_reading
  /\ \A i \in DOMAIN s.q : s.q[i].op = "read" => s.k.is_reading /\ ~s.k.reading
  /\ \A i \in DOMAIN s.q : s.q[i].op = "write" => s.k.sending # <<>>
  /\ \A i, j \in DOMAIN s.q : s.q[i].op = s.q[j].op /\ s.q[i].op # "post" => i = j
  /\ s.k.life = "deleted" => ~s.k.is_reading /\ s.k.sending = <<>>

\* What was given to the socket and what waits for it are what was asked for.
SentUp(s) ==
  /\ Len(s.o) <= Len(s.a) /\ \A i \in 1 .. Len(s.o) : s.o[i] = s.a[i]
  /\ s.k.open => s.a = s.o \o s.k.buffers

\* Only onclose for a close frame sets close_called.
Closed(s) ==
  /\ \A i \in DOMAIN s.m.closes : s.m.closes[i] = "uncleanly" \/ i = Len(s.m.closes)
  /\ ~s.k.close_called => \A i \in DOMAIN s.m.closes : s.m.closes[i] = "uncleanly"

\* Who is read from had no error yet; a frame that is read is there until it was
\* handled.
Served(s) ==
  /\ s.m.errors \in 0 .. 1
  /\ s.k.is_reading => s.m.errors = 0
  /\ s.k.state # "MiniHeader" => s.k.frame # NoFrame
  /\ \A i \in DOMAIN s.q : s.q[i] = Job("read", "ok") => s.k.frame # NoFrame
  /\ s.k.state = "MiniHeader" /\ s.k.reading => s.k.frame = NoFrame

-----------------------------------------------------------------------------
(* What handlers leave alone *)

SameJobs(s, r) ==
  /\ r.q = s.q /\ r.k.life = s.k.life /\ r.k.open = s.k.open /\ r.k.reading = s.k.reading
  /\ r.k.is_reading = s.k.is_reading /\ r.k.sending = s.k.sending
SameOut(s, r) == r.o = s.o /\ r.a = s.a /\ r.k.open = s.k.open /\ r.k.buffers = s.k.buffers
SameCalls(s, r) == r.m.closes = s.m.closes /\ r.k.close_called = s.k.close_called
SameText(s, r) ==
  /\ r.m.messages = s.m.messages /\ r.k.message = s.k.message /\ r.k.binary = s.k.binary
  /\ r.k.n = s.k.n /\ r.k.cut = s.k.cut /\ r.k.frame = s.k.frame
SameFields(s, r) ==
  /\ r.k.state = s.k.state /\ r.k.left = s.k.left /\ r.k.frame = s.k.frame /\ r.m.errors = s.m.errors
  /\ r.k.is_reading = s.k.is_reading /\ r.k.life = s.k.life

LEMMA AddJob ==
  ASSUME NEW q \in Seq(Jobs), NEW j \in Jobs
  PROVE  /\ Append(q, j) \in Seq(Jobs) /\ Len(Append(q, j)) = Len(q) + 1
         /\ DOMAIN Append(q, j) = 1 .. Len(q) + 1 /\ DOMAIN q = 1 .. Len(q) /\ Len(q) \in Nat
         /\ \A i \in 1 .. Len(q) : Append(q, j)[i] = q[i]
         /\ Append(q, j)[Len(q) + 1] = j /\ q \o <<j>> = Append(q, j) /\ q \o <<>> = q
OBVIOUS

LEMMA TheJobs ==
  /\ Job("read", "error") \in Jobs /\ Job("read", "error").op = "read"
  /\ Job("write", "error") \in Jobs /\ Job("write", "error").op = "write"
  /\ Job("read", "error") # Job("read", "ok")
BY DEF Jobs, Job

\* One of each kind.
One(q) == \A i, j \in DOMAIN q : q[i].op = q[j].op /\ q[i].op # "post" => i = j
No(q, op) == \A i \in DOMAIN q : q[i].op # op

LEMMA AddOne ==
  ASSUME NEW q \in Seq(Jobs), NEW j \in Jobs, One(q), j.op = "post" \/ No(q, j.op)
  PROVE  One(Append(q, j))
BY AddJob DEF One, No

LEMMA AddOther ==
  ASSUME NEW q \in Seq(Jobs), NEW j \in Jobs, NEW op, op # j.op
  PROVE  No(Append(q, j), op) <=> No(q, op)
BY AddJob DEF No

LEMMA QuietIs ==
  ASSUME NEW s \in Worlds
  PROVE  Quiet(s) <=>
           /\ s.k.reading => s.k.is_reading /\ No(s.q, "read")
           /\ ~s.k.is_reading => No(s.q, "read")
           /\ s.k.sending = <<>> => No(s.q, "write")
           /\ One(s.q)
           /\ s.k.life = "deleted" => ~s.k.is_reading /\ s.k.sending = <<>>
<1>1. s.k.reading \in BOOLEAN /\ s.k.is_reading \in BOOLEAN
  BY DEF Worlds, Connection
<1>. QED BY <1>1 DEF Quiet, No, One

LEMMA CloseSocketKeeps ==
  ASSUME NEW s \in Worlds
  PROVE  LET r == CloseSocket(s)
         IN  /\ r \in Worlds /\ r.k.open = FALSE /\ r.k.sending = s.k.sending
             /\ SameCalls(s, r) /\ SameText(s, r) /\ SameFields(s, r)
             /\ SentUp(s) => SentUp(r)
             /\ Quiet(s) => Quiet(r)
             /\ Served(s) => Served(r)
<1> DEFINE r == CloseSocket(s)
           k == [s.k EXCEPT !.open = FALSE, !.reading = FALSE]
           lost == s.k.sending # <<>> /\ s.k.open /\ ~\E i \in DOMAIN s.q : s.q[i].op = "write"
           q == IF s.k.reading THEN Append(s.q, Job("read", "error")) ELSE s.q
           p == IF lost THEN Append(q, Job("write", "error")) ELSE q
<1>1. s.k \in Connection /\ s.q \in Seq(Jobs)
  BY DEF Worlds
<1>2. q \in Seq(Jobs) /\ p \in Seq(Jobs)
  BY <1>1, AddJob, TheJobs
<1>3. q = s.q \o (IF s.k.reading THEN <<Job("read", "error")>> ELSE <<>>)
  BY <1>1, AddJob, TheJobs
<1>4. p = q \o (IF lost THEN <<Job("write", "error")>> ELSE <<>>)
  <2>. HIDE DEF q, lost
  <2>. QED BY <1>2, AddJob, TheJobs
<1>5. r = [s EXCEPT !.k = k, !.q = p]
  BY <1>3, <1>4, <1>1 DEF CloseSocket, Worlds, Connection
<1>6. k \in Connection
  BY <1>1 DEF Connection
<1>7. r \in Worlds /\ r.k = k /\ r.q = p /\ r.o = s.o /\ r.a = s.a /\ r.m = s.m
  <2>. HIDE DEF k, p
  <2>. QED BY <1>5, <1>6, <1>2 DEF Worlds
<1>8. /\ k.life = s.k.life /\ k.open = FALSE /\ k.reading = FALSE /\ k.is_reading = s.k.is_reading
      /\ k.sending = s.k.sending /\ k.buffers = s.k.buffers /\ k.close_called = s.k.close_called
      /\ k.message = s.k.message /\ k.binary = s.k.binary /\ k.n = s.k.n /\ k.cut = s.k.cut /\ k.frame = s.k.frame
      /\ k.state = s.k.state /\ k.left = s.k.left
  BY <1>1 DEF Connection
<1>9. SentUp(s) => SentUp(r)
  BY <1>7, <1>8 DEF SentUp
<1>10. ASSUME Quiet(s) PROVE Quiet(r)
  <2>1. /\ s.k.reading => s.k.is_reading /\ No(s.q, "read")
        /\ ~s.k.is_reading => No(s.q, "read")
        /\ s.k.sending = <<>> => No(s.q, "write")
        /\ One(s.q)
        /\ s.k.life = "deleted" => ~s.k.is_reading /\ s.k.sending = <<>>
    BY <1>10, QuietIs
  <2>2. /\ ~s.k.is_reading => No(q, "read")
        /\ One(q) /\ (No(q, "write") <=> No(s.q, "write"))
    BY <2>1, <1>1, AddOne, AddOther, TheJobs
  <2>3. lost => No(q, "write") /\ s.k.sending # <<>>
    BY <2>2 DEF No
  <2>4. /\ ~s.k.is_reading => No(p, "read") 
        /\ One(p) /\ (s.k.sending = <<>> => No(p, "write"))
    <3>. HIDE DEF q, lost
    <3>. QED BY <2>1, <2>2, <2>3, <1>2, AddOne, AddOther, TheJobs
  <2>. HIDE DEF k, p, r
  <2>. QED BY <1>7, <1>8, <2>1, <2>4, QuietIs
<1>11. ASSUME Served(s) PROVE Served(r)
  <2>1. \A i \in DOMAIN q : q[i] = Job("read", "ok") => i \in DOMAIN s.q /\ s.q[i] = q[i]
    BY <1>1, AddJob, TheJobs
  <2>2. \A i \in DOMAIN p : p[i] = Job("read", "ok") => i \in DOMAIN q /\ q[i] = p[i]
    <3>1. Job("write", "error") # Job("read", "ok")
      BY DEF Job
    <3>2. CASE lost
      <4>1. p = Append(q, Job("write", "error"))
        BY <3>2
      <4>2. \A i \in 1 .. Len(q) + 1 : i = Len(q) + 1 \/ i \in 1 .. Len(q)
        BY <1>2, AddJob, TheJobs
      <4>. HIDE DEF p, q
      <4>. QED BY <4>1, <4>2, <3>1, <1>2, AddJob, TheJobs
    <3>3. CASE ~lost
      BY <3>3
    <3>. QED BY <3>2, <3>3
  <2>3. \A i \in DOMAIN p : p[i] = Job("read", "ok") => s.k.frame # NoFrame
    <3>. HIDE DEF p, q
    <3>. QED BY <2>1, <2>2, <1>11 DEF Served
  <2>. HIDE DEF p, q, k, r
  <2>. QED BY <1>7, <1>8, <1>11, <2>3 DEF Served
<1>. QED BY <1>7, <1>8, <1>9, <1>10, <1>11 DEF SameCalls, SameText, SameFields

LEMMA ClosesKeeps ==
  ASSUME NEW s \in Worlds, NEW why \in {"uncleanly", "client", "server"}
  PROVE  LET r == Closes(s, why)
         IN  /\ r \in Worlds /\ r.k = s.k /\ r.q = s.q /\ r.o = s.o /\ r.a = s.a
             /\ r.m.messages = s.m.messages /\ r.m.errors = s.m.errors
             /\ r.m.closes = Append(s.m.closes, why)
<1> DEFINE closes == Append(s.m.closes, why)
           m == [s.m EXCEPT !.closes = closes]
<1>1. Closes(s, why) = [s EXCEPT !.m = m]
  BY DEF Closes, Worlds
<1>. closes \in Seq({"uncleanly", "client", "server"})
  BY DEF Worlds
<1>. HIDE DEF closes
<1>2. /\ m \in [messages : Seq(Message), closes : Seq({"uncleanly", "client", "server"}), errors : Nat]
      /\ m.messages = s.m.messages /\ m.errors = s.m.errors /\ m.closes = closes
  BY DEF Worlds
<1>. HIDE DEF m
<1>3. /\ Closes(s, why) \in Worlds /\ Closes(s, why).k = s.k /\ Closes(s, why).q = s.q
      /\ Closes(s, why).o = s.o /\ Closes(s, why).a = s.a /\ Closes(s, why).m = m
  BY <1>1, <1>2 DEF Worlds
<1>. QED BY <1>2, <1>3 DEF closes

\* check_destroy deletes nothing that can be called back.
LEMMA CheckDestroyKeeps ==
  ASSUME NEW s \in Worlds
  PROVE  LET r == CheckDestroy(s)
         IN  /\ r \in Worlds /\ SameOut(s, r) /\ SameText(s, r)
             /\ r.q = s.q /\ r.k.is_reading = s.k.is_reading /\ r.k.state = s.k.state /\ r.k.left = s.k.left
             /\ r.m.errors = s.m.errors
             /\ SentUp(s) => SentUp(r)
             /\ Quiet(s) => Quiet(r)
             /\ Closed(s) => Closed(r)
             /\ Served(s) => Served(r)
<1> DEFINE r == CheckDestroy(s)
           c == IF s.k.close_called THEN s ELSE Closes(s, "uncleanly")
           k == [s.k EXCEPT !.life = "deleted"]
<1>1. /\ c \in Worlds /\ c.k = s.k /\ c.q = s.q /\ c.o = s.o /\ c.a = s.a
      /\ c.m.messages = s.m.messages /\ c.m.errors = s.m.errors
      /\ c.m.closes = IF s.k.close_called THEN s.m.closes ELSE Append(s.m.closes, "uncleanly")
  BY ClosesKeeps
<1>. HIDE DEF c
<1>2. r = IF s.k.sending = <<>> /\ ~s.k.is_reading THEN [c EXCEPT !.k = k] ELSE c
  BY <1>1 DEF CheckDestroy, c, Worlds
<1>3. /\ k \in Connection /\ k.life = "deleted" /\ k.open = s.k.open /\ k.reading = s.k.reading
      /\ k.is_reading = s.k.is_reading /\ k.sending = s.k.sending /\ k.buffers = s.k.buffers
      /\ k.close_called = s.k.close_called /\ k.message = s.k.message /\ k.binary = s.k.binary
      /\ k.n = s.k.n /\ k.cut = s.k.cut /\ k.frame = s.k.frame /\ k.state = s.k.state /\ k.left = s.k.left
  BY DEF Worlds, Connection
<1>. HIDE DEF k
<1>4. /\ r \in Worlds /\ r.q = s.q /\ r.o = s.o /\ r.a = s.a /\ r.m = c.m
      /\ r.k = IF s.k.sending = <<>> /\ ~s.k.is_reading THEN k ELSE s.k
  BY <1>1, <1>2, <1>3 DEF Worlds
<1>. HIDE DEF r
<1>5. SameOut(s, r) /\ SameText(s, r) /\ r.k.state = s.k.state /\ r.k.left = s.k.left
      /\ r.k.is_reading = s.k.is_reading /\ r.m.errors = s.m.errors
  BY <1>1, <1>3, <1>4 DEF SameOut, SameText
<1>6. SentUp(s) => SentUp(r)
  BY <1>5 DEF SentUp, SameOut
<1>7. Quiet(s) => Quiet(r)
  BY <1>3, <1>4, QuietIs
<1>8. Served(s) => Served(r)
  BY <1>3, <1>5, <1>4 DEF Served, SameText
<1>9. ASSUME Closed(s) PROVE Closed(r)
  <2>1. s.m.closes \in Seq({"uncleanly", "client", "server"}) /\ s.k.close_called \in BOOLEAN
    BY DEF Worlds, Connection
  <2>2. r.k.close_called = s.k.close_called
    BY <1>3, <1>4
  <2>3. CASE s.k.close_called
    BY <1>9, <1>1, <1>4, <2>1, <2>2, <2>3 DEF Closed
  <2>4. CASE ~s.k.close_called
    <3>1. r.m.closes = Append(s.m.closes, "uncleanly")
      BY <2>4, <1>1, <1>4
    <3>2. \A i \in DOMAIN s.m.closes : s.m.closes[i] = "uncleanly"
      BY <1>9, <2>4 DEF Closed
    <3>3. \A i \in DOMAIN r.m.closes : r.m.closes[i] = "uncleanly"
      BY <3>1, <3>2, <2>1
    <3>. QED BY <3>3 DEF Closed
  <2>. QED BY <2>1, <2>3, <2>4
<1>. QED BY <1>4, <1>5, <1>6, <1>7, <1>8, <1>9 DEF r

\* do_write keeps the order, and starts no second write.
LEMMA DoWriteKeeps ==
  ASSUME NEW s \in Worlds, s.k.buffers # <<>>, s.k.life = "live"
  PROVE  LET r == DoWrite(s)
         IN  /\ r \in Worlds /\ SameCalls(s, r) /\ SameText(s, r) /\ SameFields(s, r)
             /\ r.k.open = s.k.open
             /\ SentUp(s) => SentUp(r)
             /\ Quiet(s) => Quiet(r)
             /\ Served(s) => Served(r)
<1> DEFINE r == DoWrite(s)
           k == [s.k EXCEPT !.sending = s.k.buffers, !.buffers = <<>>]
           o == IF s.k.open THEN s.o \o s.k.buffers ELSE s.o
           q == IF s.k.open THEN s.q ELSE Append(s.q, Job("write", "error"))
<1>1. s.k \in Connection /\ s.q \in Seq(Jobs) /\ s.o \in Seq(Outs) /\ s.k.buffers \in Seq(Outs)
      /\ s.a \in Seq(Outs)
  BY DEF Worlds, Connection
<1>2. r = IF s.k.sending # <<>> THEN s ELSE [s EXCEPT !.k = k, !.o = o, !.q = q]
  BY DEF DoWrite, Worlds, Connection
<1>. <<>> \in Seq(Outs)
  OBVIOUS
<1>3. /\ k \in Connection /\ k.life = s.k.life /\ k.open = s.k.open /\ k.reading = s.k.reading
      /\ k.is_reading = s.k.is_reading /\ k.sending = s.k.buffers /\ k.buffers = <<>>
      /\ k.close_called = s.k.close_called /\ k.message = s.k.message /\ k.binary = s.k.binary
      /\ k.n = s.k.n /\ k.cut = s.k.cut /\ k.frame = s.k.frame /\ k.state = s.k.state /\ k.left = s.k.left
  BY <1>1 DEF Connection
<1>4. o \in Seq(Outs) /\ q \in Seq(Jobs)
  BY <1>1, TheJobs
<1>5. /\ r \in Worlds /\ r.m = s.m /\ r.a = s.a
      /\ s.k.sending = <<>> => r.k = k /\ r.o = o /\ r.q = q
      /\ s.k.sending # <<>> => r = s
  <2>. HIDE DEF k, o, q
  <2>. QED BY <1>2, <1>3, <1>4 DEF Worlds
<1>6. SameCalls(s, r) /\ SameText(s, r) /\ SameFields(s, r) /\ r.k.open = s.k.open /\ r.k.reading = s.k.reading
  <2>. HIDE DEF k, o, q, r
  <2>. QED BY <1>3, <1>5 DEF SameCalls, SameText, SameFields
<1>7. ASSUME SentUp(s), s.k.sending = <<>> PROVE SentUp(r)
  <2>1. r.o = o /\ r.k.buffers = <<>> /\ r.a = s.a /\ r.k.open = s.k.open
    BY <1>7, <1>5, <1>3
  <2>2. CASE s.k.open
    <3>1. r.o = s.o \o s.k.buffers /\ r.a = r.o
      BY <2>1, <2>2, <1>7 DEF SentUp
    <3>2. r.o \in Seq(Outs)
      BY <3>1, <1>1
    <3>3. r.o \o <<>> = r.o
      BY <3>2
    <3>4. r.a = r.o /\ r.k.buffers = <<>>
      BY <2>1, <3>1
    <3>5. Len(r.o) <= Len(r.o)
      BY <3>2
    <3>. HIDE DEF r
    <3>. QED BY <3>3, <3>4, <3>5 DEF SentUp
  <2>3. CASE ~s.k.open
    BY <2>1, <2>3, <1>7, <1>1 DEF SentUp
  <2>. QED BY <2>2, <2>3
<1>8. ASSUME Quiet(s), s.k.sending = <<>> PROVE Quiet(r)
  <2>1. No(s.q, "write") /\ One(s.q)
    BY <1>8, QuietIs
  <2>2. One(q) /\ (No(q, "read") <=> No(s.q, "read"))
    BY <2>1, <1>1, AddOne, AddOther, TheJobs
  <2>. HIDE DEF k, o, q, r
  <2>. QED BY <1>8, <1>5, <1>3, <2>2, QuietIs
<1>9. ASSUME Served(s), s.k.sending = <<>> PROVE Served(r)
  <2>1. \A i \in DOMAIN q : q[i] = Job("read", "ok") => i \in DOMAIN s.q /\ s.q[i] = q[i]
    <3>1. CASE s.k.open
      BY <3>1
    <3>2. CASE ~s.k.open
      <4>1. q = Append(s.q, Job("write", "error"))
        BY <3>2
      <4>2. Job("write", "error") # Job("read", "ok")
        BY DEF Job
      <4>3. \A i \in 1 .. Len(s.q) + 1 : i = Len(s.q) + 1 \/ i \in 1 .. Len(s.q)
        BY <1>1, AddJob, TheJobs
      <4>. HIDE DEF q
      <4>. QED BY <4>1, <4>2, <4>3, <1>1, AddJob, TheJobs
    <3>. QED BY <3>1, <3>2
  <2>. HIDE DEF q, r
  <2>. QED BY <1>9, <1>5, <1>6, <2>1 DEF Served, SameFields
<1>. QED BY <1>5, <1>6, <1>7, <1>8, <1>9 DEF r

LEMMA AppendOfConcat ==
  ASSUME NEW S, NEW s \in Seq(S), NEW t \in Seq(S), NEW e \in S
  PROVE  Append(s \o t, e) = s \o Append(t, e)
<1>1. s \o t \in Seq(S) /\ <<e>> \in Seq(S)
  BY ConcatProperties
<1>2. Append(s \o t, e) = (s \o t) \o <<e>>
  BY <1>1, AppendIsConcat
<1>3. Append(t, e) = t \o <<e>>
  BY AppendIsConcat
<1>4. (s \o t) \o <<e>> = s \o (t \o <<e>>)
  BY <1>1, ConcatAssociative
<1>. QED BY <1>2, <1>3, <1>4

LEMMA SendKeeps ==
  ASSUME NEW s \in Worlds, NEW what \in Outs, s.k.life = "live"
  PROVE  LET r == Send(s, what)
         IN  /\ r \in Worlds /\ SameCalls(s, r) /\ SameText(s, r) /\ SameFields(s, r)
             /\ r.k.open = s.k.open
             /\ SentUp(s) => SentUp(r)
             /\ Quiet(s) => Quiet(r)
             /\ Served(s) => Served(r)
<1> DEFINE buffers == Append(s.k.buffers, what)
           a == Append(s.a, what)
           k == [s.k EXCEPT !.buffers = buffers]
           b == [s EXCEPT !.k = k, !.a = a]
<1>1. s.k \in Connection /\ s.k.buffers \in Seq(Outs) /\ s.a \in Seq(Outs) /\ s.o \in Seq(Outs)
  BY DEF Worlds, Connection
<1>2. Send(s, what) = DoWrite(b)
  BY <1>1 DEF Send, Worlds, Connection
<1>. buffers \in Seq(Outs) /\ a \in Seq(Outs) /\ buffers # <<>>
  BY <1>1
<1>. HIDE DEF buffers, a
<1>3. /\ k \in Connection /\ k.life = s.k.life /\ k.open = s.k.open /\ k.reading = s.k.reading
      /\ k.is_reading = s.k.is_reading /\ k.sending = s.k.sending /\ k.buffers = buffers
      /\ k.close_called = s.k.close_called /\ k.message = s.k.message /\ k.binary = s.k.binary
      /\ k.n = s.k.n /\ k.cut = s.k.cut /\ k.frame = s.k.frame /\ k.state = s.k.state /\ k.left = s.k.left
  BY <1>1 DEF Connection
<1>4. b \in Worlds /\ b.k = k /\ b.a = a /\ b.o = s.o /\ b.q = s.q /\ b.m = s.m
  <2>. HIDE DEF k
  <2>. QED BY <1>3, <1>1 DEF Worlds
<1>. HIDE DEF k, b
<1>5. SameCalls(s, b) /\ SameText(s, b) /\ SameFields(s, b) /\ SameJobs(s, b)
  BY <1>3, <1>4 DEF SameCalls, SameText, SameFields, SameJobs
<1>6. ASSUME SentUp(s) PROVE SentUp(b)
  <2>1. b.a = Append(s.a, what) /\ b.o = s.o /\ b.k.buffers = Append(s.k.buffers, what) /\ b.k.open = s.k.open
    BY <1>3, <1>4 DEF a, buffers
  <2>2. s.k.open => Append(s.a, what) = s.o \o Append(s.k.buffers, what)
    <3>1. \A u, v \in Seq(Outs) : \A e \in Outs : Append(u \o v, e) = u \o Append(v, e)
      BY AppendOfConcat, SMTT(60)
    <3>2. Append(s.o \o s.k.buffers, what) = s.o \o Append(s.k.buffers, what)
      <4>1. s.o \in Seq(Outs) /\ s.k.buffers \in Seq(Outs) /\ what \in Outs
        BY <1>1
      <4>. QED BY <3>1, <4>1, Zenon
    <3>. QED BY <3>2, <1>6 DEF SentUp
  <2>3. Len(s.o) <= Len(Append(s.a, what)) /\ \A i \in 1 .. Len(s.o) : s.o[i] = Append(s.a, what)[i]
    BY <1>6, <1>1 DEF SentUp
  <2>. QED BY <2>1, <2>2, <2>3 DEF SentUp
<1>7. Quiet(s) => Quiet(b)
  BY <1>5 DEF SameJobs, Quiet
<1>8. Served(s) => Served(b)
  BY <1>5 DEF SameFields, SameJobs, Served
<1>9. b.k.buffers # <<>> /\ b.k.life = "live" /\ b.k.open = s.k.open
  BY <1>3, <1>4, <1>1
<1>. QED
  BY <1>2, <1>4, <1>5, <1>6, <1>7, <1>8, <1>9, DoWriteKeeps DEF SameCalls, SameText, SameFields

\* close() calls onclose only for the first close frame.
LEMMA CloseKeeps ==
  ASSUME NEW s \in Worlds, NEW why \in {"client", "server"}, s.k.life = "live"
  PROVE  LET r == Close(s, why)
         IN  /\ r \in Worlds /\ SameText(s, r) /\ SameFields(s, r) /\ r.k.open = s.k.open
             /\ SentUp(s) => SentUp(r)
             /\ Quiet(s) => Quiet(r)
             /\ Served(s) => Served(r)
             /\ Closed(s) => Closed(r)
<1> DEFINE k == [s.k EXCEPT !.sent_close = TRUE]
           c == [s EXCEPT !.k.sent_close = TRUE]
           l == [k EXCEPT !.close_called = TRUE]
           d == [c EXCEPT !.k.close_called = TRUE]
           e == Closes(d, why)
           b == IF c.k.recv_close /\ ~c.k.close_called THEN e ELSE c
<1>1. s.k \in Connection
  BY DEF Worlds
<1>2. /\ k \in Connection /\ k.recv_close = s.k.recv_close /\ k.close_called = s.k.close_called
      /\ l \in Connection /\ l.close_called = TRUE
  BY <1>1 DEF Connection
<1>3. \A x \in {k, l} :
        /\ x.life = s.k.life /\ x.open = s.k.open /\ x.reading = s.k.reading
        /\ x.is_reading = s.k.is_reading /\ x.sending = s.k.sending /\ x.buffers = s.k.buffers
        /\ x.message = s.k.message /\ x.binary = s.k.binary
        /\ x.n = s.k.n /\ x.cut = s.k.cut /\ x.frame = s.k.frame /\ x.state = s.k.state /\ x.left = s.k.left
  BY <1>1 DEF Connection
<1>4. /\ c \in Worlds /\ c.k = k /\ c.q = s.q /\ c.o = s.o /\ c.a = s.a /\ c.m = s.m
      /\ d \in Worlds /\ d.k = l /\ d.q = s.q /\ d.o = s.o /\ d.a = s.a /\ d.m = s.m
  <2>1. \A w \in Worlds : \A x \in Connection :
          LET v == [w EXCEPT !.k = x]
          IN  v \in Worlds /\ v.k = x /\ v.q = w.q /\ v.o = w.o /\ v.a = w.a /\ v.m = w.m
    BY DEF Worlds
  <2>2. c = [s EXCEPT !.k = k]
    BY <1>1 DEF Worlds, Connection
  <2>3. c \in Worlds /\ c.k = k /\ c.q = s.q /\ c.o = s.o /\ c.a = s.a /\ c.m = s.m
    <3>. HIDE DEF c, k
    <3>. QED BY <2>1, <2>2, <1>2
  <2>4. d = [c EXCEPT !.k = l]
    <3>. HIDE DEF c, k
    <3>. QED BY <2>3, <1>2 DEF Worlds, Connection
  <2>. HIDE DEF c, d, k, l
  <2>. QED BY <2>1, <2>3, <2>4, <1>2
<1>5. Close(s, why) = Send(b, "close")
  BY Zenon DEF Close
<1>. HIDE DEF k, l, c, d
<1>. why \in {"uncleanly", "client", "server"} /\ d \in Worlds
  BY <1>4
<1>6. /\ e \in Worlds /\ e.k = l /\ e.q = s.q /\ e.o = s.o /\ e.a = s.a
      /\ e.m.messages = s.m.messages /\ e.m.errors = s.m.errors /\ e.m.closes = Append(s.m.closes, why)
  <2>1. LET r == Closes(d, why)
        IN  /\ r \in Worlds /\ r.k = d.k /\ r.q = d.q /\ r.o = d.o /\ r.a = d.a
            /\ r.m.messages = d.m.messages /\ r.m.errors = d.m.errors
            /\ r.m.closes = Append(d.m.closes, why)
    BY ClosesKeeps
  <2>. QED BY <1>4, <2>1
<1>. HIDE DEF e
<1>7. /\ b \in Worlds /\ b.q = s.q /\ b.o = s.o /\ b.a = s.a /\ b.k \in {k, l}
      /\ b.m.messages = s.m.messages /\ b.m.errors = s.m.errors
  BY <1>4, <1>6
<1>8. ASSUME Closed(s) PROVE Closed(b)
  <2>1. s.m.closes \in Seq({"uncleanly", "client", "server"}) /\ s.k.close_called \in BOOLEAN
    BY DEF Worlds, Connection
  <2>5. c.k.recv_close = s.k.recv_close /\ c.k.close_called = s.k.close_called
    BY <1>4, <1>2
  <2>2. CASE s.k.recv_close /\ ~s.k.close_called
    <3>1. b.k.close_called = TRUE /\ b.m.closes = Append(s.m.closes, why)
      BY <2>2, <2>5, <1>6, <1>2
    <3>2. \A i \in DOMAIN s.m.closes : s.m.closes[i] = "uncleanly"
      BY <2>2, <1>8 DEF Closed
    <3>3. \A i \in DOMAIN b.m.closes : b.m.closes[i] = "uncleanly" \/ i = Len(b.m.closes)
      BY <2>1, <3>1, <3>2, SMTT(60)
    <3>. QED BY <3>1, <3>3 DEF Closed
  <2>3. CASE ~(s.k.recv_close /\ ~s.k.close_called)
    BY <2>3, <2>5, <1>4, <1>2, <1>8 DEF Closed
  <2>. QED BY <2>2, <2>3
<1>. HIDE DEF b
<1>9. SameText(s, b) /\ SameFields(s, b) /\ SameJobs(s, b) /\ SameOut(s, b)
  BY <1>7, <1>3 DEF SameText, SameFields, SameJobs, SameOut
<1>10. /\ SentUp(s) => SentUp(b)
       /\ Quiet(s) => Quiet(b)
       /\ Served(s) => Served(b)
  BY <1>9, ZenonT(60) DEF SameJobs, SameFields, SameOut, SentUp, Quiet, Served
<1>11. b.k.life = "live" /\ "close" \in Outs
  BY <1>9 DEF SameJobs, Outs
<1>12. /\ Send(b, "close") \in Worlds /\ SameCalls(b, Send(b, "close")) /\ SameText(b, Send(b, "close"))
       /\ SameFields(b, Send(b, "close")) /\ Send(b, "close").k.open = b.k.open
       /\ SentUp(b) => SentUp(Send(b, "close"))
       /\ Quiet(b) => Quiet(Send(b, "close"))
       /\ Served(b) => Served(Send(b, "close"))
  BY <1>7, <1>11, SendKeeps
<1>13. Closed(b) => Closed(Send(b, "close"))
  BY <1>12 DEF SameCalls, Closed
<1>14. SameText(s, Send(b, "close")) /\ SameFields(s, Send(b, "close")) /\ Send(b, "close").k.open = s.k.open
  BY <1>9, <1>12 DEF SameText, SameFields, SameOut
<1>. QED BY <1>5, <1>8, <1>10, <1>12, <1>13, <1>14

\* do_read starts one read, of a field that there is.
LEMMA DoReadKeeps ==
  ASSUME NEW s \in Worlds, s.k.life = "live", ~s.k.is_reading, s.m.errors = 0, Quiet(s), Served(s),
         s.k.state = "MiniHeader" => s.k.frame = NoFrame
  PROVE  LET r == DoRead(s)
         IN  /\ r \in Worlds /\ SameCalls(s, r) /\ SameText(s, r) /\ SameOut(s, r)
             /\ SentUp(s) => SentUp(r)
             /\ Quiet(r) /\ Served(r)
<1> DEFINE st == IF s.k.state = "Mask" /\ ~s.k.frame.mask THEN "Payload" ELSE s.k.state
           k == [s.k EXCEPT !.is_reading = TRUE, !.state = st]
           l == [k EXCEPT !.reading = TRUE]
           none == st = "Payload" /\ s.k.left = 0
           j == IF none THEN Job("read", "ok") ELSE Job("read", "error")
           q == Append(s.q, j)
           r == DoRead(s)
<1>0. j \in Jobs /\ j.op = "read" /\ (j = Job("read", "ok") => s.k.state # "MiniHeader")
  BY DEF Jobs, Job
<1>1. s.k \in Connection /\ s.q \in Seq(Jobs) /\ st \in States
  BY DEF Worlds, Connection, States
<1>2. st # "MiniHeader" <=> s.k.state # "MiniHeader"
  OBVIOUS
<1>. HIDE DEF st
<1>3. /\ k \in Connection /\ k.reading = s.k.reading
      /\ l \in Connection /\ l.reading = TRUE
  BY <1>1 DEF Connection
<1>4. \A x \in {k, l} :
        /\ x.life = s.k.life /\ x.open = s.k.open
        /\ x.is_reading = TRUE /\ x.sending = s.k.sending /\ x.buffers = s.k.buffers
        /\ x.message = s.k.message /\ x.binary = s.k.binary /\ x.close_called = s.k.close_called
        /\ x.n = s.k.n /\ x.cut = s.k.cut /\ x.frame = s.k.frame /\ x.state = st /\ x.left = s.k.left
  BY <1>1, ZenonT(60) DEF Connection
<1>5. r = IF s.k.open /\ ~none THEN [s EXCEPT !.k = l] ELSE [s EXCEPT !.k = k, !.q = q]
  BY <1>1 DEF DoRead, Worlds, Connection, st
<1>6. q \in Seq(Jobs)
  BY <1>0, <1>1, AddJob
<1>. HIDE DEF none, j
<1>7. /\ r \in Worlds /\ r.m = s.m /\ r.o = s.o /\ r.a = s.a
      /\ s.k.open /\ ~none => r.k = l /\ r.q = s.q
      /\ ~(s.k.open /\ ~none) => r.k = k /\ r.q = q
  <2>. HIDE DEF k, l, q
  <2>. QED BY <1>5, <1>3, <1>6 DEF Worlds
<1>8. r.k \in {k, l}
  BY <1>7
<1>9. No(s.q, "read") /\ s.k.reading = FALSE /\ One(s.q) /\ (s.k.sending = <<>> => No(s.q, "write"))
  BY <1>1, QuietIs DEF Connection
<1>10. One(q) /\ (No(q, "write") <=> No(s.q, "write"))
  BY <1>0, <1>9, <1>1, AddOne, AddOther
<1>11. Quiet(r)
  <2>. HIDE DEF k, l, q, r
  <2>. QED BY <1>3, <1>4, <1>7, <1>8, <1>9, <1>10, QuietIs
<1>12. ASSUME NEW i \in DOMAIN q, q[i] = Job("read", "ok") PROVE s.k.state # "MiniHeader"
  BY <1>0, <1>9, <1>1, <1>12, AddJob DEF No, Job
<1>13. \A i \in DOMAIN s.q : s.q[i] # Job("read", "ok")
  BY <1>9 DEF No, Job
<1>. HIDE DEF k, l, q, r
<1>14. Served(r)
  <2>1. s.k.state # "MiniHeader" => s.k.frame # NoFrame
    BY DEF Served
  <2>. QED BY <2>1, <1>2, <1>4, <1>7, <1>8, <1>12, <1>13 DEF Served
<1>15. SameCalls(s, r) /\ SameText(s, r) /\ SameOut(s, r)
  BY <1>4, <1>7, <1>8 DEF SameCalls, SameText, SameOut
<1>16. SentUp(s) => SentUp(r)
  BY <1>15 DEF SameOut, SentUp
<1>. QED BY <1>7, <1>11, <1>14, <1>15, <1>16 DEF r

-----------------------------------------------------------------------------
(* Messages *)

\* The fragments among the frames P that wait for the end of their message.
Waiting(fs, P) == {i \in DataIn(fs) \cap P : \A d \in EndsIn(fs) \cap P : d < i}

\* What was made of the frames P of fs, if no header was cut.
TextIs(s, fs, P) ==
  ~s.k.cut =>
    /\ Sorted(LastOf(s.m.messages), EndsIn(fs) \cap P)
    /\ \A j \in DOMAIN s.m.messages :
         LET m == s.m.messages[j]
         IN  /\ m.text # <<>> /\ Sorted(m.text, Fragments(fs, Last(m.text)))
             /\ m.binary = (fs[m.text[1]].op = "binary")
    /\ Sorted(s.k.message, Waiting(fs, P))
    /\ s.k.message # <<>> => s.k.binary = (fs[s.k.message[1]].op = "binary")

\* A client starts no message within another, and continues one only there.
Follows(fs, i) ==
  /\ fs[i].op = "cont" => InMessage(SubSeq(fs, 1, i - 1))
  /\ fs[i].op \in {"text", "binary"} => ~InMessage(SubSeq(fs, 1, i - 1))

LEMMA TextKept ==
  ASSUME NEW s, NEW r, SameText(s, r), NEW fs, NEW P, TextIs(s, fs, P)
  PROVE  TextIs(r, fs, P)
BY DEF SameText, TextIs

LEMMA SortedAppend ==
  ASSUME NEW s \in Seq(Nat), NEW S, NEW T, NEW n \in Nat, Sorted(s, S), \A i \in S : i < n, T = S \cup {n}
  PROVE  Append(s, n) \in Seq(Nat) /\ Sorted(Append(s, n), T)
<1>1. /\ Append(s, n) \in Seq(Nat) /\ Len(Append(s, n)) = Len(s) + 1 /\ Append(s, n)[Len(s) + 1] = n
      /\ \A i \in 1 .. Len(s) : Append(s, n)[i] = s[i]
  BY AppendProperties
<1>2. /\ DOMAIN s = 1 .. Len(s) /\ DOMAIN Append(s, n) = 1 .. Len(s) + 1 /\ Len(s) \in Nat
      /\ \A i \in 1 .. Len(s) : s[i] \in Nat
  BY <1>1, LenProperties, ElementOfSeq
<1>3. \A i \in 1 .. Len(s) + 1 : i \in 1 .. Len(s) \/ i = Len(s) + 1
  BY <1>2
<1>4. \A i \in 1 .. Len(s) : i \in 1 .. Len(s) + 1
  BY <1>2
<1>5. Len(s) + 1 \in 1 .. Len(s) + 1
  BY <1>2
<1>6. ToSet(Append(s, n)) = T
  <2>1. \A x : x \in ToSet(Append(s, n)) <=> \E i \in 1 .. Len(s) + 1 : x = Append(s, n)[i]
    BY <1>2 DEF ToSet
  <2>2. \A x : x \in S <=> \E i \in 1 .. Len(s) : x = s[i]
    BY <1>2 DEF Sorted, ToSet
  <2>3. \A x : x \in ToSet(Append(s, n)) <=> x = n \/ \E i \in 1 .. Len(s) : x = s[i]
    BY <1>1, <1>3, <1>4, <1>5, <2>1
  <2>. QED BY <2>2, <2>3
<1>7. ASSUME NEW i \in 1 .. Len(s) + 1, NEW j \in 1 .. Len(s) + 1, i < j
      PROVE  Append(s, n)[i] < Append(s, n)[j]
  <2>1. i \in 1 .. Len(s) /\ Append(s, n)[i] = s[i] /\ s[i] \in S
    <3>1. i \in 1 .. Len(s)
      BY <1>2, <1>7
    <3>. QED BY <3>1, <1>1, <1>2 DEF Sorted, ToSet
  <2>2. CASE j = Len(s) + 1
    BY <2>1, <2>2, <1>1
  <2>3. CASE j \in 1 .. Len(s)
    BY <2>1, <2>3, <1>1, <1>2, <1>7 DEF Sorted
  <2>. QED BY <2>2, <2>3, <1>3
<1>. QED BY <1>1, <1>2, <1>6, <1>7 DEF Sorted

LEMMA SortedEmpty == Sorted(<<>>, {})
BY DEF Sorted, ToSet

\* The frames before n, of which n is the last that came.
LEMMA InMessageIs ==
  ASSUME NEW fs \in Seq(AllFrames), NEW n \in 1 .. Len(fs), NEW message \in Seq(Nat),
         Sorted(message, Waiting(fs, 1 .. n - 1))
  PROVE  InMessage(SubSeq(fs, 1, n - 1)) <=> message # <<>>
<1> DEFINE gs == SubSeq(fs, 1, n - 1)
           P == 1 .. n - 1
<1>1. n \in Nat /\ Len(fs) \in Nat /\ DOMAIN fs = 1 .. Len(fs) /\ n <= Len(fs) /\ n >= 1
  BY LenProperties
<1>2. /\ gs \in Seq(AllFrames) /\ Len(gs) = n - 1 /\ DOMAIN gs = P
      /\ \A i \in P : gs[i] = fs[i] /\ i \in DOMAIN fs /\ i \in Nat
  <2>1. \A i \in 1 .. n - 1 : fs[i] \in AllFrames
    BY <1>1, ElementOfSeq
  <2>2. /\ gs \in Seq(AllFrames) /\ Len(gs) = IF 1 <= n - 1 THEN n - 1 - 1 + 1 ELSE 0
        /\ \A i \in 1 .. n - 1 - 1 + 1 : gs[i] = fs[1 + i - 1]
    BY <2>1, <1>1, SubSeqProperties
  <2>3. Len(gs) = n - 1 /\ \A i \in P : gs[i] = fs[i]
    BY <2>2, <1>1
  <2>. QED BY <2>2, <2>3, <1>1, LenProperties
<1>3. DataIn(gs) = DataIn(fs) \cap P
  BY <1>2 DEF DataIn
<1>. HIDE DEF gs, P
<1>4. InMessage(gs) <=> \E i \in DataIn(fs) \cap P : ~fs[i].fin /\ \A j \in DataIn(fs) \cap P : j <= i
  BY <1>2, <1>3 DEF InMessage
<1>5. \A i \in P : i \in Nat
  BY <1>2
<1>6. ASSUME NEW i \in DataIn(fs) \cap P, ~fs[i].fin, \A j \in DataIn(fs) \cap P : j <= i
      PROVE  message # <<>>
  <2>1. \A d \in EndsIn(fs) \cap P : d <= i /\ d # i /\ d \in Nat /\ i \in Nat
    BY <1>5, <1>6 DEF EndsIn
  <2>2. \A d \in EndsIn(fs) \cap P : d < i
    BY <2>1
  <2>3. i \in Waiting(fs, P)
    BY <2>2 DEF Waiting
  <2>4. i \in ToSet(message)
    BY <2>3 DEF Sorted, P
  <2>. QED BY <2>4 DEF ToSet
<1>7. ASSUME message # <<>>
      PROVE  \E i \in DataIn(fs) \cap P : ~fs[i].fin /\ \A j \in DataIn(fs) \cap P : j <= i
  <2>1. Len(message) \in Nat \ {0} /\ DOMAIN message = 1 .. Len(message)
    BY <1>7, EmptySeq, LenProperties
  <2>2. Len(message) \in DOMAIN message
    BY <2>1
  <2>3. PICK i : i = message[Len(message)]
    OBVIOUS
  <2>4. i \in Waiting(fs, P)
    BY <2>2, <2>3 DEF Sorted, ToSet, P
  <2>5. i \in DataIn(fs) \cap P /\ i \in Nat /\ ~fs[i].fin
    <3>1. i \in DataIn(fs) \cap P /\ i \in Nat
      BY <2>4, <1>5 DEF Waiting
    <3>2. i \notin EndsIn(fs)
      BY <2>4, <3>1 DEF Waiting
    <3>. QED BY <3>1, <3>2 DEF EndsIn
  <2>6. ASSUME NEW j \in DataIn(fs) \cap P, ~(j <= i) PROVE FALSE
    <3>1. j \in Nat /\ j > i
      BY <2>5, <2>6, <1>5
    <3>2. \A d \in EndsIn(fs) \cap P : d < i /\ d \in Nat
      BY <2>4, <1>5 DEF Waiting
    <3>3. \A d \in EndsIn(fs) \cap P : d < j
      BY <3>1, <3>2, <2>5
    <3>4. j \in Waiting(fs, P)
      BY <3>3 DEF Waiting
    <3>5. PICK h \in 1 .. Len(message) : message[h] = j
      BY <3>4, <2>1 DEF Sorted, ToSet, P
    <3>6. h = Len(message) \/ h < Len(message)
      <4>1. Len(message) \in Nat
        BY LenProperties
      <4>. QED BY <4>1
    <3>7. message[h] <= message[Len(message)]
      <4>1. h < Len(message) => message[h] < message[Len(message)]
        BY <2>1, <2>2 DEF Sorted
      <4>. QED BY <4>1, <3>5, <3>6, <2>3, <2>5, <3>1
    <3>. QED BY <3>1, <3>5, <3>7, <2>3, <2>5
  <2>. QED BY <2>5, <2>6
<1>. QED BY <1>4, <1>6, <1>7 DEF gs

\* What Deliver does, after the kind of the message was set.
LEMMA DeliverIs ==
  ASSUME NEW s \in Worlds, NEW binary \in BOOLEAN
  PROVE  LET r == Deliver([s EXCEPT !.k.binary = binary])
             text == Append(s.k.message, s.k.n)
         IN  /\ r \in Worlds /\ SameJobs(s, r) /\ SameOut(s, r) /\ SameCalls(s, r) /\ SameFields(s, r)
             /\ r.k.reading = s.k.reading
             /\ r.k.n = s.k.n /\ r.k.cut = s.k.cut /\ r.k.binary = binary /\ text \in Seq(Nat)
             /\ IF s.k.frame.fin
                THEN /\ r.m.messages = Append(s.m.messages, [text |-> text, binary |-> binary])
                     /\ r.k.message = <<>>
                ELSE r.m.messages = s.m.messages /\ r.k.message = text
<1> DEFINE t == [s EXCEPT !.k.binary = binary]
           text == Append(s.k.message, s.k.n)
           k == [s.k EXCEPT !.binary = binary, !.message = text]
           l == [k EXCEPT !.message = <<>>]
           c == [t EXCEPT !.k.message = Append(@, t.k.n)]
           messages == Append(s.m.messages, [text |-> text, binary |-> binary])
           m == [s.m EXCEPT !.messages = messages]
           d == [c EXCEPT !.m.messages = Append(@, [text |-> c.k.message, binary |-> c.k.binary]),
                          !.k.message = <<>>]
           r == Deliver(t)
<1>1. /\ s.k \in Connection /\ text \in Seq(Nat) /\ <<>> \in Seq(Nat)
      /\ s.m \in [messages : Seq(Message), closes : Seq({"uncleanly", "client", "server"}), errors : Nat]
  BY DEF Worlds, Connection
<1>2. t = [s EXCEPT !.k = [s.k EXCEPT !.binary = binary]] /\ t.k.message = s.k.message /\ t.k.n = s.k.n /\ t.k.cut = s.k.cut
      /\ t.k.frame = s.k.frame
  BY <1>1 DEF Worlds, Connection
<1>3. c = [s EXCEPT !.k = k]
  BY <1>1, <1>2 DEF Worlds, Connection
<1>. HIDE DEF text
<1>4. /\ k \in Connection /\ k.message = text /\ l \in Connection /\ l.message = <<>>
      /\ \A x \in {k, l} :
           /\ x.life = s.k.life /\ x.open = s.k.open /\ x.reading = s.k.reading /\ x.buffers = s.k.buffers
           /\ x.is_reading = s.k.is_reading /\ x.sending = s.k.sending /\ x.binary = binary
           /\ x.close_called = s.k.close_called
           /\ x.n = s.k.n /\ x.cut = s.k.cut /\ x.frame = s.k.frame /\ x.state = s.k.state /\ x.left = s.k.left
  BY <1>1, ZenonT(60) DEF Connection
<1>5. messages \in Seq(Message)
  <2>1. [text |-> text, binary |-> binary] \in Message
    BY <1>1 DEF Message
  <2>. HIDE DEF Message
  <2>. QED BY <2>1, <1>1
<1>6. /\ m \in [messages : Seq(Message), closes : Seq({"uncleanly", "client", "server"}), errors : Nat]
      /\ m.messages = messages /\ m.closes = s.m.closes /\ m.errors = s.m.errors
  <2>. HIDE DEF messages
  <2>. QED BY <1>1, <1>5
<1>7. /\ c \in Worlds /\ c.k = k /\ c.q = s.q /\ c.o = s.o /\ c.a = s.a /\ c.m = s.m
      /\ d \in Worlds /\ d.k = l /\ d.q = s.q /\ d.o = s.o /\ d.a = s.a /\ d.m = m
  <2>1. c \in Worlds /\ c.k = k /\ c.q = s.q /\ c.o = s.o /\ c.a = s.a /\ c.m = s.m
    <3>. HIDE DEF c, k
    <3>. QED BY <1>3, <1>4 DEF Worlds
  <2>2. c.k.message = text /\ c.k.binary = binary
    <3>. HIDE DEF c, k
    <3>. QED BY <2>1, <1>4
  <2>3. d = [c EXCEPT !.k = l, !.m = m]
    <3>. HIDE DEF c, k
    <3>. QED BY <2>1, <2>2, <1>1 DEF Worlds
  <2>4. d \in Worlds /\ d.k = l /\ d.q = c.q /\ d.o = c.o /\ d.a = c.a /\ d.m = m
    <3>. HIDE DEF c, d, l, m
    <3>. QED BY <2>1, <2>3, <1>4, <1>6 DEF Worlds
  <2>. QED BY <2>1, <2>4
<1>8. r = IF s.k.frame.fin THEN d ELSE c
  <2>1. r = IF t.k.frame.fin THEN d ELSE c
    <3>. HIDE DEF t
    <3>. QED BY Zenon DEF Deliver
  <2>. HIDE DEF c, d, t, r
  <2>. QED BY <2>1, <1>2
<1>9. CASE s.k.frame.fin
  <2>. HIDE DEF r, c, d, k, l, m, messages
  <2>1. r = d
    BY <1>8, <1>9
  <2>2. SameJobs(s, d) /\ SameOut(s, d) /\ SameCalls(s, d) /\ SameFields(s, d)
    BY <1>4, <1>6, <1>7 DEF SameJobs, SameOut, SameCalls, SameFields
  <2>. QED BY <2>1, <2>2, <1>1, <1>4, <1>6, <1>7, <1>9 DEF r, messages, text
<1>10. CASE ~s.k.frame.fin
  <2>. HIDE DEF r, c, d, k, l, m, messages
  <2>1. r = c
    BY <1>8, <1>10
  <2>2. SameJobs(s, c) /\ SameOut(s, c) /\ SameCalls(s, c) /\ SameFields(s, c)
    BY <1>4, <1>6, <1>7 DEF SameJobs, SameOut, SameCalls, SameFields
  <2>. QED BY <2>1, <2>2, <1>1, <1>4, <1>6, <1>7, <1>10 DEF r, text
<1>. QED BY <1>9, <1>10

\* A data frame goes to its message, and ends it when it is the final one.
LEMMA DeliverText ==
  ASSUME NEW s \in Worlds, NEW r \in Worlds, NEW fs \in Seq(AllFrames), NEW n \in 1 .. Len(fs), n = Len(fs),
         s.k.n = n, r.k.cut = s.k.cut, ~s.k.cut, n \in DataIn(fs), Follows(fs, n), TextIs(s, fs, 1 .. n - 1),
         r.k.binary = (IF fs[n].op = "cont" THEN s.k.binary ELSE fs[n].op = "binary"),
         IF fs[n].fin
         THEN /\ r.m.messages = Append(s.m.messages, [text |-> Append(s.k.message, n), binary |-> r.k.binary])
              /\ r.k.message = <<>>
         ELSE r.m.messages = s.m.messages /\ r.k.message = Append(s.k.message, n)
  PROVE  TextIs(r, fs, 1 .. n)
<1> DEFINE P == 1 .. n - 1
           Q == 1 .. n
           W == Waiting(fs, P)
           text == Append(s.k.message, n)
<1>1. n \in Nat /\ DOMAIN fs = Q /\ Q = P \cup {n} /\ n \notin P /\ \A i \in P : i \in Nat /\ i < n
  BY LenProperties
<1>2. s.k.message \in Seq(Nat) /\ s.m.messages \in Seq(Message)
  BY DEF Worlds, Connection
<1>3. DataIn(fs) \subseteq Q /\ EndsIn(fs) \subseteq DataIn(fs) /\ (n \in EndsIn(fs) <=> fs[n].fin)
  BY <1>1 DEF DataIn, EndsIn
<1>. HIDE DEF P, Q
<1>4. W \subseteq P /\ \A i \in W : i < n
  BY <1>1 DEF Waiting
<1>5. text \in Seq(Nat) /\ Sorted(text, W \cup {n})
  <2>1. Sorted(s.k.message, W)
    BY DEF TextIs, P
  <2>. HIDE DEF W
  <2>. QED BY <2>1, <1>4, <1>2, <1>1, SortedAppend
<1>6. s.k.message # <<>> => s.k.binary = (fs[s.k.message[1]].op = "binary")
  BY DEF TextIs
<1>7. Len(text) = Len(s.k.message) + 1 /\ text[Len(text)] = n /\ text # <<>> /\ Last(text) = n
      /\ Len(s.k.message) \in Nat
      /\ \A i \in 1 .. Len(s.k.message) : text[i] = s.k.message[i]
  BY <1>1, <1>2, AppendProperties, LenProperties DEF Last
<1>8. fs[n].op = "cont" <=> s.k.message # <<>>
  <2>1. InMessage(SubSeq(fs, 1, n - 1)) <=> s.k.message # <<>>
    BY <1>2, InMessageIs DEF TextIs
  <2>2. fs[n].op \in {"text", "binary", "cont"}
    BY DEF DataIn
  <2>. QED BY <2>1, <2>2 DEF Follows
<1>9. r.k.binary = (fs[text[1]].op = "binary")
  <2>1. CASE s.k.message = <<>>
    <3>1. text[1] = n
      BY <2>1, <1>7, EmptySeq
    <3>. QED BY <3>1, <2>1, <1>8
  <2>2. CASE s.k.message # <<>>
    <3>1. 1 \in 1 .. Len(s.k.message)
      BY <2>2, <1>2, <1>7, EmptySeq
    <3>2. text[1] = s.k.message[1]
      BY <3>1, <1>7
    <3>. QED BY <3>2, <2>2, <1>6, <1>8
  <2>. QED BY <2>1, <2>2
<1>. HIDE DEF text
<1>10. CASE ~fs[n].fin
  <2>1. EndsIn(fs) \cap Q = EndsIn(fs) \cap P
    BY <1>1, <1>3, <1>10
  <2>2. Waiting(fs, Q) = W \cup {n}
    BY <2>1, <1>1, <1>3 DEF Waiting
  <2>3. r.m.messages = s.m.messages /\ r.k.message = text
    BY <1>10 DEF text
  <2>4. Sorted(LastOf(r.m.messages), EndsIn(fs) \cap Q)
    BY <2>1, <2>3 DEF TextIs, P
  <2>5. \A j \in DOMAIN r.m.messages :
          LET m == r.m.messages[j]
          IN  /\ m.text # <<>> /\ Sorted(m.text, Fragments(fs, Last(m.text)))
              /\ m.binary = (fs[m.text[1]].op = "binary")
    BY <2>3 DEF TextIs
  <2>6. Sorted(r.k.message, Waiting(fs, Q)) /\ r.k.message # <<>>
    BY <2>2, <2>3, <1>5, <1>7
  <2>. QED BY <2>3, <2>4, <2>5, <2>6, <1>9 DEF TextIs, Q
<1>11. CASE fs[n].fin
  <2> DEFINE new == [text |-> text, binary |-> r.k.binary]
  <2>1. EndsIn(fs) \cap Q = (EndsIn(fs) \cap P) \cup {n}
    BY <1>1, <1>3, <1>11
  <2>2. Waiting(fs, Q) = {}
    <3>1. \A i \in Q : ~(n < i)
      BY <1>1
    <3>2. n \in EndsIn(fs) \cap Q
      BY <1>1, <1>3, <1>11
    <3>. QED BY <3>1, <3>2 DEF Waiting
  <2>3. Fragments(fs, n) = W \cup {n}
    <3>1. \A d \in EndsIn(fs) : d < n <=> d \in P
      BY <1>1, <1>3
    <3>2. \A i \in Q : i <= n
      BY <1>1
    <3>. QED BY <3>1, <3>2, <1>1, <1>3 DEF Fragments, Waiting
  <2>4. r.m.messages = Append(s.m.messages, new) /\ r.k.message = <<>>
    BY <1>11 DEF text
  <2>5. new.text = text /\ new.binary = r.k.binary /\ new \in Message
    BY <1>5 DEF Message, Worlds, Connection
  <2>. HIDE DEF new
  <2>6. /\ Len(r.m.messages) = Len(s.m.messages) + 1 /\ Len(s.m.messages) \in Nat
        /\ r.m.messages[Len(s.m.messages) + 1] = new
        /\ \A j \in 1 .. Len(s.m.messages) : r.m.messages[j] = s.m.messages[j]
        /\ DOMAIN s.m.messages = 1 .. Len(s.m.messages) /\ r.m.messages \in Seq(Message)
        /\ DOMAIN r.m.messages = 1 .. Len(s.m.messages) + 1
    BY <2>4, <2>5, <1>2, AppendProperties, LenProperties
  <2>7. \A j \in DOMAIN r.m.messages :
          \/ j \in DOMAIN s.m.messages /\ r.m.messages[j] = s.m.messages[j]
          \/ j = Len(s.m.messages) + 1 /\ r.m.messages[j] = new
    <3>1. \A j \in 1 .. Len(s.m.messages) + 1 : j \in 1 .. Len(s.m.messages) \/ j = Len(s.m.messages) + 1
      BY <2>6
    <3>. QED BY <3>1, <2>6
  <2>8. \A j \in DOMAIN r.m.messages :
          LET m == r.m.messages[j]
          IN  /\ m.text # <<>> /\ Sorted(m.text, Fragments(fs, Last(m.text)))
              /\ m.binary = (fs[m.text[1]].op = "binary")
    <3>1. \A j \in DOMAIN s.m.messages :
            LET m == s.m.messages[j]
            IN  /\ m.text # <<>> /\ Sorted(m.text, Fragments(fs, Last(m.text)))
                /\ m.binary = (fs[m.text[1]].op = "binary")
      BY DEF TextIs
    <3>2. new.text # <<>> /\ Sorted(new.text, Fragments(fs, Last(new.text)))
          /\ new.binary = (fs[new.text[1]].op = "binary")
      BY <2>3, <2>5, <1>5, <1>7, <1>9
    <3>. QED BY <2>7, <3>1, <3>2
  <2>9. LastOf(r.m.messages) = Append(LastOf(s.m.messages), n)
        /\ LastOf(s.m.messages) \in Seq(Nat)
    <3>1. \A j \in 1 .. Len(s.m.messages) : Last(s.m.messages[j].text) \in Nat
      <4>1. \A j \in DOMAIN s.m.messages : s.m.messages[j] \in Message
        BY <1>2
      <4>2. \A j \in DOMAIN s.m.messages : s.m.messages[j].text \in Seq(Nat) /\ s.m.messages[j].text # <<>>
        BY <4>1 DEF TextIs, Message
      <4>3. \A t \in Seq(Nat) : t # <<>> => Last(t) \in Nat
        BY EmptySeq, LenProperties, ElementOfSeq DEF Last
      <4>. QED BY <4>2, <4>3, <2>6
    <3>2. /\ LastOf(s.m.messages) \in Seq(Nat) /\ Len(LastOf(s.m.messages)) = Len(s.m.messages)
          /\ \A j \in 1 .. Len(s.m.messages) : LastOf(s.m.messages)[j] = Last(s.m.messages[j].text)
      BY <3>1, <2>6 DEF LastOf
    <3>3. DOMAIN LastOf(r.m.messages) = 1 .. Len(s.m.messages) + 1
          /\ LastOf(r.m.messages) = [j \in 1 .. Len(s.m.messages) + 1 |-> Last(r.m.messages[j].text)]
      BY <2>6 DEF LastOf
    <3>4. PICK L \in Seq(Nat) : L = LastOf(s.m.messages)
      BY <3>2
    <3>5. /\ Append(L, n) \in Seq(Nat) /\ Len(Append(L, n)) = Len(L) + 1 /\ Len(L) = Len(s.m.messages)
          /\ Append(L, n)[Len(L) + 1] = n /\ \A j \in 1 .. Len(L) : Append(L, n)[j] = L[j]
      BY <3>2, <3>4, <1>1, AppendProperties
    <3>6. ASSUME NEW j \in 1 .. Len(s.m.messages) + 1
          PROVE  Last(r.m.messages[j].text) = Append(L, n)[j]
      <4>1. CASE j \in DOMAIN s.m.messages /\ r.m.messages[j] = s.m.messages[j]
        <5>1. j \in 1 .. Len(L) /\ j \in 1 .. Len(s.m.messages)
          BY <4>1, <2>6, <3>5
        <5>2. L[j] = Last(s.m.messages[j].text)
          BY <3>2, <3>4, <5>1
        <5>. QED BY <4>1, <5>1, <5>2, <3>5
      <4>2. CASE j = Len(s.m.messages) + 1 /\ r.m.messages[j] = new
        BY <4>2, <3>5, <2>5, <1>7
      <4>. QED BY <4>1, <4>2, <2>6, <2>7
    <3>7. Append(L, n) = [j \in 1 .. Len(s.m.messages) + 1 |-> Append(L, n)[j]]
      BY <3>5, LenProperties
    <3>. QED BY <3>2, <3>3, <3>4, <3>6, <3>7
  <2>10. Sorted(LastOf(r.m.messages), EndsIn(fs) \cap Q)
    <3>1. Sorted(LastOf(s.m.messages), EndsIn(fs) \cap P)
      BY DEF TextIs, P
    <3>2. \A i \in EndsIn(fs) \cap P : i < n
      BY <1>1
    <3>3. PICK L \in Seq(Nat) : L = LastOf(s.m.messages)
      BY <2>9
    <3>4. Sorted(Append(L, n), EndsIn(fs) \cap Q)
      BY <3>1, <3>2, <3>3, <2>1, <1>1, SortedAppend
    <3>. QED BY <3>3, <3>4, <2>9
  <2>11. Sorted(r.k.message, Waiting(fs, Q))
    BY <2>2, <2>4, SortedEmpty
  <2>. QED BY <2>4, <2>8, <2>10, <2>11 DEF TextIs, Q
<1>. QED BY <1>10, <1>11

-----------------------------------------------------------------------------
(* Frames *)

\* Flags no part of the invariant speaks of.
LEMMA FlagsKept ==
  ASSUME NEW s \in Worlds, NEW k \in Connection,
         /\ k.life = s.k.life /\ k.open = s.k.open /\ k.reading = s.k.reading /\ k.is_reading = s.k.is_reading
         /\ k.sending = s.k.sending /\ k.buffers = s.k.buffers /\ k.close_called = s.k.close_called
         /\ k.message = s.k.message /\ k.binary = s.k.binary /\ k.n = s.k.n /\ k.cut = s.k.cut /\ k.frame = s.k.frame
         /\ k.state = s.k.state /\ k.left = s.k.left
  PROVE  LET r == [s EXCEPT !.k = k]
         IN  /\ r \in Worlds /\ r.k = k /\ r.m = s.m /\ SameText(s, r) /\ SameFields(s, r) /\ SameJobs(s, r)
             /\ SentUp(s) => SentUp(r)
             /\ Quiet(s) => Quiet(r)
             /\ Served(s) => Served(r)
             /\ Closed(s) => Closed(r)
<1> DEFINE r == [s EXCEPT !.k = k]
<1>1. r \in Worlds /\ r.k = k /\ r.m = s.m /\ r.q = s.q /\ r.o = s.o /\ r.a = s.a
  BY DEF Worlds
<1>. HIDE DEF r
<1>2. SameText(s, r) /\ SameFields(s, r) /\ SameJobs(s, r) /\ SameOut(s, r) /\ SameCalls(s, r)
  BY <1>1 DEF SameText, SameFields, SameJobs, SameOut, SameCalls
<1>3. (SentUp(s) => SentUp(r)) /\ (Quiet(s) => Quiet(r)) /\ (Closed(s) => Closed(r))
  <2>1. SentUp(s) => SentUp(r)
    BY <1>2 DEF SameOut, SentUp
  <2>2. Quiet(s) => Quiet(r)
    BY <1>2 DEF SameJobs, Quiet
  <2>3. Closed(s) => Closed(r)
    BY <1>2 DEF SameCalls, Closed
  <2>. QED BY <2>1, <2>2, <2>3
<1>4. Served(s) => Served(r)
  BY <1>2 DEF SameJobs, SameFields, Served
<1>. QED BY <1>1, <1>2, <1>3, <1>4 DEF r

\* handle_fragment, called between two reads with a frame that came whole.
LEMMA HandleFragmentKeeps ==
  ASSUME NEW s \in Worlds, NEW fs \in Seq(AllFrames), NEW n \in 1 .. Len(fs), n = Len(fs),
         s.k.life = "live", ~s.k.is_reading, s.k.n = n, s.k.frame = fs[n], ~s.k.cut => Follows(fs, n),
         TextIs(s, fs, 1 .. n - 1), SentUp(s), Quiet(s), Served(s), Closed(s)
  PROVE  LET r == HandleFragment(s)
         IN  /\ r \in Worlds /\ ~r.k.is_reading /\ r.m.errors = s.m.errors /\ r.k.n = n /\ r.k.cut = s.k.cut
             /\ TextIs(r, fs, 1 .. n) /\ SentUp(r) /\ Quiet(r) /\ Served(r) /\ Closed(r)
<1> DEFINE r == HandleFragment(s)
           op == s.k.frame.op
<1>. SUFFICES /\ r \in Worlds /\ ~r.k.is_reading /\ r.m.errors = s.m.errors /\ r.k.n = n /\ r.k.cut = s.k.cut
              /\ TextIs(r, fs, 1 .. n) /\ SentUp(r) /\ Quiet(r) /\ Served(r) /\ Closed(r)
  OBVIOUS
<1>0. /\ fs[n] \in AllFrames /\ op \in {"text", "binary", "cont", "close", "ping", "pong"}
      /\ s.k.frame.fin \in BOOLEAN /\ s.k \in Connection /\ n \in Nat /\ n \in DOMAIN fs /\ DOMAIN fs = 1 .. n
  <2>1. fs[n] \in AllFrames /\ DOMAIN fs = 1 .. Len(fs)
    BY ElementOfSeq, LenProperties
  <2>2. op \in {"text", "binary", "cont", "close", "ping", "pong"} /\ s.k.frame.fin \in BOOLEAN
    BY <2>1 DEF AllFrames
  <2>. QED BY <2>1, <2>2 DEF Worlds
<1>1. ASSUME op \notin {"text", "binary", "cont"} PROVE TextIs(s, fs, 1 .. n)
  <2>1. n \notin DataIn(fs)
    BY <1>1 DEF DataIn
  <2>2. DataIn(fs) \cap (1 .. n) = DataIn(fs) \cap (1 .. n - 1) /\ EndsIn(fs) \cap (1 .. n) = EndsIn(fs) \cap (1 .. n - 1)
    BY <2>1, <1>0 DEF EndsIn
  <2>3. Waiting(fs, 1 .. n) = Waiting(fs, 1 .. n - 1)
    BY <2>2 DEF Waiting
  <2>. QED BY <2>2, <2>3 DEF TextIs
<1>2. CASE op = "ping"
  <2>1. r = Send(s, "pong") /\ "pong" \in Outs
    BY <1>2 DEF HandleFragment, Outs
  <2>2. r \in Worlds /\ SameCalls(s, r) /\ SameText(s, r) /\ SameFields(s, r) /\ SentUp(r) /\ Quiet(r) /\ Served(r)
    BY <2>1, SendKeeps
  <2>3. Closed(r) /\ ~r.k.is_reading /\ r.m.errors = s.m.errors /\ r.k.n = n /\ r.k.cut = s.k.cut
    BY <2>2 DEF SameCalls, Closed, SameFields, SameText
  <2>. HIDE DEF r
  <2>. QED BY <1>1, <1>2, <2>2, <2>3, TextKept
<1>3. CASE op = "pong"
  <2>1. r = s
    BY <1>3 DEF HandleFragment
  <2>. HIDE DEF r
  <2>. QED BY <1>1, <1>3, <2>1
<1>4. CASE op = "close" /\ ~s.k.sent_close
  <2> DEFINE k == [s.k EXCEPT !.recv_close = TRUE]
             c == [s EXCEPT !.k.recv_close = TRUE]
  <2>1. r = Close(c, "client")
    BY <1>4, Zenon DEF HandleFragment
  <2>2. c = [s EXCEPT !.k = k]
    BY DEF Worlds
  <2>3. /\ k \in Connection
        /\ k.life = s.k.life /\ k.open = s.k.open /\ k.reading = s.k.reading /\ k.is_reading = s.k.is_reading
        /\ k.sending = s.k.sending /\ k.buffers = s.k.buffers /\ k.close_called = s.k.close_called
        /\ k.message = s.k.message /\ k.binary = s.k.binary /\ k.n = s.k.n /\ k.cut = s.k.cut /\ k.frame = s.k.frame
        /\ k.state = s.k.state /\ k.left = s.k.left
    BY <1>0 DEF Connection
  <2>. HIDE DEF k
  <2>4. /\ c \in Worlds /\ SameText(s, c) /\ SameFields(s, c) /\ SentUp(c) /\ Quiet(c) /\ Served(c) /\ Closed(c)
    BY <2>2, <2>3, FlagsKept
  <2>. HIDE DEF c
  <2>5. c.k.life = "live"
    BY <2>4 DEF SameFields
  <2>6. /\ Close(c, "client") \in Worlds /\ SameText(c, Close(c, "client")) /\ SameFields(c, Close(c, "client"))
        /\ SentUp(Close(c, "client")) /\ Quiet(Close(c, "client")) /\ Served(Close(c, "client"))
        /\ Closed(Close(c, "client"))
    BY <2>4, <2>5, CloseKeeps
  <2>7. SameText(s, r) /\ SameFields(s, r)
    BY <2>1, <2>4, <2>6 DEF SameText, SameFields
  <2>8. ~r.k.is_reading /\ r.m.errors = s.m.errors /\ r.k.n = n /\ r.k.cut = s.k.cut
    BY <2>7 DEF SameText, SameFields
  <2>. HIDE DEF r
  <2>. QED BY <1>1, <1>4, <2>1, <2>6, <2>7, <2>8, TextKept
<1>5. CASE op = "close" /\ s.k.sent_close
  <2> DEFINE b == CloseSocket(s)
             c == [b EXCEPT !.k.recv_close = TRUE, !.k.close = TRUE]
             d == [c EXCEPT !.k.close_called = TRUE]
             e == Closes(d, "client")
             h == IF c.k.close_called THEN c ELSE e
             k == [b.k EXCEPT !.recv_close = TRUE, !.close = TRUE]
             l == [k EXCEPT !.close_called = TRUE]
  <2>1. r = CheckDestroy(h)
    <3>1. op # "ping" /\ op # "pong" /\ ~(op = "close" /\ ~s.k.sent_close)
      BY <1>5
    <3>. HIDE DEF r
    <3>. QED BY <1>5, <3>1, Zenon DEF r, HandleFragment
  <2>2. /\ b \in Worlds /\ SameCalls(s, b) /\ SameText(s, b) /\ SameFields(s, b)
        /\ SentUp(b) /\ Quiet(b) /\ Served(b)
    BY CloseSocketKeeps
  <2>3. Closed(b) /\ b.k \in Connection
    BY <2>2 DEF SameCalls, Closed, Worlds
  <2>. HIDE DEF b
  <2>4. /\ k \in Connection
        /\ k.life = b.k.life /\ k.open = b.k.open /\ k.reading = b.k.reading /\ k.is_reading = b.k.is_reading
        /\ k.sending = b.k.sending /\ k.buffers = b.k.buffers /\ k.close_called = b.k.close_called
        /\ k.message = b.k.message /\ k.binary = b.k.binary /\ k.n = b.k.n /\ k.cut = b.k.cut /\ k.frame = b.k.frame
        /\ k.state = b.k.state /\ k.left = b.k.left
    BY <2>3 DEF Connection
  <2>5. c = [b EXCEPT !.k = k]
    BY <2>2, <2>3 DEF Worlds, Connection
  <2>. HIDE DEF k
  <2>6. /\ c \in Worlds /\ c.k = k /\ c.m = b.m /\ SameText(b, c) /\ SameFields(b, c) /\ SameJobs(b, c)
        /\ SentUp(c) /\ Quiet(c) /\ Served(c) /\ Closed(c)
    BY <2>2, <2>3, <2>4, <2>5, FlagsKept, ZenonT(60)
  <2>. HIDE DEF c
  <2>7. /\ h \in Worlds /\ SameText(c, h) /\ SameFields(c, h)
        /\ SentUp(h) /\ Quiet(h) /\ Served(h) /\ Closed(h)
    <3>1. CASE c.k.close_called
      <4>1. h = c
        BY <3>1
      <4>. HIDE DEF h
      <4>. QED BY <4>1, <2>6 DEF SameText, SameFields
    <3>2. CASE ~c.k.close_called
      <4>0. /\ l \in Connection /\ l.close_called = TRUE
            /\ l.life = c.k.life /\ l.open = c.k.open /\ l.reading = c.k.reading /\ l.is_reading = c.k.is_reading
            /\ l.sending = c.k.sending /\ l.buffers = c.k.buffers
            /\ l.message = c.k.message /\ l.binary = c.k.binary /\ l.n = c.k.n /\ l.cut = c.k.cut /\ l.frame = c.k.frame
            /\ l.state = c.k.state /\ l.left = c.k.left
        BY <2>6, <2>4 DEF Connection
      <4>1. d = [c EXCEPT !.k = l]
        BY <2>6 DEF Worlds
      <4>. HIDE DEF l
      <4>2. d \in Worlds /\ d.k = l /\ d.q = c.q /\ d.o = c.o /\ d.a = c.a /\ d.m = c.m
        BY <4>0, <4>1, <2>6 DEF Worlds
      <4>. HIDE DEF d
      <4>3. /\ e \in Worlds /\ e.k = l /\ e.q = c.q /\ e.o = c.o /\ e.a = c.a
            /\ e.m.messages = c.m.messages /\ e.m.errors = c.m.errors
            /\ e.m.closes = Append(c.m.closes, "client")
        <5>1. LET x == Closes(d, "client")
              IN  /\ x \in Worlds /\ x.k = d.k /\ x.q = d.q /\ x.o = d.o /\ x.a = d.a
                  /\ x.m.messages = d.m.messages /\ x.m.errors = d.m.errors
                  /\ x.m.closes = Append(d.m.closes, "client")
          BY <4>2, ClosesKeeps
        <5>. QED BY <5>1, <4>2
      <4>4. h = e
        BY <3>2
      <4>. HIDE DEF e, h
      <4>5. SameText(c, e) /\ SameFields(c, e) /\ SameJobs(c, e) /\ SameOut(c, e)
        BY <4>0, <4>3 DEF SameText, SameFields, SameJobs, SameOut
      <4>6. SentUp(e) /\ Quiet(e)
        <5>1. SentUp(e)
          BY <4>5, <2>6 DEF SameOut, SentUp
        <5>2. Quiet(e)
          BY <4>5, <2>6 DEF SameJobs, Quiet
        <5>. QED BY <5>1, <5>2
      <4>7. Served(e)
        BY <4>0, <4>3, <4>5, <2>6 DEF SameJobs, SameFields, Served
      <4>8. Closed(e)
        <5>1. c.m.closes \in Seq({"uncleanly", "client", "server"})
          BY <2>6 DEF Worlds
        <5>2. \A i \in DOMAIN c.m.closes : c.m.closes[i] = "uncleanly"
          BY <3>2, <2>6 DEF Closed
        <5>3. \A i \in DOMAIN e.m.closes : e.m.closes[i] = "uncleanly" \/ i = Len(e.m.closes)
          BY <5>1, <5>2, <4>3
        <5>. QED BY <5>3, <4>0, <4>3 DEF Closed
      <4>. QED BY <4>3, <4>4, <4>5, <4>6, <4>7, <4>8
    <3>. QED BY <3>1, <3>2
  <2>. HIDE DEF h
  <2>8. /\ CheckDestroy(h) \in Worlds /\ SameText(h, CheckDestroy(h))
        /\ CheckDestroy(h).k.is_reading = h.k.is_reading /\ CheckDestroy(h).m.errors = h.m.errors
        /\ SentUp(CheckDestroy(h)) /\ Quiet(CheckDestroy(h)) /\ Served(CheckDestroy(h)) /\ Closed(CheckDestroy(h))
    BY <2>7, CheckDestroyKeeps
  <2>9. SameText(s, r)
    BY <2>1, <2>2, <2>6, <2>7, <2>8 DEF SameText
  <2>10. ~r.k.is_reading /\ r.m.errors = s.m.errors
    BY <2>1, <2>2, <2>6, <2>7, <2>8 DEF SameFields
  <2>11. r.k.n = n /\ r.k.cut = s.k.cut
    BY <2>9 DEF SameText
  <2>. HIDE DEF r
  <2>. QED BY <1>1, <1>5, <2>1, <2>8, <2>9, <2>10, <2>11, TextKept
<1>6. CASE op \in {"text", "binary", "cont"}
  <2> DEFINE binary == IF op = "cont" THEN s.k.binary ELSE op = "binary"
  <2>1. [s EXCEPT !.k.binary = IF s.k.frame.op = "cont" THEN @ ELSE s.k.frame.op = "binary"]
        = [s EXCEPT !.k.binary = binary]
    BY <1>0 DEF Worlds, Connection
  <2>2. binary \in BOOLEAN
    BY <1>0 DEF Connection
  <2>. HIDE DEF binary
  <2>3. r = Deliver([s EXCEPT !.k.binary = binary])
    <3>1. op # "ping" /\ op # "pong" /\ op # "close"
      BY <1>6
    <3>2. r = Deliver([s EXCEPT !.k.binary = IF s.k.frame.op = "cont" THEN @ ELSE s.k.frame.op = "binary"])
      BY <3>1, Zenon DEF HandleFragment
    <3>. HIDE DEF r
    <3>. QED BY <3>2, <2>1
  <2>4. /\ r \in Worlds /\ SameJobs(s, r) /\ SameOut(s, r) /\ SameCalls(s, r) /\ SameFields(s, r)
        /\ r.k.reading = s.k.reading /\ r.k.n = s.k.n /\ r.k.cut = s.k.cut /\ r.k.binary = binary
        /\ IF s.k.frame.fin
           THEN /\ r.m.messages = Append(s.m.messages, [text |-> Append(s.k.message, s.k.n), binary |-> binary])
                /\ r.k.message = <<>>
           ELSE r.m.messages = s.m.messages /\ r.k.message = Append(s.k.message, s.k.n)
    <3>1. LET x == Deliver([s EXCEPT !.k.binary = binary])
              text == Append(s.k.message, s.k.n)
          IN  /\ x \in Worlds /\ SameJobs(s, x) /\ SameOut(s, x) /\ SameCalls(s, x) /\ SameFields(s, x)
              /\ x.k.reading = s.k.reading
              /\ x.k.n = s.k.n /\ x.k.cut = s.k.cut /\ x.k.binary = binary /\ text \in Seq(Nat)
              /\ IF s.k.frame.fin
                 THEN /\ x.m.messages = Append(s.m.messages, [text |-> text, binary |-> binary])
                      /\ x.k.message = <<>>
                 ELSE x.m.messages = s.m.messages /\ x.k.message = text
      BY <2>2, DeliverIs
    <3>. HIDE DEF r
    <3>. QED BY <2>3, <3>1
  <2>. HIDE DEF r
  <2>5. SentUp(r) /\ Quiet(r) /\ Closed(r)
    <3>1. SentUp(r)
      BY <2>4, ZenonT(60) DEF SameJobs, SameOut, SentUp
    <3>2. Quiet(r)
      BY <2>4, ZenonT(60) DEF SameJobs, SameOut, Quiet
    <3>3. Closed(r)
      BY <2>4, ZenonT(60) DEF SameCalls, Closed
    <3>. QED BY <3>1, <3>2, <3>3
  <2>6. Served(r)
    BY <2>4 DEF SameJobs, SameFields, Served
  <2>7. ~r.k.is_reading /\ r.m.errors = s.m.errors
    BY <2>4 DEF SameFields
  <2>8. TextIs(r, fs, 1 .. n)
    <3>1. n \in DataIn(fs)
      BY <1>0, <1>6 DEF DataIn
    <3>2. r.k.binary = (IF fs[n].op = "cont" THEN s.k.binary ELSE fs[n].op = "binary")
      BY <2>4 DEF binary
    <3>3. CASE s.k.cut
      BY <3>3, <2>4 DEF TextIs
    <3>4. CASE ~s.k.cut
      BY <3>1, <3>2, <3>4, <2>4, DeliverText
    <3>. QED BY <3>3, <3>4
  <2>. QED BY <2>4, <2>5, <2>6, <2>7, <2>8
<1>. QED BY <1>0, <1>2, <1>3, <1>4, <1>5, <1>6

\* What is read, and what was made of it.
Past(s, fs) == {i \in DOMAIN fs : s.k.frame = NoFrame \/ i < s.k.n}
Reads(s, fs) ==
  /\ s.k.n = Len(fs)
  /\ s.k.frame # NoFrame => fs # <<>> /\ s.k.frame = fs[Len(fs)]
  /\ TextIs(s, fs, Past(s, fs))
  /\ ~s.k.cut => \A i \in DOMAIN fs : Follows(fs, i)

LEMMA ReadsKept ==
  ASSUME NEW s, NEW r, SameText(s, r), NEW fs, Reads(s, fs)
  PROVE  Reads(r, fs)
<1>1. Past(r, fs) = Past(s, fs)
  BY DEF SameText, Past
<1>2. TextIs(r, fs, Past(r, fs))
  BY <1>1, TextKept DEF Reads
<1>. QED BY <1>2 DEF SameText, Reads

\* The next field of a frame.
LEMMA NextField ==
  ASSUME NEW s \in Worlds, NEW fs, NEW state \in States \ {"MiniHeader"}, NEW left \in 0 .. 2,
         s.k.life = "live", ~s.k.is_reading, s.k.frame # NoFrame,
         Reads(s, fs), SentUp(s), Quiet(s), Served(s), Closed(s)
  PROVE  LET r == [s EXCEPT !.k = [s.k EXCEPT !.state = state, !.left = left]]
         IN  /\ r \in Worlds /\ ~r.k.is_reading /\ r.m.errors = s.m.errors /\ r.k.state = state
             /\ Reads(r, fs) /\ SentUp(r) /\ Quiet(r) /\ Served(r) /\ Closed(r)
<1> DEFINE k == [s.k EXCEPT !.state = state, !.left = left]
           r == [s EXCEPT !.k = k]
<1>1. /\ k \in Connection
      /\ k.life = s.k.life /\ k.open = s.k.open /\ k.reading = s.k.reading /\ k.is_reading = s.k.is_reading
      /\ k.sending = s.k.sending /\ k.buffers = s.k.buffers /\ k.close_called = s.k.close_called
      /\ k.message = s.k.message /\ k.binary = s.k.binary /\ k.n = s.k.n /\ k.cut = s.k.cut /\ k.frame = s.k.frame
      /\ k.state = state /\ k.left = left
  <2>1. s.k \in Connection /\ state \in States /\ left \in 0 .. 2
    BY DEF Worlds
  <2>. HIDE DEF States
  <2>. QED BY <2>1 DEF Connection
<1>. HIDE DEF k
<1>2. r \in Worlds /\ r.k = k /\ r.m = s.m /\ r.q = s.q /\ r.o = s.o /\ r.a = s.a
  BY <1>1 DEF Worlds
<1>. HIDE DEF r
<1>3. SameText(s, r) /\ SameJobs(s, r) /\ SameOut(s, r) /\ SameCalls(s, r)
  BY <1>1, <1>2 DEF SameText, SameJobs, SameOut, SameCalls
<1>4. SentUp(r)
  BY <1>3 DEF SameOut, SentUp
<1>5. Quiet(r)
  BY <1>3 DEF SameJobs, Quiet
<1>6. Closed(r)
  BY <1>3 DEF SameCalls, Closed
<1>7. Served(r)
  <2>1. state # "MiniHeader"
    OBVIOUS
  <2>. QED BY <1>1, <1>2, <2>1 DEF Served
<1>. QED BY <1>1, <1>2, <1>3, <1>4, <1>5, <1>6, <1>7, ReadsKept DEF r, k

\* What a read is followed by, before the next one is started.
LEMMA AfterKeeps ==
  ASSUME NEW s \in Worlds, NEW fs \in Seq(AllFrames), s.k.life = "live", ~s.k.is_reading,
         s.k.frame # NoFrame, ~s.k.cut => Follows(fs, Len(fs)),
         Reads(s, fs), SentUp(s), Quiet(s), Served(s), Closed(s)
  PROVE  LET r == After(s)
         IN  /\ r \in Worlds /\ ~r.k.is_reading /\ r.m.errors = s.m.errors
             /\ r.k.state = "MiniHeader" => r.k.frame = NoFrame
             /\ Reads(r, fs) /\ SentUp(r) /\ Quiet(r) /\ Served(r) /\ Closed(r)
<1> DEFINE r == After(s)
           n == Len(fs)
           Field(state, left) == [s EXCEPT !.k = [s.k EXCEPT !.state = state, !.left = left]]
<1>. SUFFICES /\ r \in Worlds /\ ~r.k.is_reading /\ r.m.errors = s.m.errors
              /\ r.k.state = "MiniHeader" => r.k.frame = NoFrame
              /\ Reads(r, fs) /\ SentUp(r) /\ Quiet(r) /\ Served(r) /\ Closed(r)
  OBVIOUS
<1>1. /\ fs # <<>> /\ n \in Nat \ {0} /\ n \in 1 .. Len(fs) /\ DOMAIN fs = 1 .. n /\ s.k.frame = fs[n] /\ s.k.n = n
      /\ s.k \in Connection /\ s.k.left \in 0 .. 2
  <2>1. fs # <<>> /\ s.k.frame = fs[n] /\ s.k.n = n
    BY DEF Reads
  <2>2. n \in Nat \ {0} /\ DOMAIN fs = 1 .. n
    BY <2>1, EmptySeq, LenProperties
  <2>3. s.k \in Connection /\ s.k.left \in 0 .. 2
    BY DEF Worlds, Connection
  <2>. QED BY <2>1, <2>2, <2>3
<1>2. ASSUME NEW state \in States \ {"MiniHeader"}, NEW left \in 0 .. 2, r = Field(state, left)
      PROVE  /\ r \in Worlds /\ ~r.k.is_reading /\ r.m.errors = s.m.errors
             /\ r.k.state # "MiniHeader"
             /\ Reads(r, fs) /\ SentUp(r) /\ Quiet(r) /\ Served(r) /\ Closed(r)
  <2>. DEFINE x == Field(state, left)
  <2>1. /\ x \in Worlds /\ ~x.k.is_reading /\ x.m.errors = s.m.errors /\ x.k.state = state
        /\ Reads(x, fs) /\ SentUp(x) /\ Quiet(x) /\ Served(x) /\ Closed(x)
    BY NextField
  <2>. HIDE DEF r, x
  <2>. QED BY <1>2, <2>1 DEF x
<1>3. CASE s.k.state = "MiniHeader"
  <2> DEFINE state == CASE s.k.frame.len = "64" -> "Len64" [] s.k.frame.len = "16" -> "Len16"
                        [] s.k.frame.len = "7" -> "Mask"
  <2>1. state \in States \ {"MiniHeader"}
    <3>1. fs[n] \in AllFrames
      BY <1>1, ElementOfSeq
    <3>2. s.k.frame.len \in {"7", "16", "64"}
      BY <3>1, <1>1 DEF AllFrames
    <3>. QED BY <3>2 DEF States
  <2>2. r = [s EXCEPT !.k.state = state]
    BY <1>3, Zenon DEF After
  <2>. HIDE DEF state, r
  <2>3. r = Field(state, s.k.left)
    BY <2>2, <1>1 DEF Worlds, Connection
  <2>. QED BY <2>1, <2>3, <1>1, <1>2
<1>4. CASE s.k.state \in {"Len16", "Len64"}
  <2>1. r = [s EXCEPT !.k.state = "Mask"]
    <3>1. s.k.state # "MiniHeader" /\ s.k.state # "Mask" /\ s.k.state # "Payload"
      BY <1>4
    <3>. QED BY <1>4, <3>1, Zenon DEF After
  <2>. HIDE DEF r
  <2>2. r = Field("Mask", s.k.left)
    BY <2>1, <1>1 DEF Worlds, Connection
  <2>. QED BY <2>2, <1>1, <1>2 DEF States
<1>5. CASE s.k.state = "Mask"
  <2>1. r = [s EXCEPT !.k.state = "Payload"]
    <3>1. s.k.state # "MiniHeader" /\ s.k.state \notin {"Len16", "Len64"} /\ s.k.state # "Payload"
      BY <1>5
    <3>. QED BY <1>5, <3>1, Zenon DEF After
  <2>. HIDE DEF r
  <2>2. r = Field("Payload", s.k.left)
    BY <2>1, <1>1 DEF Worlds, Connection
  <2>. QED BY <2>2, <1>1, <1>2 DEF States
<1>6. CASE s.k.state = "Payload" /\ s.k.left = 2
  <2>1. r = [s EXCEPT !.k.left = @ - 1]
    <3>1. s.k.state # "MiniHeader" /\ s.k.state \notin {"Len16", "Len64"} /\ s.k.state # "Mask"
          /\ s.k.left > 1 /\ ~(s.k.left <= 1)
      BY <1>6
    <3>. QED BY <1>6, <3>1, Zenon DEF After
  <2>. HIDE DEF r
  <2>2. r = Field("Payload", 1)
    <3>1. r = [s EXCEPT !.k = [s.k EXCEPT !.left = 1]]
      BY <2>1, <1>1, <1>6 DEF Worlds, Connection
    <3>2. [s.k EXCEPT !.left = 1] = [s.k EXCEPT !.state = "Payload", !.left = 1]
      BY <1>1, <1>6 DEF Connection
    <3>. QED BY <3>1, <3>2
  <2>3. "Payload" \in States \ {"MiniHeader"} /\ 1 \in 0 .. 2
    BY DEF States
  <2>. QED BY <2>2, <2>3, <1>1, <1>2
<1>7. CASE s.k.state = "Payload" /\ s.k.left <= 1
  <2> DEFINE h == HandleFragment(s)
             t == Touch(h)
             k == [h.k EXCEPT !.touched = h.k.touched \/ h.k.life = "deleted"]
             l == [k EXCEPT !.state = "MiniHeader", !.frame = NoFrame]
  <2>1. r = [t EXCEPT !.k.state = "MiniHeader", !.k.frame = NoFrame]
    <3>1. s.k.state # "MiniHeader" /\ s.k.state \notin {"Len16", "Len64"} /\ s.k.state # "Mask"
          /\ ~(s.k.left > 1)
      BY <1>1, <1>7
    <3>. HIDE DEF r, t, h
    <3>. QED BY <1>7, <3>1, Zenon DEF After, r, t, h
  <2>2. TextIs(s, fs, 1 .. n - 1)
    <3>1. Past(s, fs) = 1 .. n - 1
      BY <1>1 DEF Past
    <3>. QED BY <3>1 DEF Reads
  <2>3. /\ h \in Worlds /\ ~h.k.is_reading /\ h.m.errors = s.m.errors /\ h.k.n = n /\ h.k.cut = s.k.cut
        /\ TextIs(h, fs, 1 .. n) /\ SentUp(h) /\ Quiet(h) /\ Served(h) /\ Closed(h)
    BY <2>2, <1>1, HandleFragmentKeeps
  <2>. HIDE DEF h
  <2>4. /\ l \in Connection /\ h.k \in Connection /\ k \in Connection
        /\ l.life = h.k.life /\ l.open = h.k.open /\ l.reading = h.k.reading /\ l.is_reading = h.k.is_reading
        /\ l.sending = h.k.sending /\ l.buffers = h.k.buffers /\ l.close_called = h.k.close_called
        /\ l.message = h.k.message /\ l.binary = h.k.binary /\ l.n = h.k.n /\ l.cut = h.k.cut /\ l.frame = NoFrame
        /\ l.state = "MiniHeader"
    <3>1. h.k \in Connection /\ "MiniHeader" \in States
      BY <2>3 DEF Worlds, States
    <3>2. /\ k \in Connection
          /\ k.life = h.k.life /\ k.open = h.k.open /\ k.reading = h.k.reading /\ k.is_reading = h.k.is_reading
          /\ k.sending = h.k.sending /\ k.buffers = h.k.buffers /\ k.close_called = h.k.close_called
          /\ k.message = h.k.message /\ k.binary = h.k.binary /\ k.n = h.k.n /\ k.cut = h.k.cut
      BY <3>1 DEF Connection
    <3>. HIDE DEF k
    <3>. QED BY <3>1, <3>2 DEF Connection
  <2>5. t = [h EXCEPT !.k = k]
    BY <2>3, <2>4 DEF Touch, Worlds, Connection
  <2>6. r = [h EXCEPT !.k = l]
    <3>. HIDE DEF r, k
    <3>. QED BY <2>1, <2>3, <2>4, <2>5 DEF Worlds, Connection
  <2>. HIDE DEF l
  <2>7. r \in Worlds /\ r.k = l /\ r.m = h.m /\ r.q = h.q /\ r.o = h.o /\ r.a = h.a
    <3>. HIDE DEF r
    <3>. QED BY <2>3, <2>4, <2>6 DEF Worlds
  <2>. HIDE DEF r
  <2>8. SameJobs(h, r) /\ SameOut(h, r) /\ SameCalls(h, r)
    BY <2>4, <2>7 DEF SameJobs, SameOut, SameCalls
  <2>9. SentUp(r)
    BY <2>8, <2>3 DEF SameOut, SentUp
  <2>10. Quiet(r)
    BY <2>8, <2>3 DEF SameJobs, Quiet
  <2>11. Closed(r)
    BY <2>8, <2>3 DEF SameCalls, Closed
  <2>12. Served(r)
    <3>1. No(r.q, "read")
      BY <2>10, <2>7, <2>4, <2>3, QuietIs
    <3>2. \A i \in DOMAIN r.q : r.q[i] # Job("read", "ok")
      BY <3>1 DEF No, Job
    <3>. QED BY <3>2, <2>3, <2>4, <2>7 DEF Served
  <2>13. Reads(r, fs)
    <3>1. Past(r, fs) = 1 .. n
      BY <1>1, <2>4, <2>7 DEF Past
    <3>2. TextIs(r, fs, 1 .. n)
      BY <2>3, <2>4, <2>7 DEF TextIs
    <3>. QED BY <3>1, <3>2, <2>3, <2>4, <2>7 DEF Reads
  <2>. QED BY <2>3, <2>4, <2>7, <2>9, <2>10, <2>11, <2>12, <2>13
<1>8. s.k.state \in States
  BY <1>1 DEF Connection
<1>9. s.k.left <= 1 \/ s.k.left = 2
  BY <1>1
<1>. QED BY <1>3, <1>4, <1>5, <1>6, <1>7, <1>8, <1>9 DEF States

\* A read that failed.
LEMMA FailedKeeps ==
  ASSUME NEW s \in Worlds, NEW fs, s.k.life = "live", ~s.k.is_reading, s.m.errors = 0,
         Reads(s, fs), SentUp(s), Quiet(s), Served(s), Closed(s)
  PROVE  LET r == ReadFails(s)
         IN  r \in Worlds /\ Reads(r, fs) /\ SentUp(r) /\ Quiet(r) /\ Served(r) /\ Closed(r)
<1> DEFINE r == ReadFails(s)
           b == CloseSocket(s)
           c == [b EXCEPT !.k.close = TRUE, !.m.errors = @ + 1, !.k.broken = s.k.state]
           k == [b.k EXCEPT !.close = TRUE, !.broken = s.k.state]
           m == [b.m EXCEPT !.errors = 1]
<1>. SUFFICES r \in Worlds /\ Reads(r, fs) /\ SentUp(r) /\ Quiet(r) /\ Served(r) /\ Closed(r)
  OBVIOUS
<1>1. /\ b \in Worlds /\ SameCalls(s, b) /\ SameText(s, b) /\ SameFields(s, b)
      /\ SentUp(b) /\ Quiet(b) /\ Served(b)
  BY CloseSocketKeeps
<1>2. Closed(b) /\ b.k \in Connection /\ s.k.state \in States /\ b.m.errors = 0 /\ ~b.k.is_reading
      /\ b.m \in [messages : Seq(Message), closes : Seq({"uncleanly", "client", "server"}), errors : Nat]
  <2>1. Closed(b)
    BY <1>1 DEF SameCalls, Closed
  <2>2. b.m.errors = 0 /\ ~b.k.is_reading
    BY <1>1 DEF SameFields
  <2>. QED BY <2>1, <2>2, <1>1 DEF Worlds, Connection
<1>. HIDE DEF b
<1>3. ReadFails(s) = IF s.k.state \in {"Mask", "Payload"} THEN c ELSE CheckDestroy(c)
  BY Zenon DEF ReadFails, b
<1>4. /\ k \in Connection
      /\ k.life = b.k.life /\ k.open = b.k.open /\ k.reading = b.k.reading /\ k.is_reading = b.k.is_reading
      /\ k.sending = b.k.sending /\ k.buffers = b.k.buffers /\ k.close_called = b.k.close_called
      /\ k.message = b.k.message /\ k.binary = b.k.binary /\ k.n = b.k.n /\ k.cut = b.k.cut /\ k.frame = b.k.frame
      /\ k.state = b.k.state /\ k.left = b.k.left
  BY <1>2 DEF Connection
<1>5. /\ m \in [messages : Seq(Message), closes : Seq({"uncleanly", "client", "server"}), errors : Nat]
      /\ m.messages = b.m.messages /\ m.closes = b.m.closes /\ m.errors = 1
  BY <1>2
<1>6. c = [b EXCEPT !.k = k, !.m = m]
  <2>1. c = [b EXCEPT !.k = k, !.m = [b.m EXCEPT !.errors = b.m.errors + 1]]
    BY <1>1, <1>2 DEF Worlds, Connection
  <2>2. [b.m EXCEPT !.errors = b.m.errors + 1] = m
    BY <1>2
  <2>. HIDE DEF c, k, m
  <2>. QED BY <2>1, <2>2
<1>. HIDE DEF k, m
<1>7. c \in Worlds /\ c.k = k /\ c.m = m /\ c.q = b.q /\ c.o = b.o /\ c.a = b.a
  BY <1>1, <1>4, <1>5, <1>6 DEF Worlds
<1>. HIDE DEF c
<1>8. SameText(b, c) /\ SameJobs(b, c) /\ SameOut(b, c) /\ SameCalls(b, c)
  BY <1>4, <1>5, <1>7 DEF SameText, SameJobs, SameOut, SameCalls
<1>9. SentUp(c)
  BY <1>8, <1>1 DEF SameOut, SentUp
<1>10. Quiet(c)
  BY <1>8, <1>1 DEF SameJobs, Quiet
<1>11. Closed(c)
  BY <1>8, <1>2 DEF SameCalls, Closed
<1>12. Served(c)
  BY <1>1, <1>2, <1>4, <1>5, <1>7 DEF Served
<1>13. Reads(c, fs)
  <2>1. SameText(s, c)
    BY <1>1, <1>8 DEF SameText
  <2>. QED BY <2>1, ReadsKept
<1>14. LET d == CheckDestroy(c)
       IN  d \in Worlds /\ Reads(d, fs) /\ SentUp(d) /\ Quiet(d) /\ Served(d) /\ Closed(d)
  BY <1>7, <1>9, <1>10, <1>11, <1>12, <1>13, CheckDestroyKeeps, ReadsKept
<1>15. r = c \/ r = CheckDestroy(c)
  BY <1>3
<1>. HIDE DEF r
<1>. QED BY <1>7, <1>9, <1>10, <1>11, <1>12, <1>13, <1>14, <1>15

-----------------------------------------------------------------------------
(* Steps *)

Fine(s, fs) == s \in Worlds /\ Reads(s, fs) /\ SentUp(s) /\ Quiet(s) /\ Served(s) /\ Closed(s)

Clients == [frames : Seq(AllFrames), gone : BOOLEAN, posts : Nat]

IInv ==
  /\ Fine(World, client.frames)
  /\ client \in Clients /\ Len(client.frames) <= MaxFrames

LEMMA Becoming ==
  ASSUME NEW r \in Worlds, Becomes(r)
  PROVE  World' = r
BY DEF Becomes, World, Worlds

LEMMA NextJob ==
  ASSUME NEW q \in Seq(Jobs), q # <<>>, One(q)
  PROVE  /\ Tail(q) \in Seq(Jobs) /\ Head(q) \in Jobs /\ 1 \in DOMAIN q /\ Head(q) = q[1] /\ One(Tail(q))
         /\ Head(q).op # "post" => No(Tail(q), Head(q).op)
         /\ \A op : No(q, op) => No(Tail(q), op)
         /\ \A i \in DOMAIN Tail(q) : i + 1 \in DOMAIN q /\ Tail(q)[i] = q[i + 1]
<1>1. /\ Head(q) \in Jobs /\ Tail(q) \in Seq(Jobs) /\ Len(Tail(q)) = Len(q) - 1
      /\ \A i \in 1 .. Len(Tail(q)) : Tail(q)[i] = q[i + 1]
  BY HeadTailProperties
<1>2. Len(q) \in Nat \ {0} /\ DOMAIN q = 1 .. Len(q) /\ DOMAIN Tail(q) = 1 .. Len(q) - 1 /\ Head(q) = q[1]
  BY <1>1, EmptySeq, LenProperties
<1>3. 1 \in DOMAIN q /\ \A i \in DOMAIN Tail(q) : i \in Nat /\ i # 0 /\ i + 1 \in DOMAIN q /\ Tail(q)[i] = q[i + 1]
  BY <1>1, <1>2
<1>4. One(Tail(q))
  BY <1>3 DEF One
<1>5. Head(q).op # "post" => No(Tail(q), Head(q).op)
  <2>1. \A i \in DOMAIN Tail(q) : i + 1 # 1
    BY <1>3
  <2>. QED BY <2>1, <1>2, <1>3 DEF One, No
<1>6. \A op : No(q, op) => No(Tail(q), op)
  BY <1>3 DEF No
<1>. QED BY <1>1, <1>2, <1>3, <1>4, <1>5, <1>6

\* The job is taken from the queue.
LEMMA Taken ==
  ASSUME NEW s \in Worlds, NEW fs, Fine(s, fs), s.q # <<>>
  PROVE  LET r == [s EXCEPT !.q = Tail(@)]
         IN  /\ Fine(r, fs)
             /\ r.k = s.k /\ r.m = s.m /\ r.q = Tail(s.q)
             /\ Head(s.q) \in Jobs
             /\ Head(s.q).op = "read" => s.k.is_reading /\ ~s.k.reading /\ No(r.q, "read")
             /\ Head(s.q).op = "write" => s.k.sending # <<>> /\ No(r.q, "write")
             /\ Head(s.q) = Job("read", "ok") => s.k.frame # NoFrame
<1> DEFINE r == [s EXCEPT !.q = Tail(@)]
<1>1. s.q \in Seq(Jobs) /\ One(s.q)
  BY QuietIs DEF Fine, Worlds
<1>2. /\ Tail(s.q) \in Seq(Jobs) /\ Head(s.q) \in Jobs /\ 1 \in DOMAIN s.q /\ Head(s.q) = s.q[1]
      /\ One(Tail(s.q))
      /\ Head(s.q).op # "post" => No(Tail(s.q), Head(s.q).op)
  BY <1>1, NextJob
<1>3. /\ \A op : No(s.q, op) => No(Tail(s.q), op)
      /\ \A i \in DOMAIN Tail(s.q) : i + 1 \in DOMAIN s.q /\ Tail(s.q)[i] = s.q[i + 1]
  BY <1>1, NextJob
<1>4. r \in Worlds /\ r.k = s.k /\ r.m = s.m /\ r.q = Tail(s.q) /\ r.o = s.o /\ r.a = s.a
  BY <1>2 DEF Worlds
<1>. HIDE DEF r
<1>5. SameText(s, r) /\ SameOut(s, r) /\ SameCalls(s, r)
  BY <1>4 DEF SameText, SameOut, SameCalls
<1>6. Reads(r, fs)
  BY <1>5, ReadsKept DEF Fine
<1>7. SentUp(r)
  BY <1>5 DEF SameOut, SentUp, Fine
<1>8. Closed(r)
  BY <1>5 DEF SameCalls, Closed, Fine
<1>9. Quiet(r)
  BY <1>2, <1>3, <1>4, QuietIs DEF Fine
<1>10. Served(r)
  BY <1>3, <1>4 DEF Served, Fine
<1>11. Head(s.q).op = "read" => s.k.is_reading /\ ~s.k.reading /\ No(r.q, "read")
  BY <1>2, <1>4 DEF Quiet, Fine
<1>12. Head(s.q).op = "write" => s.k.sending # <<>> /\ No(r.q, "write")
  BY <1>2, <1>4 DEF Quiet, Fine
<1>13. Head(s.q) = Job("read", "ok") => s.k.frame # NoFrame
  BY <1>2 DEF Served, Fine
<1>. QED BY <1>2, <1>4, <1>6, <1>7, <1>8, <1>9, <1>10, <1>11, <1>12, <1>13 DEF Fine, r

LEMMA RunReadKeeps ==
  ASSUME IInv, RunRead
  PROVE  IInv'
<1> DEFINE t == [World EXCEPT !.q = Tail(@)]
           k == [World.k EXCEPT !.is_reading = FALSE]
           s == [World EXCEPT !.q = Tail(@), !.k.is_reading = FALSE]
           fs == client.frames
<1>1. World \in Worlds /\ Fine(World, fs) /\ World.q = queue /\ World.k = ws /\ queue # <<>> /\ ws.life = "live"
      /\ Head(queue).op = "read"
  BY DEF IInv, Fine, RunRead, World
<1>2. /\ Fine(t, fs) /\ t.k = ws /\ t.m = World.m /\ Head(queue) \in Jobs
      /\ ws.is_reading /\ ~ws.reading /\ No(t.q, "read")
      /\ Head(queue) = Job("read", "ok") => ws.frame # NoFrame
  BY <1>1, Taken
<1>3. /\ k \in Connection /\ k.is_reading = FALSE
      /\ k.life = ws.life /\ k.open = ws.open /\ k.reading = ws.reading
      /\ k.sending = ws.sending /\ k.buffers = ws.buffers /\ k.close_called = ws.close_called
      /\ k.message = ws.message /\ k.binary = ws.binary /\ k.n = ws.n /\ k.cut = ws.cut /\ k.frame = ws.frame
      /\ k.state = ws.state /\ k.left = ws.left
  <2>1. ws \in Connection
    BY <1>1 DEF Worlds
  <2>. QED BY <2>1, <1>1 DEF Connection
<1>4. s = [t EXCEPT !.k = k]
  BY <1>1 DEF Worlds
<1>. HIDE DEF t, k
<1>5. s \in Worlds /\ s.k = k /\ s.m = World.m /\ s.q = t.q /\ s.o = t.o /\ s.a = t.a /\ t \in Worlds
  BY <1>2, <1>3, <1>4 DEF Worlds, Fine
<1>. HIDE DEF s
<1>6. SameText(t, s) /\ SameOut(t, s) /\ SameCalls(t, s)
  BY <1>2, <1>3, <1>5 DEF SameText, SameOut, SameCalls
<1>7. Reads(s, fs)
  BY <1>2, <1>6, ReadsKept DEF Fine
<1>8. SentUp(s)
  BY <1>2, <1>6 DEF SameOut, SentUp, Fine
<1>9. Closed(s)
  BY <1>2, <1>6 DEF SameCalls, Closed, Fine
<1>10. Quiet(s)
  BY <1>1, <1>2, <1>3, <1>5, QuietIs DEF Fine
<1>11. Served(s) /\ s.m.errors = 0 /\ s.k.life = "live" /\ ~s.k.is_reading
  BY <1>1, <1>2, <1>3, <1>5 DEF Served, Fine
<1>12. PICK r : Becomes(r) /\ Fine(r, fs)
  <2>1. CASE Head(queue).what = "error"
    <3>1. Becomes(ReadFails(s))
      BY <2>1 DEF RunRead, s
    <3>2. Fine(ReadFails(s), fs)
      BY <1>5, <1>7, <1>8, <1>9, <1>10, <1>11, FailedKeeps DEF Fine
    <3>. QED BY <3>1, <3>2
  <2>2. CASE Head(queue).what # "error"
    <3> DEFINE r == After(s)
    <3>1. Becomes(IF r.k.life = "deleted" THEN r ELSE DoRead(r))
      BY <2>2 DEF RunRead, s
    <3>2. Head(queue) = Job("read", "ok")
      BY <1>1, <1>2, <2>2 DEF Jobs, Job
    <3>3. fs \in Seq(AllFrames) /\ (~s.k.cut => Follows(fs, Len(fs)))
      <4>1. fs \in Seq(AllFrames) /\ fs # <<>>
        BY <1>2, <1>3, <1>5, <1>7, <3>2 DEF IInv, Clients, Reads
      <4>2. Len(fs) \in DOMAIN fs
        BY <4>1, EmptySeq, LenProperties
      <4>. QED BY <1>7, <4>1, <4>2 DEF Reads
    <3>4. s.k.frame # NoFrame
      BY <1>2, <1>3, <1>5, <3>2
    <3>5. /\ r \in Worlds /\ ~r.k.is_reading /\ r.m.errors = 0
          /\ r.k.state = "MiniHeader" => r.k.frame = NoFrame
          /\ Reads(r, fs) /\ SentUp(r) /\ Quiet(r) /\ Served(r) /\ Closed(r)
      BY <1>5, <1>7, <1>8, <1>9, <1>10, <1>11, <3>3, <3>4, AfterKeeps
    <3>. HIDE DEF r, fs
    <3>6. CASE r.k.life = "deleted"
      BY <3>1, <3>5, <3>6 DEF Fine
    <3>7. CASE r.k.life = "live"
      <4>1. DoRead(r) \in Worlds /\ SameCalls(r, DoRead(r)) /\ SameText(r, DoRead(r)) /\ SentUp(DoRead(r))
            /\ Quiet(DoRead(r)) /\ Served(DoRead(r))
        BY <3>5, <3>7, DoReadKeeps
      <4>2. Closed(DoRead(r))
        BY <4>1, <3>5 DEF SameCalls, Closed
      <4>3. Reads(DoRead(r), fs)
        BY <4>1, <3>5, ReadsKept
      <4>. QED BY <3>1, <3>7, <4>1, <4>2, <4>3 DEF Fine
    <3>. QED BY <3>5, <3>6, <3>7 DEF Worlds, Connection
  <2>. QED BY <2>1, <2>2
<1>13. World' = r
  BY <1>12, Becoming DEF Fine
<1>14. client' = client
  BY DEF RunRead
<1>. QED BY <1>12, <1>13, <1>14 DEF IInv

\* What a handler keeps.
LEMMA FineKept ==
  ASSUME NEW s, NEW r \in Worlds, NEW fs, Fine(s, fs), SameText(s, r), SentUp(r), Quiet(r), Served(r), Closed(r)
  PROVE  Fine(r, fs)
BY ReadsKept DEF Fine

LEMMA FlagFine ==
  ASSUME NEW s, NEW fs, Fine(s, fs), NEW close \in BOOLEAN
  PROVE  Fine([s EXCEPT !.k = [s.k EXCEPT !.close = close]], fs)
<1> DEFINE k == [s.k EXCEPT !.close = close]
<1>1. s \in Worlds /\ s.k \in Connection
  BY DEF Fine, Worlds
<1>2. /\ k \in Connection
      /\ k.life = s.k.life /\ k.open = s.k.open /\ k.reading = s.k.reading /\ k.is_reading = s.k.is_reading
      /\ k.sending = s.k.sending /\ k.buffers = s.k.buffers /\ k.close_called = s.k.close_called
      /\ k.message = s.k.message /\ k.binary = s.k.binary /\ k.n = s.k.n /\ k.cut = s.k.cut /\ k.frame = s.k.frame
      /\ k.state = s.k.state /\ k.left = s.k.left
  BY <1>1 DEF Connection
<1>. HIDE DEF k
<1>. DEFINE r == [s EXCEPT !.k = k]
<1>3. /\ r \in Worlds /\ SameText(s, r)
      /\ SentUp(r) /\ Quiet(r) /\ Served(r) /\ Closed(r)
  BY <1>1, <1>2, FlagsKept DEF Fine
<1>. HIDE DEF r
<1>4. Fine(r, fs)
  BY <1>3, FineKept
<1>. QED BY <1>4 DEF r, k

LEMMA DestroyFine ==
  ASSUME NEW s, NEW fs, Fine(s, fs)
  PROVE  Fine(CheckDestroy(s), fs)
<1>1. s \in Worlds /\ SentUp(s) /\ Quiet(s) /\ Served(s) /\ Closed(s)
  BY DEF Fine
<1>2. LET r == CheckDestroy(s)
      IN  r \in Worlds /\ SameText(s, r) /\ SentUp(r) /\ Quiet(r) /\ Served(r) /\ Closed(r)
  BY <1>1, CheckDestroyKeeps
<1>. QED BY <1>2, FineKept

LEMMA WriteFine ==
  ASSUME NEW s, NEW fs, Fine(s, fs), s.k.life = "live", s.k.buffers # <<>>
  PROVE  Fine(DoWrite(s), fs)
<1>1. s \in Worlds /\ SentUp(s) /\ Quiet(s) /\ Served(s) /\ Closed(s)
  BY DEF Fine
<1>2. LET r == DoWrite(s)
      IN  r \in Worlds /\ SameText(s, r) /\ SentUp(r) /\ Quiet(r) /\ Served(r) /\ SameCalls(s, r)
  BY <1>1, DoWriteKeeps
<1>3. Closed(DoWrite(s))
  BY <1>1, <1>2 DEF SameCalls, Closed
<1>. QED BY <1>2, <1>3, FineKept

LEMMA SendFine ==
  ASSUME NEW s, NEW fs, NEW what \in Outs, Fine(s, fs), s.k.life = "live"
  PROVE  Fine(Send(s, what), fs)
<1>1. s \in Worlds /\ SentUp(s) /\ Quiet(s) /\ Served(s) /\ Closed(s)
  BY DEF Fine
<1>2. LET r == Send(s, what)
      IN  r \in Worlds /\ SameText(s, r) /\ SentUp(r) /\ Quiet(r) /\ Served(r) /\ SameCalls(s, r)
  BY <1>1, SendKeeps
<1>3. Closed(Send(s, what))
  BY <1>1, <1>2 DEF SameCalls, Closed
<1>. QED BY <1>2, <1>3, FineKept

LEMMA CloseFine ==
  ASSUME NEW s, NEW fs, Fine(s, fs), s.k.life = "live"
  PROVE  Fine(Close(s, "server"), fs)
<1>1. s \in Worlds /\ SentUp(s) /\ Quiet(s) /\ Served(s) /\ Closed(s)
  BY DEF Fine
<1>2. LET r == Close(s, "server")
      IN  r \in Worlds /\ SameText(s, r) /\ SentUp(r) /\ Quiet(r) /\ Served(r) /\ Closed(r)
  BY <1>1, CloseKeeps
<1>. QED BY <1>2, FineKept

LEMMA RunWriteKeeps ==
  ASSUME IInv, RunWrite
  PROVE  IInv'
<1> DEFINE t == [World EXCEPT !.q = Tail(@)]
           k == [World.k EXCEPT !.sending = <<>>]
           s == [World EXCEPT !.q = Tail(@), !.k.sending = <<>>]
           fs == client.frames
<1>1. World \in Worlds /\ Fine(World, fs) /\ World.q = queue /\ World.k = ws /\ queue # <<>> /\ ws.life = "live"
      /\ Head(queue).op = "write" /\ ws \in Connection
  BY DEF IInv, Fine, RunWrite, World, Worlds
<1>2. /\ Fine(t, fs) /\ t.k = ws /\ t.m = World.m /\ No(t.q, "write")
  BY <1>1, Taken
<1>3. /\ k \in Connection /\ k.sending = <<>>
      /\ k.life = ws.life /\ k.open = ws.open /\ k.reading = ws.reading /\ k.is_reading = ws.is_reading
      /\ k.buffers = ws.buffers /\ k.close_called = ws.close_called
      /\ k.message = ws.message /\ k.binary = ws.binary /\ k.n = ws.n /\ k.cut = ws.cut /\ k.frame = ws.frame
      /\ k.state = ws.state /\ k.left = ws.left
  <2>1. <<>> \in Seq(Outs)
    OBVIOUS
  <2>. QED BY <2>1, <1>1 DEF Connection
<1>4. s = [t EXCEPT !.k = k]
  BY <1>1 DEF Worlds
<1>. HIDE DEF t, k
<1>5. s \in Worlds /\ s.k = k /\ s.m = World.m /\ s.q = t.q /\ s.o = t.o /\ s.a = t.a /\ t \in Worlds
  BY <1>2, <1>3, <1>4 DEF Worlds, Fine
<1>. HIDE DEF s
<1>6. SameText(t, s) /\ SameOut(t, s) /\ SameCalls(t, s)
  BY <1>2, <1>3, <1>5 DEF SameText, SameOut, SameCalls
<1>7. SentUp(s)
  BY <1>2, <1>6 DEF SameOut, SentUp, Fine
<1>8. Closed(s)
  BY <1>2, <1>6 DEF SameCalls, Closed, Fine
<1>9. Quiet(s)
  BY <1>1, <1>2, <1>3, <1>5, QuietIs DEF Fine
<1>10. Served(s)
  BY <1>2, <1>3, <1>5 DEF Served, Fine
<1>11. Fine(s, fs)
  BY <1>2, <1>5, <1>6, <1>7, <1>8, <1>9, <1>10, FineKept
<1>12. PICK r : Becomes(r) /\ Fine(r, fs)
  <2>1. CASE Head(queue).what = "ok" /\ ~ws.close
    <3> DEFINE w == IF ws.buffers # <<>> THEN DoWrite(s) ELSE s
    <3>1. Becomes([w EXCEPT !.k.close = ws.sent_close])
      BY <2>1 DEF RunWrite, s
    <3>2. Fine(w, fs)
      BY <1>1, <1>3, <1>5, <1>11, WriteFine
    <3>. HIDE DEF w
    <3>3. [w EXCEPT !.k.close = ws.sent_close] = [w EXCEPT !.k = [w.k EXCEPT !.close = ws.sent_close]]
      BY <3>2 DEF Fine, Worlds
    <3>4. ws.sent_close \in BOOLEAN
      BY <1>1 DEF Connection
    <3>. QED BY <3>1, <3>2, <3>3, <3>4, FlagFine
  <2>2. CASE ~(Head(queue).what = "ok" /\ ~ws.close)
    <3> DEFINE w == [s EXCEPT !.k.close = TRUE]
    <3>1. Becomes(CheckDestroy(w))
      BY <2>2 DEF RunWrite, s
    <3>2. w = [s EXCEPT !.k = [s.k EXCEPT !.close = TRUE]]
      BY <1>5 DEF Worlds
    <3>3. Fine(w, fs)
      BY <3>2, <1>11, FlagFine
    <3>. HIDE DEF w
    <3>. QED BY <3>1, <3>3, DestroyFine
  <2>. QED BY <2>1, <2>2
<1>13. World' = r
  BY <1>12, Becoming DEF Fine
<1>14. client' = client
  BY DEF RunWrite
<1>. QED BY <1>12, <1>13, <1>14 DEF IInv

LEMMA RunPostedKeeps ==
  ASSUME IInv, RunPosted
  PROVE  IInv'
<1> DEFINE s == [World EXCEPT !.q = Tail(@)]
           fs == client.frames
<1>1. World \in Worlds /\ Fine(World, fs) /\ World.q = queue /\ World.k = ws /\ queue # <<>>
      /\ Head(queue).op = "post" /\ ws \in Connection
  BY DEF IInv, Fine, RunPosted, World, Worlds
<1>2. Fine(s, fs) /\ s.k = ws /\ Head(queue) \in Jobs
  BY <1>1, Taken
<1>3. Head(queue).what \in Outs
  BY <1>1, <1>2 DEF Jobs, Outs
<1>4. Becomes(IF ws.life = "deleted" THEN Touch(s)
              ELSE IF Head(queue).what = "close" THEN Close(s, "server") ELSE Send(s, Head(queue).what))
  BY DEF RunPosted
<1>. HIDE DEF s
<1>5. PICK r : Becomes(r) /\ Fine(r, fs)
  <2>1. CASE ws.life = "deleted"
    <3> DEFINE k == [s.k EXCEPT !.touched = s.k.touched \/ s.k.life = "deleted"]
               r == [s EXCEPT !.k = k]
    <3>1. s \in Worlds /\ s.k \in Connection
      BY <1>2 DEF Fine, Worlds
    <3>2. Touch(s) = r
      BY <3>1 DEF Touch, Worlds, Connection
    <3>3. /\ k \in Connection
          /\ k.life = s.k.life /\ k.open = s.k.open /\ k.reading = s.k.reading /\ k.is_reading = s.k.is_reading
          /\ k.sending = s.k.sending /\ k.buffers = s.k.buffers /\ k.close_called = s.k.close_called
          /\ k.message = s.k.message /\ k.binary = s.k.binary /\ k.n = s.k.n /\ k.cut = s.k.cut /\ k.frame = s.k.frame
          /\ k.state = s.k.state /\ k.left = s.k.left
      BY <3>1 DEF Connection
    <3>. HIDE DEF k
    <3>4. /\ r \in Worlds /\ SameText(s, r)
          /\ SentUp(r) /\ Quiet(r) /\ Served(r) /\ Closed(r)
      BY <3>1, <3>3, <1>2, FlagsKept DEF Fine
    <3>. HIDE DEF r
    <3>5. Fine(r, fs)
      BY <3>4, <1>2, FineKept
    <3>. QED BY <3>2, <3>5, <2>1, <1>4
  <2>2. CASE ws.life = "live" /\ Head(queue).what = "close"
    BY <1>2, <1>4, <2>2, CloseFine
  <2>3. CASE ws.life = "live" /\ Head(queue).what # "close"
    BY <1>2, <1>3, <1>4, <2>3, SendFine
  <2>. QED BY <2>1, <2>2, <2>3, <1>1 DEF Connection
<1>6. World' = r
  BY <1>5, Becoming DEF Fine
<1>7. client' = client
  BY DEF RunPosted
<1>. QED BY <1>5, <1>6, <1>7 DEF IInv

-----------------------------------------------------------------------------
(* What comes from outside *)

\* A job is queued, and the reading may be over; the texts stay.
LEMMA Queued ==
  ASSUME NEW s, NEW r \in Worlds, NEW j \in Jobs, NEW fs, Fine(s, fs),
         r.q = Append(s.q, j), r.o = s.o, r.a = s.a, r.m = s.m,
         /\ r.k.life = s.k.life /\ r.k.open = s.k.open /\ r.k.is_reading = s.k.is_reading
         /\ r.k.sending = s.k.sending /\ r.k.buffers = s.k.buffers /\ r.k.close_called = s.k.close_called,
         /\ j.op = "post" => r.k.reading = s.k.reading
         /\ j.op = "read" => s.k.reading /\ ~r.k.reading
         /\ j.op = "write" => r.k.reading = s.k.reading /\ s.k.sending # <<>> /\ No(s.q, "write")
  PROVE  SentUp(r) /\ Quiet(r) /\ Closed(r)
<1>1. s \in Worlds /\ s.q \in Seq(Jobs) /\ s.k.reading \in BOOLEAN /\ r.k.reading \in BOOLEAN
  BY DEF Fine, Worlds, Connection
<1>2. SentUp(r)
  BY DEF SentUp, Fine
<1>3. Closed(r)
  BY DEF Closed, Fine
<1>4. /\ s.k.reading => s.k.is_reading /\ No(s.q, "read")
      /\ ~s.k.is_reading => No(s.q, "read")
      /\ s.k.sending = <<>> => No(s.q, "write")
      /\ One(s.q)
      /\ s.k.life = "deleted" => ~s.k.is_reading /\ s.k.sending = <<>>
  BY <1>1, QuietIs DEF Fine
<1>5. j.op \in {"read", "write", "post"}
  BY DEF Jobs
<1>6. One(r.q)
  BY <1>1, <1>4, <1>5, AddOne
<1>7. (j.op # "read" => (No(r.q, "read") <=> No(s.q, "read"))) /\ (j.op # "write" => (No(r.q, "write") <=> No(s.q, "write")))
  BY <1>1, AddOther
<1>8. Quiet(r)
  <2>1. CASE j.op = "post"
    BY <2>1, <1>1, <1>4, <1>6, <1>7, QuietIs
  <2>2. CASE j.op = "read"
    BY <2>2, <1>1, <1>4, <1>6, <1>7, QuietIs
  <2>3. CASE j.op = "write"
    BY <2>3, <1>1, <1>4, <1>6, <1>7, QuietIs
  <2>. QED BY <2>1, <2>2, <2>3, <1>5
<1>. QED BY <1>2, <1>3, <1>8

LEMMA QueuedServed ==
  ASSUME NEW s, NEW r \in Worlds, NEW j \in Jobs, NEW fs, Fine(s, fs),
         r.q = Append(s.q, j), r.m = s.m, r.k.state = s.k.state, r.k.is_reading = s.k.is_reading,
         r.k.frame # NoFrame \/ r.k.frame = s.k.frame,
         r.k.reading => s.k.reading /\ r.k.frame = s.k.frame,
         j = Job("read", "ok") => r.k.frame # NoFrame
  PROVE  Served(r)
<1>1. s.q \in Seq(Jobs)
  BY DEF Fine, Worlds
<1>2. \A i \in DOMAIN r.q : (i \in DOMAIN s.q /\ r.q[i] = s.q[i]) \/ r.q[i] = j
  <2>1. \A i \in 1 .. Len(s.q) + 1 : i = Len(s.q) + 1 \/ i \in 1 .. Len(s.q)
    BY <1>1, AddJob
  <2>. QED BY <2>1, <1>1, AddJob
<1>3. \A i \in DOMAIN r.q : r.q[i] = Job("read", "ok") => r.k.frame # NoFrame
  BY <1>2 DEF Served, Fine
<1>. QED BY <1>3 DEF Served, Fine

LEMMA WorldIs ==
  ASSUME IInv
  PROVE  /\ World \in Worlds /\ World.k = ws /\ World.q = queue /\ World.o = out /\ World.m = calls
         /\ World.a = asked /\ ws \in Connection /\ queue \in Seq(Jobs) /\ Fine(World, client.frames)
         /\ client.frames \in Seq(AllFrames)
<1>1. World \in Worlds /\ Fine(World, client.frames)
  BY DEF IInv, Fine
<1>2. client.frames \in Seq(AllFrames)
  BY DEF IInv, Clients
<1>. QED BY <1>1, <1>2 DEF World, Worlds

LEMMA PostKeeps ==
  ASSUME IInv, NEW what \in Sends, Post(what)
  PROVE  IInv'
<1> DEFINE j == Job("post", what)
           r == [World EXCEPT !.q = Append(queue, j)]
<1>1. j \in Jobs /\ j.op = "post" /\ j # Job("read", "ok")
  BY DEF Jobs, Job
<1>. HIDE DEF j
<1>2. Append(queue, j) \in Seq(Jobs)
  BY <1>1, WorldIs, AddJob
<1>3. r \in Worlds /\ r.k = ws /\ r.q = Append(queue, j) /\ r.o = out /\ r.a = asked /\ r.m = calls
  BY <1>2, WorldIs DEF Worlds
<1>. HIDE DEF r
<1>4. Becomes(r)
  BY <1>3 DEF Becomes, Post, j
<1>5. SentUp(r) /\ Quiet(r) /\ Closed(r)
  BY <1>1, <1>3, WorldIs, Queued
<1>6. Served(r)
  BY <1>1, <1>3, WorldIs, QueuedServed
<1>7. SameText(World, r)
  BY <1>3, WorldIs DEF SameText
<1>8. Fine(r, client.frames)
  BY <1>3, <1>5, <1>6, <1>7, WorldIs, FineKept
<1>9. World' = r
  BY <1>3, <1>4, Becoming
<1>10. client' \in Clients /\ client'.frames = client.frames
  BY DEF IInv, Clients, Post
<1>. QED BY <1>8, <1>9, <1>10 DEF IInv

\* A read that was begun is done, well or not.
LEMMA ReadDone ==
  ASSUME IInv, NEW what \in {"ok", "error"}, ws.reading,
         what = "ok" => ws.state # "MiniHeader",
         ws' = [ws EXCEPT !.reading = FALSE],
         queue' = Append(queue, Job("read", what)), UNCHANGED <<client, out, calls, asked>>
  PROVE  IInv'
<1> DEFINE j == Job("read", what)
           k == [ws EXCEPT !.reading = FALSE]
           r == [World EXCEPT !.k = k, !.q = Append(queue, j)]
<1>1. j \in Jobs /\ j.op = "read" /\ (j = Job("read", "ok") => what = "ok")
  BY DEF Jobs, Job
<1>. HIDE DEF j
<1>2. Append(queue, j) \in Seq(Jobs)
  BY <1>1, WorldIs, AddJob
<1>3. /\ k \in Connection /\ k.reading = FALSE
      /\ k.life = ws.life /\ k.open = ws.open /\ k.is_reading = ws.is_reading
      /\ k.sending = ws.sending /\ k.buffers = ws.buffers /\ k.close_called = ws.close_called
      /\ k.message = ws.message /\ k.binary = ws.binary /\ k.n = ws.n /\ k.cut = ws.cut /\ k.frame = ws.frame
      /\ k.state = ws.state /\ k.left = ws.left
  BY WorldIs DEF Connection
<1>. HIDE DEF k
<1>4. r \in Worlds /\ r.k = k /\ r.q = Append(queue, j) /\ r.o = out /\ r.a = asked /\ r.m = calls
  BY <1>2, <1>3, WorldIs DEF Worlds
<1>. HIDE DEF r
<1>5. Becomes(r)
  BY <1>4 DEF Becomes, j, k
<1>6. SentUp(r) /\ Quiet(r) /\ Closed(r)
  BY <1>1, <1>3, <1>4, WorldIs, Queued, ZenonT(60)
<1>7. what = "ok" => ws.frame # NoFrame
  BY WorldIs DEF Fine, Served
<1>8. Served(r)
  <2>1. /\ Fine(World, client.frames) /\ r.q = Append(World.q, j) /\ r.m = World.m
        /\ r.k.state = World.k.state /\ r.k.is_reading = World.k.is_reading
        /\ r.k.left = World.k.left /\ r.k.frame = World.k.frame /\ ~r.k.reading
    BY <1>3, <1>4, WorldIs
  <2>2. j = Job("read", "ok") => r.k.frame # NoFrame
    BY <1>1, <1>3, <1>4, <1>7
  <2> QED
    BY <1>1, <1>4, <2>1, <2>2, QueuedServed
<1>9. SameText(World, r)
  BY <1>3, <1>4, WorldIs DEF SameText
<1>10. Fine(r, client.frames)
  BY <1>4, <1>6, <1>8, <1>9, WorldIs, FineKept
<1>11. World' = r
  BY <1>4, <1>5, Becoming
<1>. QED BY <1>10, <1>11 DEF IInv

LEMMA WrittenKeeps ==
  ASSUME IInv, NEW what \in {"ok", "error"}, Written(what)
  PROVE  IInv'
<1> DEFINE j == Job("write", what)
           r == [World EXCEPT !.q = Append(queue, j)]
<1>1. j \in Jobs /\ j.op = "write" /\ j # Job("read", "ok")
  BY DEF Jobs, Job
<1>. HIDE DEF j
<1>2. Append(queue, j) \in Seq(Jobs)
  BY <1>1, WorldIs, AddJob
<1>3. r \in Worlds /\ r.k = ws /\ r.q = Append(queue, j) /\ r.o = out /\ r.a = asked /\ r.m = calls
  BY <1>2, WorldIs DEF Worlds
<1>. HIDE DEF r
<1>4. Becomes(r)
  BY <1>3 DEF Becomes, Written, j
<1>5. No(queue, "write") /\ ws.sending # <<>>
  BY DEF Written, No
<1>6. SentUp(r) /\ Quiet(r) /\ Closed(r)
  BY <1>1, <1>3, <1>5, WorldIs, Queued
<1>7. Served(r)
  BY <1>1, <1>3, WorldIs, QueuedServed
<1>8. SameText(World, r)
  BY <1>3, WorldIs DEF SameText
<1>9. Fine(r, client.frames)
  BY <1>3, <1>6, <1>7, <1>8, WorldIs, FineKept
<1>10. World' = r
  BY <1>3, <1>4, Becoming
<1>11. client' = client
  BY DEF Written
<1>. QED BY <1>9, <1>10, <1>11 DEF IInv

\* Another frame leaves what was made of the ones before it.
LEMMA TextExtends ==
  ASSUME NEW fs \in Seq(AllFrames), NEW f \in AllFrames, NEW s \in Worlds, TextIs(s, fs, DOMAIN fs)
  PROVE  TextIs(s, Append(fs, f), 1 .. Len(fs))
<1> DEFINE gs == Append(fs, f)
           n == Len(fs)
           P == 1 .. n
<1>. SUFFICES ASSUME ~s.k.cut PROVE TextIs(s, gs, P)
  BY DEF TextIs
<1>1. /\ gs \in Seq(AllFrames) /\ n \in Nat /\ DOMAIN fs = P /\ DOMAIN gs = P \cup {n + 1} /\ n + 1 \notin P
      /\ \A i \in P : i \in Nat /\ i < n + 1 /\ gs[i] = fs[i]
  <2>1. gs \in Seq(AllFrames) /\ Len(gs) = n + 1 /\ \A i \in 1 .. n : gs[i] = fs[i]
    BY AppendProperties
  <2>2. n \in Nat /\ DOMAIN fs = P /\ DOMAIN gs = 1 .. n + 1
    BY <2>1, LenProperties
  <2>. QED BY <2>1, <2>2
<1>. HIDE DEF gs, P
<1>2. DataIn(gs) \cap P = DataIn(fs) /\ EndsIn(gs) \cap P = EndsIn(fs)
  BY <1>1 DEF DataIn, EndsIn
<1>3. DataIn(gs) \subseteq P \cup {n + 1} /\ EndsIn(gs) \subseteq P \cup {n + 1} /\ EndsIn(gs) \subseteq DataIn(gs)
  BY <1>1 DEF DataIn, EndsIn
<1>4. DataIn(fs) \cap P = DataIn(fs) /\ EndsIn(fs) \cap P = EndsIn(fs) /\ DataIn(fs) \subseteq P
  BY <1>2
<1>5. Waiting(gs, P) = Waiting(fs, P)
  BY <1>2, <1>4 DEF Waiting
<1>6. ASSUME NEW e \in P PROVE Fragments(gs, e) = Fragments(fs, e)
  <2>1. ~(n + 1 <= e) /\ ~(n + 1 < e)
    BY <1>1
  <2>2. \A i \in DataIn(gs) : i <= e => i \in DataIn(fs)
    BY <2>1, <1>2, <1>3
  <2>3. \A d \in EndsIn(gs) : d < e => d \in EndsIn(fs)
    BY <2>1, <1>2, <1>3
  <2>. QED BY <2>2, <2>3, <1>2 DEF Fragments
<1>7. Sorted(LastOf(s.m.messages), EndsIn(gs) \cap P)
  BY <1>1, <1>2, <1>4 DEF TextIs
<1>8. ASSUME NEW j \in DOMAIN s.m.messages
      PROVE  LET m == s.m.messages[j]
             IN  /\ m.text # <<>> /\ Sorted(m.text, Fragments(gs, Last(m.text)))
                 /\ m.binary = (gs[m.text[1]].op = "binary")
  <2>. DEFINE m == s.m.messages[j]
  <2>1. /\ m.text # <<>> /\ Sorted(m.text, Fragments(fs, Last(m.text)))
        /\ m.binary = (fs[m.text[1]].op = "binary")
    BY DEF TextIs
  <2>2. m.text \in Seq(Nat)
    <3>1. s.m.messages \in Seq(Message)
      BY DEF Worlds
    <3>2. m \in Message
      BY <3>1, ElementOfSeq, LenProperties
    <3>. QED BY <3>2 DEF Message
  <2>3. Last(m.text) \in P
    <3>1. ToSet(LastOf(s.m.messages)) = EndsIn(fs)
      BY <1>1, <1>4 DEF TextIs, Sorted
    <3>2. LastOf(s.m.messages)[j] = Last(m.text) /\ j \in DOMAIN LastOf(s.m.messages)
      BY DEF LastOf
    <3>. QED BY <3>1, <3>2, <1>3, <1>4, <1>2 DEF ToSet
  <2>4. m.text[1] \in P
    <3>1. 1 \in DOMAIN m.text
      BY <2>1, <2>2, EmptySeq, LenProperties
    <3>2. m.text[1] \in Fragments(fs, Last(m.text))
      BY <3>1, <2>1 DEF Sorted, ToSet
    <3>. QED BY <3>2, <1>4 DEF Fragments
  <2>. HIDE DEF m
  <2>5. m.binary = (gs[m.text[1]].op = "binary")
    BY <2>1, <2>4, <1>1
  <2>6. Sorted(m.text, Fragments(gs, Last(m.text)))
    BY <2>1, <2>3, <1>6
  <2>. QED BY <2>1, <2>5, <2>6 DEF m
<1>9. Sorted(s.k.message, Waiting(gs, P))
  BY <1>1, <1>5 DEF TextIs
<1>10. s.k.message # <<>> => s.k.binary = (gs[s.k.message[1]].op = "binary")
  <2>. SUFFICES ASSUME s.k.message # <<>> PROVE s.k.binary = (gs[s.k.message[1]].op = "binary")
    OBVIOUS
  <2>1. 1 \in DOMAIN s.k.message
    <3>1. s.k.message \in Seq(Nat)
      BY DEF Worlds, Connection
    <3>. QED BY <3>1, EmptySeq, LenProperties
  <2>2. s.k.message[1] \in Waiting(gs, P)
    BY <2>1, <1>9 DEF Sorted, ToSet
  <2>3. s.k.message[1] \in P
    BY <2>2 DEF Waiting
  <2>4. s.k.binary = (fs[s.k.message[1]].op = "binary")
    BY DEF TextIs
  <2>. QED BY <2>3, <2>4, <1>1
<1>. QED BY <1>7, <1>8, <1>9, <1>10 DEF TextIs, gs, P

LEMMA BeginsKeeps ==
  ASSUME IInv, NEW f \in Frames, NEW whole \in BOOLEAN, Begins(f, whole)
  PROVE  IInv'
<1> DEFINE fs == client.frames
           g == IF whole THEN f ELSE [f EXCEPT !.mask = FALSE, !.len = "7", !.pieces = 0]
           gs == Append(fs, g)
           n == Len(fs)
           j == Job("read", "ok")
           k == [ws EXCEPT !.reading = FALSE, !.frame = g, !.n = n + 1, !.left = g.pieces, !.cut = ws.cut \/ ~whole]
           r == [World EXCEPT !.k = k, !.q = Append(queue, j)]
<1>1. j \in Jobs /\ j.op = "read"
  BY DEF Jobs, Job
<1>2. /\ g \in AllFrames /\ g # NoFrame /\ g.pieces \in 0 .. 2 /\ g.op = f.op
      /\ ws.reading /\ ws.state = "MiniHeader" /\ n < MaxFrames /\ client' = [client EXCEPT !.frames = gs]
      /\ ~(ws.cut \/ ~whole) => Proper(f)
  <2>1. f \in AllFrames /\ g \in AllFrames /\ g.op = f.op
    <3>1. f \in AllFrames
      BY SocketAssumption
    <3>2. [f EXCEPT !.mask = FALSE, !.len = "7", !.pieces = 0] \in AllFrames
          /\ [f EXCEPT !.mask = FALSE, !.len = "7", !.pieces = 0].op = f.op
      <4>1. [f EXCEPT !.mask = FALSE] \in AllFrames /\ [f EXCEPT !.mask = FALSE].op = f.op
        BY <3>1 DEF AllFrames
      <4>2. \A h \in AllFrames : [h EXCEPT !.len = "7"] \in AllFrames /\ [h EXCEPT !.len = "7"].op = h.op
        BY DEF AllFrames
      <4>3. \A h \in AllFrames : [h EXCEPT !.pieces = 0] \in AllFrames /\ [h EXCEPT !.pieces = 0].op = h.op
        BY DEF AllFrames
      <4>. QED BY <4>1, <4>2, <4>3, Zenon
    <3>. QED BY <3>1, <3>2
  <2>2. g # NoFrame /\ g.pieces \in 0 .. 2
    BY <2>1 DEF AllFrames, NoFrame
  <2>. HIDE DEF n
  <2>3. /\ ws.reading /\ ws.state = "MiniHeader" /\ n < MaxFrames /\ client' = [client EXCEPT !.frames = gs]
        /\ ~(ws.cut \/ ~whole) => Proper(f)
    BY Zenon DEF Begins, n
  <2>. QED BY <2>1, <2>2, <2>3
<1>. HIDE DEF g
<1>3. /\ fs \in Seq(AllFrames) /\ n \in Nat /\ DOMAIN fs = 1 .. n /\ gs \in Seq(AllFrames) /\ Len(gs) = n + 1
      /\ gs # <<>> /\ gs[n + 1] = g /\ DOMAIN gs = 1 .. n + 1
      /\ \A i \in 1 .. n : gs[i] = fs[i]
  <2>1. fs \in Seq(AllFrames) /\ gs \in Seq(AllFrames) /\ Len(gs) = n + 1 /\ gs # <<>> /\ gs[n + 1] = g
        /\ \A i \in 1 .. n : gs[i] = fs[i]
    BY <1>2, WorldIs, AppendProperties, SMTT(60)
  <2>. QED BY <2>1, LenProperties
<1>. HIDE DEF gs, j
<1>4. Append(queue, j) \in Seq(Jobs)
  BY <1>1, WorldIs, AddJob
<1>5. /\ k \in Connection /\ k.reading = FALSE
      /\ k.life = ws.life /\ k.open = ws.open /\ k.is_reading = ws.is_reading
      /\ k.sending = ws.sending /\ k.buffers = ws.buffers /\ k.close_called = ws.close_called
      /\ k.message = ws.message /\ k.binary = ws.binary /\ k.n = n + 1 /\ k.frame = g
      /\ k.state = ws.state /\ k.left = g.pieces /\ k.cut = (ws.cut \/ ~whole)
  <2>1. g \in AllFrames \cup {NoFrame} /\ n + 1 \in Nat /\ g.pieces \in 0 .. 2 /\ ws \in Connection
    BY <1>2, <1>3, WorldIs
  <2>. DEFINE cut == ws.cut \/ ~whole
              h == [ws EXCEPT !.reading = FALSE, !.frame = g, !.n = n + 1, !.left = g.pieces, !.cut = cut]
  <2>2. cut \in BOOLEAN
    OBVIOUS
  <2>. HIDE DEF n, cut
  <2>3. h \in Connection
    BY <2>1, <2>2 DEF Connection
  <2>4. /\ h.reading = FALSE
        /\ h.life = ws.life /\ h.open = ws.open /\ h.is_reading = ws.is_reading
        /\ h.sending = ws.sending /\ h.buffers = ws.buffers /\ h.close_called = ws.close_called
        /\ h.message = ws.message /\ h.binary = ws.binary /\ h.n = n + 1 /\ h.frame = g
        /\ h.state = ws.state /\ h.left = g.pieces /\ h.cut = cut
    BY <2>1 DEF Connection
  <2>5. k = h
    BY DEF cut
  <2>. HIDE DEF h, k
  <2>. QED BY <2>3, <2>4, <2>5 DEF cut
<1>6. ws' = k /\ queue' = Append(queue, j) /\ out' = out /\ calls' = calls /\ asked' = asked
  BY Zenon DEF Begins, j, g, k, n
<1>. HIDE DEF k
<1>7. r \in Worlds /\ r.k = k /\ r.q = Append(queue, j) /\ r.o = out /\ r.a = asked /\ r.m = calls
  BY <1>4, <1>5, WorldIs DEF Worlds
<1>. HIDE DEF r
<1>8. World' = r
  <2>1. Becomes(r)
    BY <1>6, <1>7 DEF Becomes
  <2>. QED BY <2>1, <1>7, Becoming
<1>9. SentUp(r) /\ Quiet(r) /\ Closed(r)
  BY <1>1, <1>2, <1>5, <1>7, WorldIs, Queued, ZenonT(60)
<1>10. Served(r)
  BY <1>1, <1>2, <1>5, <1>7, WorldIs, QueuedServed, ZenonT(60)
<1>11. ASSUME ~k.cut PROVE \A i \in DOMAIN gs : Follows(gs, i)
  <2>0. ~ws.cut /\ Proper(f)
    BY <1>2, <1>5, <1>11
  <2>1. ASSUME NEW i \in 1 .. n + 1
        PROVE  SubSeq(gs, 1, i - 1) = SubSeq(fs, 1, i - 1)
    <3>1. \A x \in 1 .. i - 1 : x \in 1 .. n /\ fs[x] \in AllFrames /\ gs[x] \in AllFrames /\ gs[x] = fs[x]
      BY <1>3, ElementOfSeq
    <3>2. /\ SubSeq(gs, 1, i - 1) \in Seq(AllFrames)
          /\ Len(SubSeq(gs, 1, i - 1)) = IF 1 <= i - 1 THEN i - 1 - 1 + 1 ELSE 0
          /\ \A x \in 1 .. i - 1 - 1 + 1 : SubSeq(gs, 1, i - 1)[x] = gs[1 + x - 1]
      BY <3>1, <1>3, SubSeqProperties
    <3>3. /\ SubSeq(fs, 1, i - 1) \in Seq(AllFrames)
          /\ Len(SubSeq(fs, 1, i - 1)) = IF 1 <= i - 1 THEN i - 1 - 1 + 1 ELSE 0
          /\ \A x \in 1 .. i - 1 - 1 + 1 : SubSeq(fs, 1, i - 1)[x] = fs[1 + x - 1]
      BY <3>1, <1>3, SubSeqProperties
    <3>4. /\ Len(SubSeq(gs, 1, i - 1)) = i - 1 /\ Len(SubSeq(fs, 1, i - 1)) = i - 1
          /\ \A x \in 1 .. i - 1 : SubSeq(gs, 1, i - 1)[x] = SubSeq(fs, 1, i - 1)[x]
      BY <3>1, <3>2, <3>3, <1>3
    <3>. QED BY <3>2, <3>3, <3>4, SeqEqual
  <2>2. ASSUME NEW i \in 1 .. n PROVE Follows(gs, i)
    <3>1. Follows(fs, i)
      BY <1>3, <2>0, WorldIs DEF Fine, Reads
    <3>2. gs[i] = fs[i] /\ SubSeq(gs, 1, i - 1) = SubSeq(fs, 1, i - 1)
      BY <1>3, <2>1
    <3>. QED BY <3>1, <3>2 DEF Follows
  <2>3. Follows(gs, n + 1)
    <3>1. SubSeq(fs, 1, n) = fs
      BY <1>3
    <3>2. SubSeq(gs, 1, n + 1 - 1) = fs
      BY <3>1, <2>1, <1>3
    <3>3. /\ f.op = "cont" => InMessage(fs)
          /\ f.op \in {"text", "binary"} => ~InMessage(fs)
      BY <2>0 DEF Proper
    <3>4. gs[n + 1].op = f.op
      BY <1>2, <1>3
    <3>5. InMessage(SubSeq(gs, 1, n + 1 - 1)) <=> InMessage(fs)
      BY <3>2
    <3>. QED BY <3>3, <3>4, <3>5 DEF Follows
  <2>4. \A i \in DOMAIN gs : i \in 1 .. n \/ i = n + 1
    BY <1>3
  <2>. QED BY <2>2, <2>3, <2>4
<1>12. Reads(r, gs)
  <2>1. ws.frame = NoFrame
    BY <1>2, WorldIs DEF Fine, Served
  <2>2. Past(World, fs) = DOMAIN fs
    BY <2>1, WorldIs DEF Past
  <2>3. TextIs(World, fs, DOMAIN fs)
    BY <2>2, WorldIs DEF Fine, Reads
  <2>4. TextIs(World, gs, 1 .. n)
    BY <2>3, <1>2, <1>3, WorldIs, TextExtends DEF gs
  <2>5. TextIs(r, gs, 1 .. n)
    <3>1. /\ r.m = World.m /\ r.k.message = World.k.message /\ r.k.binary = World.k.binary
          /\ ~r.k.cut => ~World.k.cut
      BY <1>5, <1>7, WorldIs
    <3>. QED BY <2>4, <3>1 DEF TextIs
  <2>6. Past(r, gs) = 1 .. n
    BY <1>2, <1>3, <1>5, <1>7 DEF Past
  <2>. QED BY <2>5, <2>6, <1>3, <1>5, <1>7, <1>11 DEF Reads
<1>13. client' \in Clients /\ client'.frames = gs /\ Len(gs) <= MaxFrames
  <2>1. client \in Clients /\ Len(fs) < MaxFrames /\ MaxFrames \in Nat
    BY SocketAssumption, <1>2 DEF IInv
  <2>. QED BY <2>1, <1>2, <1>3 DEF Clients
<1>14. Fine(r, gs)
  BY <1>7, <1>9, <1>10, <1>12 DEF Fine
<1>15. World' = r /\ ws' = k
  BY <1>6, <1>8
<1>. QED BY <1>13, <1>14, <1>15 DEF IInv

-----------------------------------------------------------------------------
(* The connection *)

LEMMA InitEstablishes ==
  ASSUME Init
  PROVE  IInv
<1> DEFINE m == [messages |-> <<>>, closes |-> <<>>, errors |-> 0]
           x == [k |-> Fresh, q |-> <<>>, o |-> <<>>, m |-> m, a |-> <<>>]
           s == Send(x, "101")
           r == DoRead(s)
<1>1. \A S : <<>> \in Seq(S)
  OBVIOUS
<1>2. /\ Fresh \in Connection /\ Fresh.life = "live" /\ Fresh.open = TRUE /\ Fresh.reading = FALSE
      /\ Fresh.is_reading = FALSE /\ Fresh.state = "MiniHeader" /\ Fresh.frame = NoFrame /\ Fresh.n = 0
      /\ Fresh.message = <<>> /\ Fresh.sending = <<>> /\ Fresh.buffers = <<>>
  BY <1>1 DEF Fresh, Connection, States
<1>3. /\ m \in [messages : Seq(Message), closes : Seq({"uncleanly", "client", "server"}), errors : Nat]
      /\ m.messages = <<>> /\ m.closes = <<>> /\ m.errors = 0
  BY <1>1
<1>. HIDE DEF m
<1>4. x \in Worlds /\ x.k = Fresh /\ x.q = <<>> /\ x.o = <<>> /\ x.m = m /\ x.a = <<>>
  BY <1>1, <1>2, <1>3 DEF Worlds
<1>. HIDE DEF x
<1>5. SentUp(x) /\ Closed(x) /\ Quiet(x) /\ Served(x)
  <2>1. SentUp(x)
    BY <1>2, <1>4 DEF SentUp
  <2>2. Closed(x)
    BY <1>3, <1>4 DEF Closed
  <2>3. Quiet(x)
    BY <1>2, <1>4 DEF Quiet
  <2>4. Served(x)
    BY <1>2, <1>3, <1>4 DEF Served
  <2>. QED BY <2>1, <2>2, <2>3, <2>4
<1>6. Reads(x, <<>>)
  <2>1. Past(x, <<>>) = {} /\ DataIn(<<>>) = {}
    BY DEF Past, DataIn
  <2>2. EndsIn(<<>>) \cap {} = {} /\ Waiting(<<>>, {}) = {} /\ LastOf(<<>>) = <<>>
    BY <2>1 DEF Waiting, LastOf
  <2>3. TextIs(x, <<>>, {})
    <3>1. x.m.messages = <<>> /\ x.k.message = <<>>
      BY <1>2, <1>3, <1>4
    <3>2. Sorted(LastOf(x.m.messages), EndsIn(<<>>) \cap {}) /\ Sorted(x.k.message, Waiting(<<>>, {}))
      BY <2>2, <3>1, SortedEmpty
    <3>3. DOMAIN x.m.messages = {}
      BY <3>1
    <3>. QED BY <3>1, <3>2, <3>3 DEF TextIs
  <2>4. DOMAIN <<>> = {} /\ Len(<<>>) = 0
    OBVIOUS
  <2>. QED BY <2>1, <2>3, <2>4, <1>2, <1>4 DEF Reads
<1>7. Fine(s, <<>>)
  <2>1. Fine(x, <<>>)
    BY <1>4, <1>5, <1>6 DEF Fine
  <2>. QED BY <2>1, <1>2, <1>4, SendFine DEF Outs
<1>8. SameFields(x, s)
  BY <1>2, <1>4, SendKeeps DEF Outs
<1>. HIDE DEF s
<1>9. /\ s \in Worlds /\ s.k.life = "live" /\ ~s.k.is_reading /\ s.m.errors = 0 /\ s.k.frame = NoFrame
      /\ SentUp(s) /\ Quiet(s) /\ Served(s) /\ Closed(s)
  BY <1>2, <1>3, <1>4, <1>7, <1>8 DEF SameFields, Fine
<1>10. Fine(r, <<>>)
  <2>1. r \in Worlds /\ SameCalls(s, r) /\ SameText(s, r) /\ SentUp(r) /\ Quiet(r) /\ Served(r)
    BY <1>9, DoReadKeeps
  <2>2. Closed(r)
    BY <2>1, <1>9 DEF SameCalls, Closed
  <2>. QED BY <2>1, <2>2, <1>7, FineKept
<1>11. r = Start
  BY Zenon DEF Start, r, s, x, m
<1>. HIDE DEF r
<1>12. ws = r.k /\ queue = r.q /\ out = r.o /\ calls = r.m /\ asked = r.a
  BY <1>11 DEF Init
<1>13. World = r
  BY <1>10, <1>12 DEF World, Worlds, Fine
<1>14. client \in Clients /\ client.frames = <<>>
  BY <1>1 DEF Init, Clients
<1>. QED BY <1>10, <1>13, <1>14, SocketAssumption DEF IInv

LEMMA NextKeeps ==
  ASSUME IInv, [Next]_vars
  PROVE  IInv'
<1>1. CASE RunRead
  BY <1>1, RunReadKeeps
<1>2. CASE RunWrite
  BY <1>2, RunWriteKeeps
<1>3. CASE RunPosted
  BY <1>3, RunPostedKeeps
<1>4. ASSUME NEW what \in Sends, Post(what) PROVE IInv'
  BY <1>4, PostKeeps
<1>5. ASSUME NEW f \in Frames, NEW whole \in BOOLEAN, Begins(f, whole) PROVE IInv'
  BY <1>5, BeginsKeeps
<1>6. CASE ClientVanishes
  <2>1. World' = World
    BY <1>6 DEF ClientVanishes, World
  <2>2. client' \in Clients /\ client'.frames = client.frames
    BY <1>6 DEF ClientVanishes, IInv, Clients
  <2>. QED BY <2>1, <2>2 DEF IInv
<1>7. CASE Arrives
  <2>1. ws.reading /\ ws.state # "MiniHeader" /\ ws' = [ws EXCEPT !.reading = FALSE]
        /\ queue' = Append(queue, Job("read", "ok")) /\ UNCHANGED <<client, out, calls, asked>>
    BY <1>7 DEF Arrives
  <2>. QED BY <2>1, ReadDone
<1>8. CASE EndsStream
  <2>1. ws.reading /\ ws' = [ws EXCEPT !.reading = FALSE]
        /\ queue' = Append(queue, Job("read", "error")) /\ UNCHANGED <<client, out, calls, asked>>
    BY <1>8 DEF EndsStream
  <2>. QED BY <2>1, ReadDone
<1>9. ASSUME NEW what \in {"ok", "error"}, Written(what) PROVE IInv'
  BY <1>9, WrittenKeeps
<1>10. CASE UNCHANGED vars
  <2>1. World' = World /\ client' = client
    BY <1>10 DEF vars, World
  <2>. QED BY <2>1 DEF IInv
<1>. QED BY <1>1, <1>2, <1>3, <1>4, <1>5, <1>6, <1>7, <1>8, <1>9, <1>10 DEF Next

LEMMA IInvSuffices ==
  ASSUME IInv
  PROVE  SocketSound
<1> DEFINE fs == client.frames
<1>1. TextIs(World, fs, Past(World, fs)) /\ SentUp(World) /\ Quiet(World) /\ Served(World) /\ Closed(World)
  BY WorldIs DEF Fine, Reads
<1>2. TypeOK
  <2>1. /\ ws.state \in {"MiniHeader", "Len16", "Len64", "Mask", "Payload"}
        /\ ws.frame \in AllFrames \cup {NoFrame}
        /\ ws.left \in 0 .. 2
        /\ ws.life \in {"live", "deleted"}
    BY WorldIs DEF Connection, States
  <2>2. ws.n \in 0 .. MaxFrames
    <3>1. ws.n = Len(fs) /\ Len(fs) <= MaxFrames /\ MaxFrames \in Nat /\ Len(fs) \in Nat
      BY SocketAssumption, WorldIs, LenProperties DEF Fine, Reads, IInv
    <3>. QED BY <3>1
  <2>3. \A i \in DOMAIN queue : queue[i].op \in {"read", "write", "post"}
    <3>1. \A i \in DOMAIN queue : queue[i] \in Jobs
      BY WorldIs, ElementOfSeq, LenProperties
    <3>. QED BY <3>1 DEF Jobs
  <2>4. calls.errors \in 0 .. 1
    BY <1>1, WorldIs DEF Served
  <2>5. ws.cut \in BOOLEAN
    BY WorldIs DEF Connection
  <2>. QED BY <2>1, <2>2, <2>3, <2>4, <2>5 DEF TypeOK
<1>3. MessagesWhole
  <2>1. Past(World, fs) = Handled
    BY WorldIs DEF Past, Handled
  <2>. QED BY <1>1, <2>1, WorldIs DEF TextIs, MessagesWhole, HeadersCutAnywhere
<1>4. SentInOrder
  <2>1. /\ out \in Seq(Outs) /\ asked \in Seq(Outs) /\ Len(out) <= Len(asked)
        /\ \A i \in 1 .. Len(out) : out[i] = asked[i]
        /\ ws.open => asked = out \o ws.buffers
    BY <1>1, WorldIs DEF SentUp, Worlds
  <2>2. SubSeq(asked, 1, Len(out)) = SubSeq(out, 1, Len(out))
    <3>1. Len(out) \in Nat /\ \A i \in 1 .. Len(out) : out[i] \in Outs /\ asked[i] \in Outs
      BY <2>1, LenProperties, ElementOfSeq
    <3>2. /\ SubSeq(out, 1, Len(out)) \in Seq(Outs) /\ Len(SubSeq(out, 1, Len(out))) = Len(out)
          /\ \A i \in 1 .. Len(out) : SubSeq(out, 1, Len(out))[i] = out[i]
      BY <2>1, <3>1
    <3>3. /\ SubSeq(asked, 1, Len(out)) \in Seq(Outs)
          /\ Len(SubSeq(asked, 1, Len(out))) = IF 1 <= Len(out) THEN Len(out) - 1 + 1 ELSE 0
          /\ \A i \in 1 .. Len(out) - 1 + 1 : SubSeq(asked, 1, Len(out))[i] = asked[1 + i - 1]
      BY <2>1, <3>1, SubSeqProperties
    <3>4. /\ Len(SubSeq(asked, 1, Len(out))) = Len(out)
          /\ \A i \in 1 .. Len(out) : SubSeq(asked, 1, Len(out))[i] = asked[i]
      BY <3>1, <3>3
    <3>5. /\ Len(SubSeq(asked, 1, Len(out))) = Len(SubSeq(out, 1, Len(out)))
          /\ \A i \in 1 .. Len(out) : SubSeq(asked, 1, Len(out))[i] = SubSeq(out, 1, Len(out))[i]
      BY <2>1, <3>2, <3>4
    <3>. QED BY <3>2, <3>3, <3>4, <3>5, SeqEqual
  <2>. QED BY <2>1, <2>2 DEF SentInOrder, IsPrefix
<1>5. DeletedQuiet
  <2>1. ASSUME ws.life = "deleted", NEW i \in DOMAIN queue PROVE queue[i].op = "post"
    <3>1. queue[i] \in Jobs
      BY WorldIs, ElementOfSeq, LenProperties
    <3>2. queue[i].op # "read" /\ queue[i].op # "write"
      BY <1>1, <2>1, WorldIs DEF Quiet
    <3>. QED BY <3>1, <3>2 DEF Jobs
  <2>2. ws.life = "deleted" => ~ws.reading /\ ws.sending = <<>>
    BY <1>1, WorldIs DEF Quiet
  <2>. QED BY <2>1, <2>2 DEF DeletedQuiet
<1>6. ClosedOnce
  BY <1>1, WorldIs DEF Closed, ClosedOnce
<1>. QED BY <1>2, <1>3, <1>4, <1>5, <1>6 DEF SocketSound

-----------------------------------------------------------------------------
\* A WebSocket connection sends what it is asked for in order and once, is deleted only when nothing
\* can call it back, and reports a close frame once, whatever it is sent and wherever the stream is
\* cut; and as long as no read brought half of a header, it gives the application the client's messages
\* whole and in order.  All of it for any frames, however many, and whatever other threads ask for
\* (handle_read, handle_fragment, do_write and check_destroy of websocket::Connection).
THEOREM SocketIsSound == Spec => []SocketSound
<1>1. Init => IInv
  BY InitEstablishes
<1>2. IInv /\ [Next]_vars => IInv'
  BY NextKeeps
<1>3. IInv => SocketSound
  BY IInvSuffices
<1>. QED BY <1>1, <1>2, <1>3, PTL DEF Spec

-----------------------------------------------------------------------------
(* The middlewares of a request *)

Globals == (1 .. N) \ Local
Entries == ({"before", "after"} \X (1 .. N)) \cup {<<"handler", 0>>}

\* Who was called, in a log.
RanIn(s, what) == {m \in 1 .. N : \E i \in DOMAIN s : s[i] = <<what, m>>}
HandlerIn(s) == \E i \in DOMAIN s : s[i] = <<"handler", 0>>

\* Whose call is around whose, when ls are the local ones.
Outer(ls, l, m) ==
  \/ l \in Globals /\ m \in ls
  \/ l \in Globals /\ m \in Globals /\ l < m
  \/ l \in ls /\ m \in ls /\ l < m

\* The calls before the handler go inwards, the ones after it outwards unless they
\* were started again, and the handler is called once, after the former.
Nested(ls, s, again) ==
  \A i, j \in DOMAIN s : i < j =>
    /\ s[i][1] = "before" /\ s[j][1] = "before" => Outer(ls, s[i][2], s[j][2])
    /\ s[i][1] = "after" /\ s[j][1] = "after" => again \/ Outer(ls, s[j][2], s[i][2])
    /\ s[i][1] = "handler" => s[j][1] = "after"

Befores == RanIn(log, "before")
Afters == RanIn(log, "after")
HandlerRan == HandlerIn(log)

\* An after_handle threw within the route: others may be called again, or not at all.
Again == "throwAfter" \in hist

Phases == {"before", "unwind", "handler", "later", "caught", "afterLocal", "complete", "afterGlobal",
           "done", "returned"}

MiddleTypes ==
  /\ listed \subseteq Local /\ caller \in {"handle", "route", "catch", "later"} /\ phase \in Phases /\ scope \in {"global", "local"} /\ at \in 0 .. N + 1
  /\ completed \in BOOLEAN /\ onEnd \in {"nothing", "connection", "wrapper"} /\ need \in BOOLEAN
  /\ inside \in BOOLEAN /\ thrown \in BOOLEAN /\ log \in Seq(Entries) /\ responses \in 0 .. 1

\* How far the calls before the handler are.
Inwards ==
  /\ Befores \subseteq Globals \cup listed
  /\ HandlerRan => Befores = Globals \cup listed
  /\ phase \in {"before", "unwind", "handler"} => ~HandlerRan
  /\ phase \in {"before", "unwind", "handler", "later"} => ~Again
  /\ phase = "before" => Afters = {} /\ at > 0
  /\ phase = "before" /\ scope = "global" => Befores = {m \in Globals : m < at}
  /\ phase = "before" /\ scope = "local" => Befores = Globals \cup {m \in listed : m < at} /\ onEnd = "nothing"
  /\ phase \in {"before", "unwind"} => (need <=> scope = "local")
  /\ scope = "local" => listed # {}

\* Everyone was called before the handler, whose response will be completed.
Admitted ==
  /\ Befores = Globals \cup listed /\ Afters = {} /\ need
  /\ onEnd = (IF listed = {} THEN "connection" ELSE "wrapper")

\* How far the calls after the handler, or instead of it, are.
Outwards ==
  /\ phase = "unwind" => at <= N
  /\ phase = "unwind" /\ scope = "global" =>
       Befores \subseteq Globals /\ {m \in Globals : m <= at} \subseteq Befores /\ Afters = {m \in Befores : m > at}
  /\ phase = "unwind" /\ scope = "local" =>
       /\ Globals \subseteq Befores /\ {m \in listed : m <= at} \subseteq Befores
       /\ Afters = {m \in Befores \cap listed : m > at}
  /\ phase \in {"handler", "later"} => Admitted
  /\ phase = "caught" => onEnd = "nothing" \/ (responses = 0 /\ (Again \/ Admitted))
  /\ phase = "afterLocal" =>
       at <= N /\ (Again \/ (Befores = Globals \cup listed /\ need /\ Afters = {m \in listed : m > at}))
  /\ phase = "complete" =>
       Again \/ IF need THEN Globals \subseteq Befores /\ Afters = Befores \ Globals ELSE Afters = Befores
  /\ phase = "afterGlobal" =>
       /\ at <= N
       /\ Again \/ ({m \in Globals : m <= at} \subseteq Befores /\ Afters = Befores \ {m \in Globals : m <= at})
  /\ responses > 0 => phase \in {"done", "caught", "returned"} /\ (Again \/ Afters = Befores)
  /\ responses > 0 /\ phase = "caught" => onEnd = "nothing"

MiddleInv == MiddleTypes /\ Nested(listed, log, Again) /\ Inwards /\ Outwards

LEMMA CalledIs ==
  ASSUME NEW s \in {"global", "local"}
  PROVE  Middle!Called(s) = IF s = "global" THEN Globals ELSE listed
BY DEF Middle!Called, Globals

LEMMA NumbersOf ==
  /\ N \in Nat /\ Globals \subseteq 1 .. N /\ Local \subseteq 1 .. N /\ Globals \cap Local = {}
  /\ 1 .. N = Globals \cup Local
BY MiddlewaresAssumption DEF Middle!MiddlewareAssumption, Globals

\* One more call.
LEMMA Logged ==
  ASSUME NEW s \in Seq(Entries), NEW what \in {"before", "after"}, NEW m \in 1 .. N
  PROVE  LET r == Append(s, <<what, m>>)
         IN  /\ r \in Seq(Entries)
             /\ RanIn(r, what) = RanIn(s, what) \cup {m}
             /\ \A other \in {"before", "after"} \ {what} : RanIn(r, other) = RanIn(s, other)
             /\ HandlerIn(r) <=> HandlerIn(s)
<1> DEFINE e == <<what, m>>
           r == Append(s, e)
<1>1. e \in Entries /\ e # <<"handler", 0>>
  BY DEF Entries
<1>2. /\ r \in Seq(Entries) /\ DOMAIN r = 1 .. Len(s) + 1 /\ DOMAIN s = 1 .. Len(s) /\ Len(s) \in Nat
      /\ r[Len(s) + 1] = e /\ \A i \in 1 .. Len(s) : r[i] = s[i]
  BY <1>1, AppendProperties, LenProperties
<1>3. \A x : (\E i \in DOMAIN r : r[i] = x) <=> x = e \/ \E i \in DOMAIN s : s[i] = x
  <2>1. \A i \in 1 .. Len(s) + 1 : i \in 1 .. Len(s) \/ i = Len(s) + 1
    BY <1>2
  <2>2. (\A i \in 1 .. Len(s) : i \in 1 .. Len(s) + 1) /\ Len(s) + 1 \in 1 .. Len(s) + 1
    BY <1>2
  <2>. HIDE DEF r, e
  <2>. QED BY <2>1, <2>2, <1>2
<1>. HIDE DEF r
<1>4. RanIn(r, what) = RanIn(s, what) \cup {m}
  BY <1>3 DEF RanIn
<1>5. \A other \in {"before", "after"} \ {what} : RanIn(r, other) = RanIn(s, other)
  BY <1>3 DEF RanIn
<1>6. HandlerIn(r) <=> HandlerIn(s)
  BY <1>1, <1>3 DEF HandlerIn
<1>. QED BY <1>2, <1>4, <1>5, <1>6 DEF r

LEMMA HandlerLogged ==
  ASSUME NEW s \in Seq(Entries)
  PROVE  LET r == Append(s, <<"handler", 0>>)
         IN  /\ r \in Seq(Entries) /\ HandlerIn(r)
             /\ \A what : RanIn(r, what) = RanIn(s, what)
<1> DEFINE e == <<"handler", 0>>
           r == Append(s, e)
<1>1. e \in Entries /\ \A what : \A m \in 1 .. N : e # <<what, m>>
  BY NumbersOf DEF Entries
<1>2. /\ r \in Seq(Entries) /\ DOMAIN r = 1 .. Len(s) + 1 /\ DOMAIN s = 1 .. Len(s) /\ Len(s) \in Nat
      /\ r[Len(s) + 1] = e /\ \A i \in 1 .. Len(s) : r[i] = s[i]
  BY <1>1, AppendProperties, LenProperties
<1>3. \A x : (\E i \in DOMAIN r : r[i] = x) <=> x = e \/ \E i \in DOMAIN s : s[i] = x
  <2>1. \A i \in 1 .. Len(s) + 1 : i \in 1 .. Len(s) \/ i = Len(s) + 1
    BY <1>2
  <2>2. (\A i \in 1 .. Len(s) : i \in 1 .. Len(s) + 1) /\ Len(s) + 1 \in 1 .. Len(s) + 1
    BY <1>2
  <2>. HIDE DEF r, e
  <2>. QED BY <2>1, <2>2, <1>2
<1>. HIDE DEF r
<1>4. \A what : RanIn(r, what) = RanIn(s, what)
  BY <1>1, <1>3 DEF RanIn
<1>5. HandlerIn(r)
  BY <1>3 DEF HandlerIn
<1>. QED BY <1>2, <1>4, <1>5 DEF r

\* It keeps the nesting.
LEMMA NestedLogged ==
  ASSUME NEW ls, NEW again, NEW s \in Seq(Entries), Nested(ls, s, again), NEW e \in Entries,
         e[1] = "before" => ~HandlerIn(s) /\ \A l \in RanIn(s, "before") : Outer(ls, l, e[2]),
         e[1] = "after" => again \/ \A l \in RanIn(s, "after") : Outer(ls, e[2], l),
         e[1] = "handler" => ~HandlerIn(s)
  PROVE  Nested(ls, Append(s, e), again)
<1> DEFINE r == Append(s, e)
<1>1. /\ DOMAIN r = 1 .. Len(s) + 1 /\ DOMAIN s = 1 .. Len(s) /\ Len(s) \in Nat
      /\ r[Len(s) + 1] = e /\ \A i \in 1 .. Len(s) : r[i] = s[i] /\ s[i] \in Entries
  BY AppendProperties, LenProperties, ElementOfSeq
<1>2. \A i \in 1 .. Len(s) :
        /\ s[i][1] = "before" => s[i][2] \in RanIn(s, "before")
        /\ s[i][1] = "after" => s[i][2] \in RanIn(s, "after")
        /\ s[i][1] = "handler" => HandlerIn(s)
  <2>1. ASSUME NEW i \in 1 .. Len(s)
        PROVE  /\ s[i][1] = "before" => s[i][2] \in RanIn(s, "before")
               /\ s[i][1] = "after" => s[i][2] \in RanIn(s, "after")
               /\ s[i][1] = "handler" => HandlerIn(s)
    <3>1. CASE s[i] \in {"before", "after"} \X (1 .. N)
      <4>1. PICK what \in {"before", "after"}, m \in 1 .. N : s[i] = <<what, m>>
        BY <3>1
      <4>. QED BY <4>1, <1>1 DEF RanIn
    <3>2. CASE s[i] = <<"handler", 0>>
      BY <3>2, <1>1 DEF HandlerIn
    <3>. QED BY <3>1, <3>2, <1>1 DEF Entries
  <2>. QED BY <2>1
<1>3. e[1] \in {"before", "after", "handler"}
  BY DEF Entries
<1>4. ASSUME NEW i \in 1 .. Len(s) + 1, NEW j \in 1 .. Len(s) + 1, i < j
      PROVE  /\ r[i][1] = "before" /\ r[j][1] = "before" => Outer(ls, r[i][2], r[j][2])
             /\ r[i][1] = "after" /\ r[j][1] = "after" => again \/ Outer(ls, r[j][2], r[i][2])
             /\ r[i][1] = "handler" => r[j][1] = "after"
  <2>1. i \in 1 .. Len(s) /\ r[i] = s[i]
    BY <1>1, <1>4
  <2>. HIDE DEF r
  <2>2. CASE j \in 1 .. Len(s)
    BY <2>1, <2>2, <1>1, <1>4 DEF Nested
  <2>3. CASE j = Len(s) + 1
    <3>1. r[j] = e
      BY <2>3, <1>1
    <3>. QED BY <3>1, <2>1, <1>2, <1>3
  <2>. QED BY <2>2, <2>3, <1>1
<1>. HIDE DEF r
<1>5. Nested(ls, r, again)
  BY <1>1, <1>4 DEF Nested
<1>. QED BY <1>5 DEF r


LEMMA MiddleInit ==
  ASSUME Middle!Init
  PROVE  MiddleInv
<1>1. /\ log = <<>> /\ Befores = {} /\ Afters = {} /\ ~HandlerRan /\ Nested(listed, log, Again)
      /\ log \in Seq(Entries)
  BY DEF Middle!Init, Befores, Afters, HandlerRan, RanIn, HandlerIn, Nested
<1>0. ~Again
  BY DEF Middle!Init, Again
<1>2. MiddleTypes
  <2>1. 1 \in 0 .. N + 1 /\ 0 \in 0 .. 1
    BY NumbersOf
  <2>. QED BY <1>1, <2>1 DEF Middle!Init, MiddleTypes, Phases
<1>3. Inwards
  <2>1. {m \in Globals : m < 1} = {}
    BY NumbersOf
  <2>. QED BY <1>0, <1>1, <2>1 DEF Middle!Init, Inwards
<1>4. Outwards
  BY DEF Middle!Init, Outwards
<1>. QED BY <1>1, <1>2, <1>3, <1>4 DEF MiddleInv

LEMMA MiddleFacts ==
  ASSUME MiddleInv
  PROVE  /\ MiddleTypes /\ Inwards /\ Outwards /\ Nested(listed, log, Again) /\ log \in Seq(Entries)
         /\ Befores \subseteq 1 .. N /\ Afters \subseteq 1 .. N /\ at \in Nat /\ listed \subseteq 1 .. N
         /\ listed \cap Globals = {} /\ Globals \subseteq 1 .. N /\ N \in Nat
<1>1. Befores \subseteq 1 .. N /\ Afters \subseteq 1 .. N
  BY DEF Befores, Afters, RanIn
<1>. QED BY <1>1, NumbersOf DEF MiddleInv, MiddleTypes

\* Steps that call nobody.
LEMMA Unlogged ==
  ASSUME log' = log, listed' = listed, Again' = Again, MiddleInv
  PROVE  /\ Befores' = Befores /\ Afters' = Afters /\ HandlerRan' = HandlerRan /\ Nested(listed, log, Again)'
         /\ log' \in Seq(Entries)
BY MiddleFacts DEF Befores, Afters, HandlerRan

LEMMA QuietSteps ==
  ASSUME MiddleInv,
         \/ Middle!Skip \/ Middle!Unwound \/ Middle!CallRoute \/ Middle!CallHandler \/ Middle!EndLater
         \/ Middle!Caught \/ Middle!AfterLocalDone \/ Middle!Complete \/ Middle!Write
  PROVE  MiddleInv'
<1>. USE MiddleFacts
<1>1. CASE Middle!Skip
  <2>1. phase = "before" /\ at <= N /\ at \notin Middle!Called(scope) /\ at' = at + 1 /\ log' = log
        /\ Again' = Again /\ UNCHANGED <<listed, caller, phase, scope, completed, onEnd, need, inside, thrown, responses>>
    BY <1>1 DEF Middle!Skip, Again
  <2>2. \A m \in 1 .. N : m < at + 1 <=> m < at \/ m = at
    OBVIOUS
  <2>3. scope \in {"global", "local"} /\ at \notin IF scope = "global" THEN Globals ELSE listed
    BY <2>1, CalledIs DEF MiddleTypes
  <2>4. MiddleTypes'
    BY <2>1, Unlogged DEF MiddleTypes
  <2>5. Inwards'
    BY <2>1, <2>2, <2>3, Unlogged DEF Inwards
  <2>6. Outwards'
    BY <2>1, Unlogged DEF Outwards, Admitted
  <2>. QED BY <2>1, <2>4, <2>5, <2>6, Unlogged DEF MiddleInv
<1>2. CASE Middle!Unwound
  <2>1. phase = "unwind" /\ at = 0 /\ phase' = "complete" /\ log' = log
        /\ Again' = Again /\ UNCHANGED <<listed, caller, scope, at, completed, onEnd, need, inside, thrown, responses>>
    BY <1>2 DEF Middle!Unwound, Again
  <2>2. MiddleTypes'
    BY <2>1, Unlogged DEF MiddleTypes, Phases
  <2>3. Inwards'
    BY <2>1, Unlogged DEF Inwards
  <2>4. IF need THEN Globals \subseteq Befores /\ Afters = Befores \ Globals ELSE Afters = Befores
    <3>1. \A m \in 1 .. N : m > 0
      OBVIOUS
    <3>2. (need <=> scope = "local") /\ scope \in {"global", "local"} /\ Befores \subseteq Globals \cup listed
      BY <2>1 DEF Inwards, MiddleTypes
    <3>. QED BY <2>1, <3>1, <3>2 DEF Outwards
  <2>5. Outwards'
    BY <2>1, <2>4, Unlogged DEF Outwards, Admitted
  <2>. QED BY <2>1, <2>2, <2>3, <2>5, Unlogged DEF MiddleInv
<1>3. CASE Middle!CallRoute
  <2>1. /\ phase = "before" /\ scope = "global" /\ at > N /\ need' = TRUE /\ log' = log
        /\ IF listed = {}
           THEN onEnd' = "connection" /\ phase' = "handler" /\ scope' = scope /\ at' = at /\ inside' = inside
           ELSE onEnd' = "nothing" /\ scope' = "local" /\ at' = 1 /\ inside' = TRUE /\ phase' = phase
        /\ caller' = "route" /\ Again' = Again /\ UNCHANGED <<listed, completed, thrown, responses>>
    BY <1>3 DEF Middle!CallRoute, Again
  <2>2. Befores = Globals /\ Afters = {} /\ ~HandlerRan
    <3>1. \A m \in Globals : m < at
      BY <2>1
    <3>. QED BY <2>1, <3>1 DEF Inwards
  <2>3. MiddleTypes'
    <3>1. at' \in 0 .. N + 1 /\ need' \in BOOLEAN /\ inside' \in BOOLEAN
      <4>1. at \in 0 .. N + 1 /\ 1 \in 0 .. N + 1
        BY DEF MiddleTypes
      <4>2. at' \in 0 .. N + 1
        BY <2>1, <4>1
      <4>. QED BY <2>1, <4>2 DEF MiddleTypes
    <3>2. scope' \in {"global", "local"} /\ phase' \in Phases /\ onEnd' \in {"nothing", "connection", "wrapper"}
      BY <2>1 DEF Phases
    <3>. QED BY <2>1, <3>1, <3>2, Unlogged DEF MiddleTypes
  <2>4. Inwards'
    <3>1. {m \in listed : m < 1} = {}
      OBVIOUS
    <3>2. CASE listed = {}
      BY <2>1, <2>2, <3>2, Unlogged DEF Inwards
    <3>3. CASE listed # {}
      BY <2>1, <2>2, <3>1, <3>3, Unlogged DEF Inwards
    <3>. QED BY <3>2, <3>3
  <2>5. responses = 0
    BY <2>1 DEF Outwards, MiddleTypes
  <2>6. Outwards'
    <3>1. CASE listed = {}
      BY <2>1, <2>2, <2>5, <3>1, Unlogged DEF Outwards, Admitted
    <3>2. CASE listed # {}
      BY <2>1, <2>2, <2>5, <3>2, Unlogged DEF Outwards, Admitted
    <3>. QED BY <3>1, <3>2
  <2>. QED BY <2>1, <2>3, <2>4, <2>6, Unlogged DEF MiddleInv
<1>4. CASE Middle!CallHandler
  <2>1. /\ phase = "before" /\ scope = "local" /\ at > N /\ onEnd' = "wrapper" /\ phase' = "handler" /\ log' = log
        /\ Again' = Again /\ UNCHANGED <<listed, caller, scope, at, completed, need, inside, thrown, responses>>
    BY <1>4 DEF Middle!CallHandler, Again
  <2>2. Befores = Globals \cup listed /\ Afters = {} /\ ~HandlerRan /\ need
    <3>1. \A m \in listed : m < at
      BY <2>1
    <3>. QED BY <2>1, <3>1 DEF Inwards
  <2>3. MiddleTypes'
    BY <2>1, Unlogged DEF MiddleTypes, Phases
  <2>4. Inwards'
    BY <2>1, <2>2, Unlogged DEF Inwards
  <2>5. responses = 0
    BY <2>1 DEF Outwards, MiddleTypes
  <2>6. Outwards'
    <3>1. listed # {}
      BY <2>1 DEF Inwards
    <3>. QED BY <2>1, <2>2, <2>5, <3>1, Unlogged DEF Outwards, Admitted
  <2>. QED BY <2>1, <2>3, <2>4, <2>6, Unlogged DEF MiddleInv
<1>5. CASE Middle!EndLater \/ Middle!Caught
  <2>1. /\ phase = "later" \/ phase = "caught"
        /\ phase' = Middle!Ended /\ at' = N /\ completed' = TRUE /\ log' = log /\ thrown' \in BOOLEAN
        /\ caller' \in {"later", "catch"} /\ Again' = Again
        /\ UNCHANGED <<listed, scope, onEnd, need, inside, responses>>
    BY <1>5 DEF Middle!EndLater, Middle!EndResponse, Middle!Caught, MiddleTypes, Again
  <2>2. onEnd = "nothing" \/ (responses = 0 /\ (Again \/ Admitted))
    BY <2>1 DEF Outwards, MiddleTypes
  <2>3. MiddleTypes'
    BY <2>1, Unlogged DEF MiddleTypes, Phases, Middle!Ended
  <2>4. Inwards'
    BY <2>1, Unlogged DEF Inwards, Middle!Ended
  <2>5. CASE onEnd = "nothing"
    <3>1. phase' = "returned"
      BY <2>1, <2>5 DEF Middle!Ended
    <3>2. Outwards'
      BY <2>1, <2>5, <3>1, Unlogged DEF Outwards, Admitted
    <3>. QED BY <2>1, <2>3, <2>4, <3>2, Unlogged DEF MiddleInv
  <2>6. CASE onEnd # "nothing"
    <3>1. /\ responses = 0 /\ phase' \in {"complete", "afterLocal"}
          /\ Again \/ (Admitted /\ phase' = IF listed = {} THEN "complete" ELSE "afterLocal")
      <4>1. phase' = IF onEnd = "wrapper" THEN "afterLocal" ELSE "complete"
        BY <2>1, <2>6 DEF Middle!Ended, MiddleTypes
      <4>. QED BY <2>2, <2>6, <4>1 DEF Admitted
    <3>2. {m \in listed : m > N} = {}
      OBVIOUS
    <3>3. Outwards'
      BY <2>1, <3>1, <3>2, Unlogged DEF Outwards, Admitted
    <3>. QED BY <2>1, <2>3, <2>4, <3>3, Unlogged DEF MiddleInv
  <2>. QED BY <2>5, <2>6
<1>6. CASE Middle!AfterLocalDone
  <2>1. /\ phase = "afterLocal" /\ at = 0 /\ phase' \in {"complete", "returned"} /\ log' = log
        /\ Again' = Again /\ UNCHANGED <<listed, caller, scope, at, completed, onEnd, need, inside, thrown, responses>>
    BY <1>6 DEF Middle!AfterLocalDone, Again
  <2>2. MiddleTypes'
    BY <2>1, Unlogged DEF MiddleTypes, Phases
  <2>3. Inwards'
    BY <2>1, Unlogged DEF Inwards
  <2>4. Again \/ (need /\ Globals \subseteq Befores /\ Afters = Befores \ Globals)
    <3>1. \A m \in 1 .. N : m > 0
      OBVIOUS
    <3>. QED BY <2>1, <3>1 DEF Outwards
  <2>5. Outwards'
    BY <2>1, <2>4, Unlogged DEF Outwards, Admitted
  <2>. QED BY <2>1, <2>2, <2>3, <2>5, Unlogged DEF MiddleInv
<1>7. CASE Middle!Complete
  <2>1. /\ phase = "complete" /\ need' = FALSE /\ at' = (IF need THEN N ELSE 0) /\ phase' = "afterGlobal" /\ log' = log
        /\ Again' = Again /\ UNCHANGED <<listed, caller, scope, completed, onEnd, inside, thrown, responses>>
    BY <1>7 DEF Middle!Complete, Again
  <2>2. MiddleTypes'
    <3>1. at' \in 0 .. N + 1
      BY <2>1
    <3>. QED BY <2>1, <3>1, Unlogged DEF MiddleTypes, Phases
  <2>3. Inwards'
    BY <2>1, Unlogged DEF Inwards
  <2>4. Again \/ (/\ {m \in Globals : m <= at'} \subseteq Befores
                  /\ Afters = Befores \ {m \in Globals : m <= at'})
    <3>1. {m \in Globals : m <= N} = Globals /\ {m \in Globals : m <= 0} = {}
      OBVIOUS
    <3>. QED BY <2>1, <3>1 DEF Outwards
  <2>5. Outwards'
    BY <2>1, <2>4, Unlogged DEF Outwards, Admitted
  <2>. QED BY <2>1, <2>2, <2>3, <2>5, Unlogged DEF MiddleInv
<1>8. CASE Middle!Write
  <2>1. /\ phase = "afterGlobal" /\ at = 0 /\ responses' = responses + 1 /\ inside' = FALSE
        /\ onEnd' = "nothing" /\ phase' = (IF thrown THEN "caught" ELSE "done") /\ log' = log
        /\ Again' = Again /\ UNCHANGED <<listed, caller, scope, at, completed, need, thrown>>
    BY <1>8 DEF Middle!Write, Again
  <2>2. responses = 0 /\ (Again \/ Afters = Befores)
    <3>1. {m \in Globals : m <= 0} = {}
      OBVIOUS
    <3>2. Again \/ Afters = Befores
      BY <2>1, <3>1 DEF Outwards
    <3>3. responses \in 0 .. 1 /\ ~(responses > 0)
      BY <2>1 DEF Outwards, MiddleTypes
    <3>. QED BY <3>2, <3>3
  <2>3. MiddleTypes'
    <3>1. responses' \in 0 .. 1 /\ phase' \in Phases
      BY <2>1, <2>2 DEF Phases
    <3>. QED BY <2>1, <3>1, Unlogged DEF MiddleTypes
  <2>4. Inwards'
    BY <2>1, Unlogged DEF Inwards
  <2>5. Outwards'
    BY <2>1, <2>2, Unlogged DEF Outwards, Admitted
  <2>. QED BY <2>1, <2>3, <2>4, <2>5, Unlogged DEF MiddleInv
<1>. QED BY <1>1, <1>2, <1>3, <1>4, <1>5, <1>6, <1>7, <1>8

\* Steps that call a middleware, the one they are at.
LEMMA MiddlewareCalled ==
  ASSUME MiddleInv, NEW what \in {"before", "after"}, at \in 1 .. N,
         log' = Append(log, <<what, at>>), listed' = listed, Again => Again',
         what = "before" => ~HandlerRan /\ \A l \in Befores : Outer(listed, l, at),
         what = "after" => Again' \/ \A l \in Afters : Outer(listed, at, l)
  PROVE  /\ log' \in Seq(Entries) /\ Nested(listed, log, Again)' /\ HandlerRan' = HandlerRan
         /\ what = "before" => Befores' = Befores \cup {at} /\ Afters' = Afters
         /\ what = "after" => Befores' = Befores /\ Afters' = Afters \cup {at}
<1>. DEFINE e == <<what, at>>
<1>1. e \in Entries /\ e[1] = what /\ e[2] = at
  BY DEF Entries
<1>2. log \in Seq(Entries) /\ Nested(listed, log, Again)
  BY MiddleFacts
<1>3. Nested(listed, log', Again')
  <2>1. Nested(listed, log, Again')
    BY <1>2 DEF Nested
  <2>2. Nested(listed, Append(log, e), Again')
    <3>. HIDE DEF e
    <3>. QED BY <1>1, <1>2, <2>1, NestedLogged DEF Befores, Afters, HandlerRan
  <2>. QED BY <2>2
<1>4. /\ log' \in Seq(Entries) /\ RanIn(log', what) = RanIn(log, what) \cup {at}
      /\ \A other \in {"before", "after"} \ {what} : RanIn(log', other) = RanIn(log, other)
      /\ HandlerIn(log') <=> HandlerIn(log)
  BY <1>2, Logged
<1>5. HandlerRan' = HandlerRan
  BY <1>4 DEF HandlerRan, HandlerIn
<1>6. what = "before" => Befores' = Befores \cup {at} /\ Afters' = Afters
  BY <1>4 DEF Befores, Afters
<1>7. what = "after" => Befores' = Befores /\ Afters' = Afters \cup {at}
  BY <1>4 DEF Befores, Afters
<1>. QED BY <1>3, <1>4, <1>5, <1>6, <1>7

LEMMA HandlerCalled ==
  ASSUME MiddleInv, log' = Append(log, <<"handler", 0>>), listed' = listed, Again' = Again, ~HandlerRan
  PROVE  /\ log' \in Seq(Entries) /\ Nested(listed, log, Again)' /\ HandlerRan'
         /\ Befores' = Befores /\ Afters' = Afters
<1>. DEFINE e == <<"handler", 0>>
<1>1. e \in Entries /\ e[1] = "handler"
  BY DEF Entries
<1>2. log \in Seq(Entries) /\ Nested(listed, log, Again)
  BY MiddleFacts
<1>3. Nested(listed, log', Again')
  <2>1. Nested(listed, Append(log, e), Again)
    <3>. HIDE DEF e
    <3>. QED BY <1>1, <1>2, NestedLogged DEF HandlerRan
  <2>. QED BY <2>1
<1>4. log' \in Seq(Entries) /\ HandlerIn(log') /\ \A other : RanIn(log', other) = RanIn(log, other)
  BY <1>2, HandlerLogged
<1>. QED BY <1>3, <1>4 DEF Befores, Afters, HandlerRan

LEMMA BeforeKeeps ==
  ASSUME MiddleInv, (\E ends \in BOOLEAN : Middle!Before(ends)) \/ Middle!BeforeThrows
  PROVE  MiddleInv'
<1>. USE MiddleFacts
<1>. DEFINE Moved == /\ phase = "before" /\ at <= N /\ at \in Middle!Called(scope) /\ log' = Append(log, <<"before", at>>)
                 /\ Again' = Again /\ UNCHANGED <<listed, caller, scope, onEnd, need, responses>>
                 /\ completed' \in BOOLEAN /\ thrown' \in BOOLEAN /\ inside' \in BOOLEAN
                 /\ \/ phase' = "before" /\ at' = at + 1
                    \/ phase' = "unwind" /\ at' = at
                    \/ phase' = "returned" /\ at' = at
                    \/ phase' = "caught" /\ at' = at /\ scope = "local"
<1>1. Moved
  <2>1. completed \in BOOLEAN /\ thrown \in BOOLEAN /\ inside \in BOOLEAN
    BY DEF MiddleTypes
  <2>2. ASSUME NEW ends \in BOOLEAN, Middle!Before(ends)
        PROVE  Moved
    BY <2>1, <2>2 DEF Middle!Before, Middle!Did, Again
  <2>3. CASE Middle!BeforeThrows /\ scope = "local"
    <3>1. hist' = hist \cup {"throwLocal"}
      BY <2>3 DEF Middle!BeforeThrows, Middle!Allowed
    <3>2. Again' = Again
      BY <3>1 DEF Again
    <3>. QED BY <2>1, <2>3, <3>2 DEF Middle!BeforeThrows, Middle!Did
  <2>4. CASE Middle!BeforeThrows /\ scope = "global"
    <3>1. hist' = hist \cup {"throwUncaught"}
      BY <2>4 DEF Middle!BeforeThrows, Middle!Allowed
    <3>2. Again' = Again
      BY <3>1 DEF Again
    <3>. QED BY <2>1, <2>4, <3>2 DEF Middle!BeforeThrows, Middle!Did
  <2>5. Middle!BeforeThrows => scope \in {"local", "global"}
    BY DEF Middle!BeforeThrows
  <2>. HIDE DEF Moved
  <2>. QED BY <2>2, <2>3, <2>4, <2>5
<1>2. /\ Afters = {} /\ ~HandlerRan /\ at \in 1 .. N /\ (need <=> scope = "local")
      /\ \/ scope = "global" /\ at \in Globals /\ Befores = {m \in Globals : m < at}
         \/ scope = "local" /\ at \in listed /\ Befores = Globals \cup {m \in listed : m < at} /\ onEnd = "nothing"
  <2>1. scope \in {"global", "local"} /\ at \in IF scope = "global" THEN Globals ELSE listed
    BY <1>1, CalledIs DEF MiddleTypes
  <2>2. at \in 1 .. N
    BY <2>1
  <2>. QED BY <1>1, <2>1, <2>2 DEF Inwards
<1>3. \A l \in Befores : Outer(listed, l, at)
  BY <1>2 DEF Outer
<1>4. /\ log' \in Seq(Entries) /\ Nested(listed, log, Again)' /\ ~HandlerRan'
      /\ Befores' = Befores \cup {at} /\ Afters' = {}
  BY <1>1, <1>2, <1>3, MiddlewareCalled
<1>5. MiddleTypes'
  <2>1. at' \in 0 .. N + 1 /\ phase' \in Phases
    BY <1>1, <1>2 DEF Phases
  <2>. QED BY <1>1, <1>4, <2>1 DEF MiddleTypes
<1>6. /\ \A m \in 1 .. N : m < at + 1 <=> m < at \/ m = at
      /\ \A m \in 1 .. N : m <= at <=> m < at \/ m = at
      /\ \A m \in 1 .. N : m > at <=> ~(m < at \/ m = at)
  BY <1>2
<1>7. Inwards'
  <2>1. CASE scope = "global"
    BY <1>1, <1>2, <1>4, <1>6, <2>1 DEF Inwards
  <2>2. CASE scope = "local"
    BY <1>1, <1>2, <1>4, <1>6, <2>2 DEF Inwards
  <2>. QED BY <1>2, <2>1, <2>2
<1>8. Outwards'
  <2>1. responses = 0
    BY <1>1 DEF Outwards, MiddleTypes
  <2>2. CASE scope = "global"
    BY <1>1, <1>2, <1>4, <1>6, <2>1, <2>2 DEF Outwards, Admitted
  <2>3. CASE scope = "local"
    BY <1>1, <1>2, <1>4, <1>6, <2>1, <2>3 DEF Outwards, Admitted
  <2>. QED BY <1>2, <2>2, <2>3
<1>. QED BY <1>1, <1>4, <1>5, <1>7, <1>8 DEF MiddleInv

LEMMA UnwindKeeps ==
  ASSUME MiddleInv, Middle!Unwind
  PROVE  MiddleInv'
<1>. USE MiddleFacts
<1>1. /\ phase = "unwind" /\ at >= 1 /\ at' = at - 1
      /\ IF at \in Middle!Called(scope) THEN log' = Append(log, <<"after", at>>) ELSE log' = log
      /\ Again' = Again
      /\ UNCHANGED <<listed, caller, phase, scope, completed, onEnd, need, inside, thrown, responses>>
  BY DEF Middle!Unwind, Middle!Did, Again
<1>2. /\ at \in 1 .. N /\ scope \in {"global", "local"}
      /\ Middle!Called(scope) = IF scope = "global" THEN Globals ELSE listed
  BY <1>1, CalledIs DEF MiddleTypes, Outwards
<1>3. at \in Middle!Called(scope) => \A l \in Afters : Outer(listed, at, l)
  BY <1>1, <1>2 DEF Outwards, Outer
<1>4. /\ log' \in Seq(Entries) /\ Nested(listed, log, Again)' /\ HandlerRan' = HandlerRan /\ Befores' = Befores
      /\ Afters' = Afters \cup (IF at \in Middle!Called(scope) THEN {at} ELSE {})
  <2>1. CASE at \in Middle!Called(scope)
    BY <1>1, <1>2, <1>3, <2>1, MiddlewareCalled
  <2>2. CASE at \notin Middle!Called(scope)
    BY <1>1, <2>2, Unlogged
  <2>. QED BY <2>1, <2>2
<1>5. MiddleTypes'
  <2>1. at' \in 0 .. N + 1
    BY <1>1, <1>2
  <2>. QED BY <1>1, <1>4, <2>1 DEF MiddleTypes
<1>6. Inwards'
  BY <1>1, <1>4 DEF Inwards
<1>7. at - 1 <= N /\ \A m \in 1 .. N : (m <= at <=> m <= at - 1 \/ m = at) /\ (m > at - 1 <=> m > at \/ m = at)
  BY <1>2
<1>8. Outwards'
  <2>1. CASE scope = "global"
    BY <1>1, <1>2, <1>4, <1>7, <2>1 DEF Outwards, Admitted
  <2>2. CASE scope = "local"
    BY <1>1, <1>2, <1>4, <1>7, <2>2 DEF Outwards, Admitted
  <2>. QED BY <1>2, <2>1, <2>2
<1>. QED BY <1>1, <1>4, <1>5, <1>6, <1>8 DEF MiddleInv

LEMMA HandlerKeeps ==
  ASSUME MiddleInv,
         (\E throws \in BOOLEAN : Middle!HandlerEnds(throws)) \/ Middle!HandlerThrows \/ Middle!HandlerReturns
  PROVE  MiddleInv'
<1>. USE MiddleFacts
<1>. DEFINE Moved == /\ phase = "handler" /\ log' = Append(log, <<"handler", 0>>)
                 /\ Again' = Again /\ UNCHANGED <<listed, caller, scope, onEnd, need, responses>>
                 /\ completed' \in BOOLEAN /\ thrown' \in BOOLEAN /\ inside' \in BOOLEAN
                 /\ \/ phase' = Middle!Ended /\ at' = N
                    \/ phase' \in {"caught", "later"} /\ at' = at
<1>1. Moved
  <2>1. completed \in BOOLEAN /\ thrown \in BOOLEAN /\ inside \in BOOLEAN
    BY DEF MiddleTypes
  <2>2. ASSUME NEW throws \in BOOLEAN, Middle!HandlerEnds(throws)
        PROVE  Moved
    BY <2>1, <2>2 DEF Middle!HandlerEnds, Middle!EndResponse, Middle!Did, Middle!Allowed, Again
  <2>3. CASE Middle!HandlerThrows
    <3>1. hist' = hist \cup {"throw"}
      BY <2>3 DEF Middle!HandlerThrows, Middle!Allowed
    <3>2. Again' = Again
      BY <3>1 DEF Again
    <3>. QED BY <2>1, <2>3, <3>2 DEF Middle!HandlerThrows, Middle!Did
  <2>4. CASE Middle!HandlerReturns
    <3>1. hist' = hist \cup {"later"}
      BY <2>4 DEF Middle!HandlerReturns, Middle!Allowed
    <3>2. Again' = Again
      BY <3>1 DEF Again
    <3>. QED BY <2>1, <2>4, <3>2 DEF Middle!HandlerReturns, Middle!Did
  <2>. HIDE DEF Moved
  <2>. QED BY <2>2, <2>3, <2>4
<1>2. ~HandlerRan /\ Admitted /\ responses = 0
  BY <1>1 DEF Inwards, Outwards, MiddleTypes
<1>3. log' \in Seq(Entries) /\ Nested(listed, log, Again)' /\ HandlerRan' /\ Befores' = Befores /\ Afters' = Afters
  BY <1>1, <1>2, HandlerCalled
<1>4. Admitted'
  BY <1>1, <1>2, <1>3 DEF Admitted
<1>5. Middle!Ended = IF listed = {} THEN "complete" ELSE "afterLocal"
  BY <1>2 DEF Middle!Ended, Admitted
<1>6. MiddleTypes'
  <2>1. N \in 0 .. N + 1
    OBVIOUS
  <2>2. at' \in 0 .. N + 1
    BY <1>1, <2>1 DEF MiddleTypes
  <2>3. phase' \in Phases
    BY <1>1, <1>5 DEF Phases
  <2>. QED BY <1>1, <1>3, <2>2, <2>3 DEF MiddleTypes
<1>7. phase' \notin {"before", "unwind", "handler"}
  BY <1>1, <1>5
<1>8. Inwards'
  BY <1>1, <1>2, <1>3, <1>7 DEF Inwards, Admitted
<1>9. {m \in listed : m > N} = {}
  OBVIOUS
<1>10. Outwards'
  <2>1. CASE phase' = Middle!Ended /\ at' = N
    BY <1>1, <1>2, <1>3, <1>5, <1>9, <2>1 DEF Outwards, Admitted
  <2>2. CASE phase' \in {"caught", "later"}
    BY <1>1, <1>2, <1>4, <2>2 DEF Outwards
  <2>. QED BY <1>1, <2>1, <2>2
<1>. QED BY <1>1, <1>3, <1>6, <1>8, <1>10 DEF MiddleInv

LEMMA AfterHandlersKeep ==
  ASSUME MiddleInv, Middle!AfterLocal \/ Middle!AfterGlobal
  PROVE  MiddleInv'
<1>. USE MiddleFacts
<1>. DEFINE who == IF phase = "afterGlobal" THEN Globals ELSE listed
<1>1. /\ phase \in {"afterLocal", "afterGlobal"} /\ at >= 1 /\ at' = at - 1
      /\ IF at \in who THEN log' = Append(log, <<"after", at>>) ELSE log' = log
      /\ Again' = Again
      /\ UNCHANGED <<listed, caller, phase, scope, completed, onEnd, need, inside, thrown, responses>>
  BY CalledIs DEF Middle!AfterLocal, Middle!AfterGlobal, Middle!Did, Again
<1>2. at \in 1 .. N
  BY <1>1 DEF Outwards
<1>3. at \in who => Again \/ \A l \in Afters : Outer(listed, at, l)
  <2>1. Befores \subseteq Globals \cup listed
    BY DEF Inwards
  <2>. QED BY <1>1, <1>2, <2>1 DEF Outwards, Outer
<1>4. /\ log' \in Seq(Entries) /\ Nested(listed, log, Again)' /\ HandlerRan' = HandlerRan /\ Befores' = Befores
      /\ Afters' = Afters \cup (IF at \in who THEN {at} ELSE {})
  <2>. HIDE DEF who
  <2>1. CASE at \in who
    BY <1>1, <1>2, <1>3, <2>1, MiddlewareCalled
  <2>2. CASE at \notin who
    BY <1>1, <2>2, Unlogged
  <2>. QED BY <2>1, <2>2
<1>5. MiddleTypes'
  <2>1. at' \in 0 .. N + 1
    BY <1>1, <1>2
  <2>. QED BY <1>1, <1>4, <2>1 DEF MiddleTypes
<1>6. Inwards'
  BY <1>1, <1>4 DEF Inwards
<1>7. at - 1 <= N /\ \A m \in 1 .. N : (m <= at <=> m <= at - 1 \/ m = at) /\ (m > at - 1 <=> m > at \/ m = at)
  BY <1>2
<1>8. Outwards'
  <2>1. CASE phase = "afterLocal"
    BY <1>1, <1>2, <1>4, <1>7, <2>1 DEF Outwards, Admitted
  <2>2. CASE phase = "afterGlobal"
    BY <1>1, <1>2, <1>4, <1>7, <2>2 DEF Outwards, Admitted
  <2>. QED BY <1>1, <2>1, <2>2
<1>. QED BY <1>1, <1>4, <1>5, <1>6, <1>8 DEF MiddleInv

\* One that throws.
LEMMA AfterFailsKeeps ==
  ASSUME MiddleInv, Middle!AfterThrows \/ Middle!AfterUncaught
  PROVE  MiddleInv'
<1>. USE MiddleFacts
<1>. DEFINE who == IF phase = "afterGlobal" \/ (phase = "unwind" /\ scope = "global") THEN Globals ELSE listed
<1>1. /\ phase \in {"unwind", "afterLocal", "afterGlobal"} /\ at \in who /\ log' = Append(log, <<"after", at>>)
      /\ UNCHANGED <<listed, caller, scope, at, completed, onEnd, need, responses>>
      /\ thrown' \in BOOLEAN /\ inside' \in BOOLEAN
      /\ \/ phase' = "caught" /\ Again' = (Again \/ onEnd # "nothing")
         \/ phase' = "returned" /\ Again' = Again
  <2>1. scope \in {"global", "local"} /\ thrown \in BOOLEAN /\ inside \in BOOLEAN
    BY DEF MiddleTypes
  <2>2. Middle!Called("global") = Globals /\ Middle!Called("local") = listed
    BY CalledIs
  <2>3. Middle!AfterDue => phase \in {"unwind", "afterLocal", "afterGlobal"} /\ at \in who
    BY <2>1, <2>2 DEF Middle!AfterDue
  <2>4. CASE Middle!AfterThrows
    <3>1. onEnd = "nothing" => hist' = hist \cup {"throwLocal"}
      BY <2>4 DEF Middle!AfterThrows, Middle!Allowed
    <3>2. onEnd # "nothing" => hist' = hist \cup {"throwAfter"}
      BY <2>4 DEF Middle!AfterThrows, Middle!Allowed
    <3>3. Again' = (Again \/ onEnd # "nothing")
      BY <3>1, <3>2 DEF Again
    <3>4. Middle!AfterDue /\ Middle!Did("after", at) /\ phase' = "caught" /\ thrown' = TRUE /\ inside' = FALSE
          /\ UNCHANGED <<listed, caller, scope, at, completed, onEnd, need, responses>>
      BY <2>4 DEF Middle!AfterThrows
    <3>. QED BY <2>1, <2>3, <3>3, <3>4 DEF Middle!Did
  <2>5. CASE Middle!AfterUncaught
    BY <2>1, <2>3, <2>5 DEF Middle!AfterUncaught, Middle!Did, Middle!Allowed, Again
  <2>. QED BY <2>4, <2>5
<1>2. at \in 1 .. N /\ responses = 0
  BY <1>1 DEF Outwards, MiddleTypes
<1>3. Again \/ \A l \in Afters : Outer(listed, at, l)
  <2>1. Befores \subseteq Globals \cup listed /\ scope \in {"global", "local"}
    BY DEF Inwards, MiddleTypes
  <2>. QED BY <1>1, <1>2, <2>1 DEF Outwards, Outer
<1>4. log' \in Seq(Entries) /\ Nested(listed, log, Again)' /\ HandlerRan' = HandlerRan /\ Befores' = Befores
  <2>. HIDE DEF who
  <2>1. log' = Append(log, <<"after", at>>) /\ listed' = listed
    BY <1>1
  <2>3. Again => Again'
    BY <1>1 DEF Again
  <2>2. Again' \/ \A l \in Afters : Outer(listed, at, l)
    BY <1>3, <2>3
  <2>. QED BY <1>2, <2>1, <2>2, <2>3, MiddlewareCalled
<1>5. MiddleTypes'
  BY <1>1, <1>4 DEF MiddleTypes, Phases
<1>6. Inwards'
  BY <1>1, <1>4 DEF Inwards
<1>7. Outwards'
  BY <1>1, <1>2 DEF Outwards
<1>. QED BY <1>1, <1>4, <1>5, <1>6, <1>7 DEF MiddleInv

LEMMA MiddleKeeps ==
  ASSUME MiddleInv, [Middle!Next]_(Middle!vars)
  PROVE  MiddleInv'
<1>1. CASE UNCHANGED Middle!vars
  <2>1. MiddleTypes' /\ Inwards' /\ Outwards' /\ Nested(listed, log, Again)'
    BY <1>1, MiddleFacts
    DEF Middle!vars, MiddleTypes, Inwards, Outwards, Admitted, Befores, Afters, HandlerRan, Again
  <2>. QED BY <2>1 DEF MiddleInv
<1>2. CASE Middle!Calls
  BY <1>2, QuietSteps, BeforeKeeps, UnwindKeeps DEF Middle!Calls
<1>3. CASE Middle!Handler
  BY <1>3, QuietSteps, HandlerKeeps DEF Middle!Handler
<1>4. CASE Middle!Completion
  BY <1>4, QuietSteps, AfterHandlersKeep, AfterFailsKeeps DEF Middle!Completion
<1>. QED BY <1>1, <1>2, <1>3, <1>4 DEF Middle!Next

LEMMA OuterIsOrder ==
  ASSUME MiddleInv, NEW l \in 1 .. N, NEW m \in 1 .. N
  PROVE  /\ ~(Outer(listed, l, m) /\ Outer(listed, m, l))
         /\ ~Outer(listed, l, l)
         /\ Middle!Around(l, m) <=> Outer(listed, l, m)
<1>1. ~(Outer(listed, l, m) /\ Outer(listed, m, l)) /\ ~Outer(listed, l, l)
  BY MiddleFacts DEF Outer
<1>2. Middle!Called("global") = Globals /\ Middle!Called("local") = listed
  BY CalledIs
<1>3. Middle!Around(l, m) <=> Outer(listed, l, m)
  BY <1>2 DEF Middle!Around, Outer
<1>. QED BY <1>1, <1>3

\* Where the calls stand in the log.
LEMMA Places ==
  ASSUME MiddleInv, NEW l \in 1 .. N, NEW m \in 1 .. N
  PROVE  /\ l \in Befores /\ m \in Befores =>
              (Middle!Place("before", l) < Middle!Place("before", m) <=> Outer(listed, l, m))
         /\ ~Again /\ l \in Afters /\ m \in Afters =>
              (Middle!Place("after", m) < Middle!Place("after", l) <=> Outer(listed, l, m))
<1>1. ASSUME NEW what, NEW x \in RanIn(log, what)
      PROVE  Middle!Place(what, x) \in DOMAIN log /\ log[Middle!Place(what, x)] = <<what, x>>
  BY <1>1 DEF RanIn, Middle!Place
<1>2. DOMAIN log \subseteq Nat /\ Nested(listed, log, Again)
  BY MiddleFacts, LenProperties
<1>3. ~(Outer(listed, l, m) /\ Outer(listed, m, l)) /\ ~Outer(listed, l, l)
  BY OuterIsOrder
<1>4. ASSUME l \in Befores, m \in Befores
      PROVE  Middle!Place("before", l) < Middle!Place("before", m) <=> Outer(listed, l, m)
  <2>. DEFINE i == Middle!Place("before", l)
              j == Middle!Place("before", m)
  <2>1. i \in DOMAIN log /\ log[i] = <<"before", l>> /\ j \in DOMAIN log /\ log[j] = <<"before", m>>
    BY <1>1, <1>4 DEF Befores
  <2>. HIDE DEF i, j
  <2>2. (i < j => Outer(listed, l, m)) /\ (j < i => Outer(listed, m, l))
    BY <1>2, <2>1 DEF Nested
  <2>3. i = j => l = m
    BY <2>1
  <2>4. i \in Nat /\ j \in Nat
    BY <1>2, <2>1
  <2>5. i < j <=> Outer(listed, l, m)
    BY <1>3, <2>2, <2>3, <2>4
  <2>. QED BY <2>5 DEF i, j
<1>5. ASSUME ~Again, l \in Afters, m \in Afters
      PROVE  Middle!Place("after", m) < Middle!Place("after", l) <=> Outer(listed, l, m)
  <2>. DEFINE i == Middle!Place("after", l)
              j == Middle!Place("after", m)
  <2>1. i \in DOMAIN log /\ log[i] = <<"after", l>> /\ j \in DOMAIN log /\ log[j] = <<"after", m>>
    BY <1>1, <1>5 DEF Afters
  <2>. HIDE DEF i, j
  <2>2. (j < i => Outer(listed, l, m)) /\ (i < j => Outer(listed, m, l))
    BY <1>2, <1>5, <2>1 DEF Nested
  <2>3. i = j => l = m
    BY <2>1
  <2>4. i \in Nat /\ j \in Nat
    BY <1>2, <2>1
  <2>5. j < i <=> Outer(listed, l, m)
    BY <1>3, <2>2, <2>3, <2>4
  <2>. QED BY <2>5 DEF i, j
<1>. QED BY <1>4, <1>5

LEMMA MiddleInvSuffices ==
  ASSUME MiddleInv
  PROVE  MiddlewareSound
<1>. USE MiddleFacts
<1>1. Middle!TypeOK
  BY DEF MiddleTypes, Phases, Middle!TypeOK
<1>2. DOMAIN log \subseteq Nat /\ \A i \in DOMAIN log : log[i] \in Entries
  BY LenProperties, ElementOfSeq
<1>3. Middle!Ran("before") = Befores /\ Middle!Ran("after") = Afters
  BY DEF Middle!Ran, Befores, Afters, RanIn
<1>4. ASSUME ~Again PROVE Middle!NothingTwice
  <2>1. ASSUME NEW i \in DOMAIN log, NEW j \in DOMAIN log, log[i] = log[j], i < j
        PROVE  FALSE
    <3>1. CASE log[i] = <<"handler", 0>>
      <4>1. log[i][1] = "handler" /\ log[j][1] = "handler"
        BY <2>1, <3>1
      <4>. QED BY <2>1, <4>1 DEF Nested
    <3>2. CASE log[i] \in {"before", "after"} \X (1 .. N)
      <4>1. PICK what \in {"before", "after"}, m \in 1 .. N : log[i] = <<what, m>>
        BY <3>2
      <4>2. log[i][1] = what /\ log[i][2] = m /\ log[j][1] = what /\ log[j][2] = m
        BY <2>1, <4>1
      <4>3. Outer(listed, m, m)
        BY <1>4, <2>1, <4>2 DEF Nested
      <4>. QED BY <4>3, OuterIsOrder
    <3>. QED BY <3>1, <3>2, <1>2 DEF Entries
  <2>2. ASSUME NEW i \in DOMAIN log, NEW j \in DOMAIN log, log[i] = log[j] PROVE i = j
    <3>1. i \in Nat /\ j \in Nat
      BY <1>2
    <3>. QED BY <2>1, <2>2, <3>1
  <2>. QED BY <2>2 DEF Middle!NothingTwice
<1>5. ASSUME ~Again PROVE Middle!Mirrored
  <2>1. SUFFICES ASSUME responses > 0
                 PROVE  /\ Befores = Afters
                        /\ \A l, m \in Befores :
                             Middle!Place("before", l) < Middle!Place("before", m)
                               <=> Middle!Place("after", m) < Middle!Place("after", l)
    BY <1>3 DEF Middle!Mirrored
  <2>2. Afters = Befores
    BY <1>5, <2>1 DEF Outwards
  <2>. QED BY <1>5, <2>2, Places
<1>6. Middle!HandlerLast
  <2>1. SUFFICES ASSUME NEW i \in DOMAIN log, log[i] = <<"handler", 0>>
                 PROVE  /\ Befores = Globals \cup listed
                        /\ \A m \in Befores : Middle!Place("before", m) < i
                        /\ \A l, m \in Befores : Middle!Around(l, m) => Middle!Place("before", l) < Middle!Place("before", m)
    BY <1>3, CalledIs DEF Middle!HandlerLast
  <2>2. Befores = Globals \cup listed
    BY <2>1 DEF Inwards, HandlerRan, HandlerIn
  <2>3. ASSUME NEW m \in Befores PROVE Middle!Place("before", m) < i
    <3>. DEFINE j == Middle!Place("before", m)
    <3>1. j \in DOMAIN log /\ log[j] = <<"before", m>>
      BY DEF Befores, RanIn, Middle!Place
    <3>. HIDE DEF j
    <3>2. log[j][1] = "before" /\ log[i][1] = "handler" /\ i \in Nat /\ j \in Nat
      BY <1>2, <2>1, <3>1
    <3>3. ~(i < j) /\ i # j
      BY <2>1, <3>1, <3>2 DEF Nested
    <3>4. j < i
      BY <3>2, <3>3
    <3>. QED BY <3>4 DEF j
  <2>4. \A l, m \in Befores : Middle!Around(l, m) => Middle!Place("before", l) < Middle!Place("before", m)
    BY OuterIsOrder, Places
  <2>. QED BY <2>2, <2>3, <2>4
<1>7. Middle!AnsweredOnce
  BY DEF MiddleTypes, Middle!AnsweredOnce
<1>8. Middle!AfterMirrorsBefore
  BY <1>4, <1>5 DEF Middle!AfterMirrorsBefore, Again
<1>. QED BY <1>1, <1>6, <1>7, <1>8 DEF MiddlewareSound, Middle!MiddlewareSound

\* The middlewares of a request are called in order, from the outside to the handler, which runs only
\* after all of them; a request is answered at most once; and unless an after_handle threw within the
\* route, each call is made at most once, and when a response is written, the after_handle of each one
\* whose before_handle ran has run, in the opposite order: for any number of middlewares, whichever of
\* them are local, and whatever may throw, end or delay the response (middleware_call_helper, Connection::handle and complete_request, handler_middleware_wrapper).
THEOREM MiddlewaresAreSound == Middle!Spec => []MiddlewareSound
<1>1. Middle!Init => MiddleInv
  BY MiddleInit
<1>2. MiddleInv /\ [Middle!Next]_(Middle!vars) => MiddleInv'
  BY MiddleKeeps
<1>3. MiddleInv => MiddlewareSound
  BY MiddleInvSuffices
<1>. QED BY <1>1, <1>2, <1>3, PTL DEF Middle!Spec

-----------------------------------------------------------------------------
(* CrowServer: what holds between the handlers of a connection *)

Handlers ==
  [op : {"tick"}, c : {None}, what : {"ok"}, req : {None}]
  \cup [op : {"start", "read", "write"}, c : Conns, what : {"whole", "head", "rest", "ok", "error", "piece"},
        req : Kinds \cup {None}]

Timers == [tasks : SUBSET [id : Nat, owner : Conns], highest : Nat, robbed : SUBSET Conns]

Members ==
  [life : {"none", "accepting", "posted", "live", "deleted"}, svc : Server!Workers, open : BOOLEAN,
   reads : Nat, asked : Nat, part : Kinds \cup {None}, is_reading : BOOLEAN, is_writing : BOOLEAN,
   need_after : BOOLEAN, need_read : BOOLEAN, close : BOOLEAN, task_id : Nat, completed : BOOLEAN,
   hook : BOOLEAN, body : 0 .. MaxReads, long : BOOLEAN, reading : BOOLEAN, writes : Nat,
   at : {"idle", "fed", "tested", "threw"}, users : SUBSET [n : 1 .. MaxReads, long : BOOLEAN],
   sent : Seq(0 .. MaxReads), lost : BOOLEAN]

ServerWorlds == [c : Conns, k : Members, t : Timers, q : Seq(Handlers), n : Int]

Lacks(c, q, op) == \A i \in DOMAIN q : q[i].c = c => q[i].op # op

Single(c, q) == \A i, j \in DOMAIN q : q[i].c = c /\ q[j].c = c /\ q[i].op = q[j].op => i = j

\* A connection that was not started yet.
Idle(k) ==
  /\ k.reads = 0 /\ k.asked = 0 /\ k.part = None /\ ~k.is_reading /\ ~k.is_writing /\ ~k.need_read
  /\ ~k.completed /\ ~k.hook /\ ~k.reading /\ k.writes = 0 /\ k.at = "idle" /\ k.users = {} /\ k.sent = <<>>

\* What the members of a connection say of each other: who reads from the
\* socket has no answer under way, there is at most one write, and whoever
\* keeps the response keeps it for the request after the last one answered.
Coherent(k) ==
  /\ k.life \in {"none", "accepting", "posted"} => Idle(k)
  /\ k.life = "deleted" => ~k.reading /\ k.writes = 0 /\ k.at = "idle" /\ ~k.hook /\ ~k.need_read
  /\ k.reading => k.life = "live" /\ k.open /\ k.is_reading /\ k.at = "idle" /\ ~k.hook /\ ~k.need_read
  /\ k.writes \in {0, 1}
  /\ k.writes = 1 => k.life = "live" /\ k.open /\ k.is_writing /\ ~k.hook /\ k.reads > 0
  /\ k.at \in {"fed", "tested"} => k.life = "live" /\ k.is_reading /\ ~k.need_read
  /\ k.hook => /\ k.need_after /\ ~k.completed /\ k.life = "live" /\ Len(k.sent) + 1 = k.asked /\ k.part = None
               /\ \E b \in BOOLEAN : k.users = {[n |-> k.asked, long |-> b]}
  /\ k.life = "live" /\ ~k.hook => k.users = {}
  /\ \A i \in DOMAIN k.sent : k.sent[i] = i
  /\ k.life = "live" => Len(k.sent) <= k.asked
  /\ Len(k.sent) <= k.reads /\ k.asked <= k.reads /\ k.reads <= MaxReads
  /\ k.part # None => Len(k.sent) = k.asked

\* A request that waits to be parsed finds the last one answered, and the
\* handler of that write, if there is one, before it in the queue.
AsksAt(c, k, q, i) ==
  /\ k.writes = 0 /\ Len(k.sent) = k.asked /\ k.reads > 0
  /\ k.completed => ~Lacks(c, q, "write")
  /\ \A j \in DOMAIN q : q[j].c = c /\ q[j].op = "write" => j < i
  /\ q[i].req \in Kinds /\ (q[i].what = "whole" => q[i].req.expect = "no")
  /\ q[i].what # "head" => k.part = None /\ k.asked < k.reads

Asks(c, k, q) ==
  \A i \in DOMAIN q : q[i].c = c /\ q[i].op = "read" /\ q[i].what \in Server!Parts => AsksAt(c, k, q, i)

\* What the handlers that are queued say of their connection.
QueuedFor(c, k, q) ==
  /\ Single(c, q) /\ Asks(c, k, q)
  /\ k.life # "posted" => Lacks(c, q, "start")
  /\ k.life # "live" \/ ~k.is_reading \/ k.reading \/ k.at \in {"fed", "tested"} \/ k.need_read \/ k.hook
       => Lacks(c, q, "read")
  /\ k.life # "live" \/ ~k.is_writing \/ k.writes # 0 \/ k.hook => Lacks(c, q, "write")

\* A response that is complete and sent has its write before it.
Pending(c, k, q) ==
  k.completed /\ k.open /\ Len(k.sent) = k.asked /\ k.writes = 0 => ~Lacks(c, q, "write")

\* A deadline belongs to a live connection that knows its id.
Timed(c, k, t) ==
  /\ \A x \in t.tasks : x.owner = c => k.life = "live" /\ x.id = k.task_id
  /\ k.reading => [id |-> k.task_id, owner |-> c] \in t.tasks \/ c \in t.robbed

LEMMA SameCount == \A S : Server!Cardinality(S) = Cardinality(S) /\ Server!IsFiniteSet(S) = IsFiniteSet(S)
BY DEF Server!Cardinality, Cardinality, Server!IsFiniteSet, IsFiniteSet

-----------------------------------------------------------------------------
(* The queue of an io_service *)

\* To connection c, p is q without its first n handlers.
Moved(c, q, p, n) ==
  /\ \A i \in DOMAIN q : q[i].c = c => i - n \in DOMAIN p /\ p[i - n] = q[i]
  /\ \A i \in DOMAIN p : p[i].c = c => i + n \in DOMAIN q /\ q[i + n] = p[i]

LEMMA LacksMoved ==
  ASSUME NEW c, NEW q \in Seq(Handlers), NEW p \in Seq(Handlers), NEW n \in Nat, Moved(c, q, p, n), NEW op
  PROVE  Lacks(c, p, op) <=> Lacks(c, q, op)
BY DEF Lacks, Moved

LEMMA QueuedMoved ==
  ASSUME NEW c, NEW k, NEW q \in Seq(Handlers), NEW p \in Seq(Handlers), NEW n \in Nat, Moved(c, q, p, n)
  PROVE  /\ QueuedFor(c, k, q) => QueuedFor(c, k, p)
         /\ Pending(c, k, q) => Pending(c, k, p)
<1>1. \A op : Lacks(c, p, op) <=> Lacks(c, q, op)
  BY LacksMoved
<1>2. DOMAIN p \subseteq Int /\ DOMAIN q \subseteq Int
  OBVIOUS
<1>3. ASSUME Single(c, q)
      PROVE  Single(c, p)
  <2>1. SUFFICES ASSUME NEW i \in DOMAIN p, NEW j \in DOMAIN p, p[i].c = c, p[j].c = c, p[i].op = p[j].op
                 PROVE  i = j
    BY DEF Single
  <2>2. i + n \in DOMAIN q /\ q[i + n] = p[i] /\ j + n \in DOMAIN q /\ q[j + n] = p[j]
    BY <2>1 DEF Moved
  <2>3. i + n = j + n
    BY <1>3, <2>1, <2>2 DEF Single
  <2> QED
    BY <1>2, <2>3
<1>4. ASSUME Asks(c, k, q)
      PROVE  Asks(c, k, p)
  <2>1. SUFFICES ASSUME NEW i \in DOMAIN p, p[i].c = c, p[i].op = "read", p[i].what \in Server!Parts
                 PROVE  AsksAt(c, k, p, i)
    BY DEF Asks
  <2>2. i + n \in DOMAIN q /\ q[i + n] = p[i]
    BY <2>1 DEF Moved
  <2>3. AsksAt(c, k, q, i + n)
    BY <1>4, <2>1, <2>2 DEF Asks
  <2>4. ASSUME NEW j \in DOMAIN p, p[j].c = c, p[j].op = "write"
        PROVE  j < i
    <3>1. j + n \in DOMAIN q /\ q[j + n] = p[j]
      BY <2>4 DEF Moved
    <3>2. j + n < i + n
      BY <2>3, <2>4, <3>1 DEF AsksAt
    <3> QED
      BY <1>2, <3>2
  <2> QED
    BY <1>1, <2>2, <2>3, <2>4 DEF AsksAt
<1> QED
  BY <1>1, <1>3, <1>4 DEF QueuedFor, Pending

\* What is appended for another connection.
LEMMA AppendMoved ==
  ASSUME NEW c, NEW q \in Seq(Handlers), NEW j \in Handlers, j.c # c
  PROVE  Append(q, j) \in Seq(Handlers) /\ Moved(c, q, Append(q, j), 0)
BY DEF Moved

LEMMA TailMoved ==
  ASSUME NEW c, NEW q \in Seq(Handlers), q # <<>>, Head(q).c # c
  PROVE  Tail(q) \in Seq(Handlers) /\ Moved(c, q, Tail(q), 1)
BY DEF Moved

\* No request waits to be parsed.
Unasked(c, q) == \A i \in DOMAIN q : q[i].c = c /\ q[i].op = "read" => q[i].what \notin Server!Parts

\* What is appended for the connection itself: the first of its kind, a write
\* only if no request waits to be parsed.
LEMMA OwnAppended ==
  ASSUME NEW c, NEW k, NEW q \in Seq(Handlers), NEW j \in Handlers, j.c = c, Lacks(c, q, j.op),
         j.op # "read" => Unasked(c, q), Single(c, q), Asks(c, k, q),
         j.op = "read" /\ j.what \in Server!Parts => AsksAt(c, k, Append(q, j), Len(q) + 1)
  PROVE  /\ Append(q, j) \in Seq(Handlers) /\ Single(c, Append(q, j)) /\ Asks(c, k, Append(q, j))
         /\ \A op : op # j.op => (Lacks(c, Append(q, j), op) <=> Lacks(c, q, op))
         /\ ~Lacks(c, Append(q, j), j.op)
         /\ Unasked(c, q) /\ j.what \notin Server!Parts => Unasked(c, Append(q, j))
<1> DEFINE p == Append(q, j)
<1>1. /\ p \in Seq(Handlers) /\ Len(p) = Len(q) + 1 /\ DOMAIN p = 1 .. Len(q) + 1 /\ DOMAIN q = 1 .. Len(q)
      /\ \A i \in DOMAIN q : p[i] = q[i]
      /\ p[Len(q) + 1] = j /\ Len(q) \in Nat
  OBVIOUS
<1> HIDE DEF p
<1>2. \A op : op # j.op => (Lacks(c, p, op) <=> Lacks(c, q, op))
  BY <1>1 DEF Lacks
<1>3. ~Lacks(c, p, j.op)
  BY <1>1 DEF Lacks
<1>4. Single(c, p)
  <2>1. \A i \in DOMAIN q : q[i].c = c => q[i].op # j.op
    BY DEF Lacks
  <2> QED
    BY <1>1, <2>1 DEF Single
<1>5. Asks(c, k, p)
  <2>1. SUFFICES ASSUME NEW i \in DOMAIN p, p[i].c = c, p[i].op = "read", p[i].what \in Server!Parts
                 PROVE  AsksAt(c, k, p, i)
    BY DEF Asks
  <2>2. CASE i = Len(q) + 1
    BY <1>1, <2>1, <2>2 DEF p
  <2>3. CASE i # Len(q) + 1
    <3>1. i \in DOMAIN q /\ p[i] = q[i]
      BY <1>1, <2>3
    <3>2. AsksAt(c, k, q, i)
      BY <2>1, <3>1 DEF Asks
    <3>3. ~Unasked(c, q)
      BY <2>1, <3>1 DEF Unasked
    <3>4. j.op # "write"
      BY <3>3
    <3>5. \A n \in DOMAIN p : p[n].c = c /\ p[n].op = "write" => n \in DOMAIN q /\ q[n] = p[n]
      BY <1>1, <3>4
    <3>6. Lacks(c, p, "write") <=> Lacks(c, q, "write")
      BY <1>2, <3>4
    <3> QED
      BY <3>1, <3>2, <3>5, <3>6 DEF AsksAt
  <2> QED
    BY <2>2, <2>3
<1>6. Unasked(c, q) /\ j.what \notin Server!Parts => Unasked(c, p)
  BY <1>1 DEF Unasked
<1> QED
  BY <1>1, <1>2, <1>3, <1>4, <1>5, <1>6 DEF p

\* What is left when a handler of the connection itself was taken from the queue.
LEMMA OwnTaken ==
  ASSUME NEW c, NEW k, NEW q \in Seq(Handlers), q # <<>>, Head(q).c = c, Single(c, q), Asks(c, k, q)
  PROVE  /\ Tail(q) \in Seq(Handlers) /\ Single(c, Tail(q)) /\ Lacks(c, Tail(q), Head(q).op)
         /\ \A op : op # Head(q).op => (Lacks(c, Tail(q), op) <=> Lacks(c, q, op))
         /\ Head(q).op # "read" /\ ~k.completed => Asks(c, k, Tail(q))
         /\ Head(q).op = "read" /\ Head(q).what \in Server!Parts => AsksAt(c, k, q, 1) /\ Lacks(c, q, "write")
<1> DEFINE p == Tail(q)
<1>1. /\ p \in Seq(Handlers) /\ DOMAIN p = 1 .. Len(q) - 1 /\ DOMAIN q = 1 .. Len(q)
      /\ \A i \in DOMAIN p : p[i] = q[i + 1] /\ i + 1 \in DOMAIN q
      /\ \A i \in DOMAIN q : i # 1 => i - 1 \in DOMAIN p /\ q[i] = p[i - 1]
      /\ 1 \in DOMAIN q /\ q[1] = Head(q) /\ Len(q) \in Nat
  OBVIOUS
<1> HIDE DEF p
<1>2. Lacks(c, p, Head(q).op)
  <2>1. SUFFICES ASSUME NEW i \in DOMAIN p, p[i].c = c, p[i].op = Head(q).op
                 PROVE  FALSE
    BY DEF Lacks
  <2>2. i + 1 = 1
    BY <1>1, <2>1 DEF Single
  <2> QED
    BY <1>1, <2>2
<1>3. \A op : op # Head(q).op => (Lacks(c, p, op) <=> Lacks(c, q, op))
  BY <1>1 DEF Lacks
<1>4. Single(c, p)
  <2>1. SUFFICES ASSUME NEW i \in DOMAIN p, NEW j \in DOMAIN p, p[i].c = c, p[j].c = c, p[i].op = p[j].op
                 PROVE  i = j
    BY DEF Single
  <2>2. i + 1 = j + 1
    BY <1>1, <2>1 DEF Single
  <2> QED
    BY <1>1, <2>2
<1>5. ASSUME Head(q).op # "read", ~k.completed
      PROVE  Asks(c, k, p)
  <2>1. SUFFICES ASSUME NEW i \in DOMAIN p, p[i].c = c, p[i].op = "read", p[i].what \in Server!Parts
                 PROVE  AsksAt(c, k, p, i)
    BY DEF Asks
  <2>2. AsksAt(c, k, q, i + 1) /\ p[i] = q[i + 1]
    BY <1>1, <2>1 DEF Asks
  <2>3. ASSUME NEW j \in DOMAIN p, p[j].c = c, p[j].op = "write"
        PROVE  j < i
    <3>1. j + 1 < i + 1
      BY <1>1, <2>2, <2>3 DEF AsksAt
    <3> QED
      BY <1>1, <3>1
  <2> QED
    BY <1>5, <2>2, <2>3 DEF AsksAt
<1>6. ASSUME Head(q).op = "read", Head(q).what \in Server!Parts
      PROVE  AsksAt(c, k, q, 1) /\ Lacks(c, q, "write")
  <2>1. AsksAt(c, k, q, 1)
    BY <1>1, <1>6 DEF Asks
  <2>2. \A j \in DOMAIN q : q[j].c = c /\ q[j].op = "write" => j < 1
    BY <2>1 DEF AsksAt
  <2> QED
    BY <1>1, <2>1, <2>2 DEF Lacks
<1> QED
  BY <1>1, <1>2, <1>3, <1>4, <1>5, <1>6 DEF p

\* Of the connection, the queue looks at these members only.
LEMMA AsksSame ==
  ASSUME NEW c, NEW k, NEW h, NEW q, Asks(c, k, q), h.writes = k.writes, h.sent = k.sent, h.asked = k.asked,
         h.reads = k.reads, h.part = k.part, h.completed => k.completed
  PROVE  Asks(c, h, q)
BY DEF Asks, AsksAt

LEMMA LacksUnasked ==
  ASSUME NEW c, NEW q, Lacks(c, q, "read")
  PROVE  Unasked(c, q)
BY DEF Unasked, Lacks

LEMMA LacksAsks ==
  ASSUME NEW c, NEW k, NEW q, Lacks(c, q, "read")
  PROVE  Asks(c, k, q)
BY DEF Asks, Lacks

-----------------------------------------------------------------------------
(* The operators of CrowServer on the world of one connection *)

Counted == {"accepting", "posted", "live"}

Counts(cn, d, w) == cn[d].svc = w /\ cn[d].life \in Counted

\* The connections of the worker other than this one.
Apart(s) ==
  /\ \A i \in DOMAIN s.q : s.q[i].c \notin {None, s.c} => conn[s.q[i].c].svc = s.k.svc
  /\ \A x \in s.t.tasks : x.id \in 1 .. s.t.highest /\ (x.owner # s.c => conn[x.owner].svc = s.k.svc)
  /\ \A d \in Conns : d # s.c /\ conn[d].svc = s.k.svc =>
       QueuedFor(d, conn[d], s.q) /\ Pending(d, conn[d], s.q) /\ Timed(d, conn[d], s.t)

\* The worker's load, with this connection as it is in s.
Tally(s) ==
  s.n = Cardinality({d \in Conns : d # s.c /\ Counts(conn, d, s.k.svc)}) + (IF s.k.life \in Counted THEN 1 ELSE 0)

Fits(s) ==
  /\ s \in ServerWorlds
  /\ Coherent(s.k) /\ QueuedFor(s.c, s.k, s.q) /\ Timed(s.c, s.k, s.t)
  /\ Apart(s) /\ Tally(s)

\* A response may be under way to the socket, but no read.
Busy(s) ==
  /\ s.k.life = "live" /\ s.k.is_reading /\ ~s.k.need_read /\ ~s.k.reading /\ Lacks(s.c, s.q, "read")

LEMMA ApartAppends ==
  ASSUME NEW s \in ServerWorlds, NEW r \in ServerWorlds, NEW j \in Handlers, Apart(s),
         r.c = s.c, r.k.svc = s.k.svc, r.t = s.t, r.q = Append(s.q, j), j.c = s.c
  PROVE  Apart(r)
<1>1. s.q \in Seq(Handlers)
  BY DEF ServerWorlds
<1>2. ASSUME NEW d \in Conns, d # r.c, conn[d].svc = r.k.svc
      PROVE  QueuedFor(d, conn[d], r.q) /\ Pending(d, conn[d], r.q) /\ Timed(d, conn[d], r.t)
  <2>1. QueuedFor(d, conn[d], s.q) /\ Pending(d, conn[d], s.q) /\ Timed(d, conn[d], s.t)
    BY <1>2 DEF Apart
  <2>2. r.q \in Seq(Handlers) /\ Moved(d, s.q, r.q, 0)
    BY <1>1, <1>2, AppendMoved
  <2> QED
    BY <1>1, <2>1, <2>2, QueuedMoved
<1>3. \A i \in DOMAIN r.q : r.q[i].c \notin {None, r.c} => conn[r.q[i].c].svc = r.k.svc
  BY <1>1 DEF Apart
<1> QED
  BY <1>2, <1>3 DEF Apart

LEMMA ApartSame ==
  ASSUME NEW s, NEW r, Apart(s), r.c = s.c, r.k.svc = s.k.svc, r.t = s.t, r.q = s.q
  PROVE  Apart(r)
BY DEF Apart

LEMMA TallySame ==
  ASSUME NEW s, NEW r, Tally(s), r.c = s.c, r.k.svc = s.k.svc, r.n = s.n, r.k.life \in Counted <=> s.k.life \in Counted
  PROVE  Tally(r)
BY DEF Tally

NoDeadline(s) == \A x \in s.t.tasks : x.owner # s.c

LEMMA CancelIs ==
  ASSUME NEW s \in ServerWorlds
  PROVE  LET r == Server!Cancel(s)
         IN  /\ r \in ServerWorlds /\ r.c = s.c /\ r.k = s.k /\ r.q = s.q /\ r.n = s.n
             /\ r.t.tasks = {x \in s.t.tasks : x.id # s.k.task_id} /\ r.t.highest = s.t.highest
             /\ r.t.robbed = s.t.robbed \cup ({x.owner : x \in {y \in s.t.tasks : y.id = s.k.task_id}} \ {s.c})
<1> DEFINE gone == {x \in s.t.tasks : x.id = s.k.task_id}
           tasks == s.t.tasks \ gone
           robbed == s.t.robbed \cup ({x.owner : x \in gone} \ {s.c})
           t == [s.t EXCEPT !.tasks = tasks, !.robbed = robbed]
<1>1. s.t \in Timers /\ tasks \in SUBSET [id : Nat, owner : Conns] /\ robbed \in SUBSET Conns
  BY DEF ServerWorlds, Timers
<1>2. tasks = {x \in s.t.tasks : x.id # s.k.task_id}
  OBVIOUS
<1>3. Server!Cancel(s) = [s EXCEPT !.t = t]
  <2> HIDE DEF gone
  <2> QED
    BY DEF ServerWorlds, Server!Cancel, gone
<1> HIDE DEF tasks, robbed
<1>4. t \in Timers /\ t.tasks = tasks /\ t.robbed = robbed /\ t.highest = s.t.highest
  BY <1>1 DEF Timers
<1> HIDE DEF t
<1>5. [s EXCEPT !.t = t] \in ServerWorlds
  BY <1>4 DEF ServerWorlds
<1> QED
  BY <1>2, <1>3, <1>4, <1>5 DEF ServerWorlds, robbed

\* Whoever loses its deadline to somebody else is robbed.
LEMMA CancelFits ==
  ASSUME NEW s \in ServerWorlds, Timed(s.c, s.k, s.t), Apart(s)
  PROVE  Apart(Server!Cancel(s)) /\ NoDeadline(Server!Cancel(s))
<1> DEFINE r == Server!Cancel(s)
<1>1. /\ r \in ServerWorlds /\ r.c = s.c /\ r.k = s.k /\ r.q = s.q /\ r.n = s.n
      /\ r.t.tasks = {x \in s.t.tasks : x.id # s.k.task_id} /\ r.t.highest = s.t.highest
      /\ r.t.robbed = s.t.robbed \cup ({x.owner : x \in {y \in s.t.tasks : y.id = s.k.task_id}} \ {s.c})
  BY CancelIs
<1> HIDE DEF r
<1>2. NoDeadline(r)
  BY <1>1 DEF NoDeadline, Timed
<1>3. ASSUME NEW d \in Conns, d # r.c, conn[d].svc = r.k.svc
      PROVE  Timed(d, conn[d], r.t)
  <2>1. Timed(d, conn[d], s.t)
    BY <1>1, <1>3 DEF Apart
  <2>2. ASSUME [id |-> conn[d].task_id, owner |-> d] \in s.t.tasks
        PROVE  [id |-> conn[d].task_id, owner |-> d] \in r.t.tasks \/ d \in r.t.robbed
    <3> DEFINE x == [id |-> conn[d].task_id, owner |-> d]
    <3>1. x.owner = d
      OBVIOUS
    <3> HIDE DEF x
    <3>2. x \in s.t.tasks
      BY <2>2 DEF x
    <3>3. CASE x.id = s.k.task_id
      <4>1. d \in {z.owner : z \in {y \in s.t.tasks : y.id = s.k.task_id}}
        BY <3>1, <3>2, <3>3
      <4> QED
        BY <1>1, <1>3, <4>1
    <3>4. CASE x.id # s.k.task_id
      BY <1>1, <3>2, <3>4 DEF x
    <3> QED
      BY <3>3, <3>4
  <2> QED
    BY <1>1, <2>1, <2>2 DEF Timed
<1>4. Apart(r)
  BY <1>1, <1>3 DEF Apart
<1> QED
  BY <1>2, <1>4 DEF r

LEMMA StartDeadlineIs ==
  ASSUME NEW s \in ServerWorlds
  PROVE  LET r == Server!StartDeadline(s)
             u == Server!Cancel(s)
             id == s.t.highest + 1
         IN  /\ r \in ServerWorlds /\ r.c = s.c /\ r.k = [s.k EXCEPT !.task_id = id] /\ r.q = s.q /\ r.n = s.n
             /\ r.t.tasks = u.t.tasks \cup {[id |-> id, owner |-> s.c]} /\ r.t.highest = id
             /\ r.t.robbed = u.t.robbed \ {s.c}
<1> DEFINE r == Server!StartDeadline(s)
           u == Server!Cancel(s)
           id == s.t.highest + 1
           own == [id |-> id, owner |-> s.c]
           tasks == u.t.tasks \cup {own}
           robbed == u.t.robbed \ {s.c}
           t == [u.t EXCEPT !.tasks = tasks, !.highest = id, !.robbed = robbed]
           k == [s.k EXCEPT !.task_id = id]
<1>1. u \in ServerWorlds /\ u.c = s.c /\ u.k = s.k /\ u.q = s.q /\ u.n = s.n /\ u.t.highest = s.t.highest
  BY CancelIs
<1>2. s.t \in Timers /\ s.k \in Members /\ s.c \in Conns /\ s.t.highest \in Nat
  BY DEF ServerWorlds, Timers
<1>3. own \in [id : Nat, owner : Conns] /\ id \in Nat
  BY <1>2
<1> HIDE DEF u
<1>4. k \in Members
  <2> HIDE DEF id
  <2> QED
    BY <1>2, <1>3 DEF Members
<1>5. r = [u EXCEPT !.t.tasks = @ \cup {own}, !.t.highest = id, !.t.robbed = @ \ {s.c}, !.k.task_id = id]
  BY <1>1 DEF u, Server!StartDeadline
<1> HIDE DEF r, own, id
<1>6. u.t \in Timers
  BY <1>1 DEF ServerWorlds
<1>7. tasks \in SUBSET [id : Nat, owner : Conns] /\ robbed \in SUBSET Conns
  BY <1>3, <1>6 DEF Timers
<1>8. r = [u EXCEPT !.t = t, !.k = k]
  BY <1>1, <1>5 DEF ServerWorlds
<1> HIDE DEF tasks, robbed
<1>9. t \in Timers /\ t.tasks = tasks /\ t.robbed = robbed /\ t.highest = id
  BY <1>3, <1>6, <1>7 DEF Timers
<1> HIDE DEF t, k
<1>10. r \in ServerWorlds
  BY <1>1, <1>4, <1>8, <1>9 DEF ServerWorlds
<1>11. r.c = s.c /\ r.k = k /\ r.q = s.q /\ r.n = s.n /\ r.t = t
  BY <1>1, <1>8 DEF ServerWorlds
<1> QED
  BY <1>9, <1>10, <1>11 DEF r, u, id, own, k, tasks, robbed

Armed(s) == [id |-> s.k.task_id, owner |-> s.c] \in s.t.tasks

LEMMA CoherentTask ==
  ASSUME NEW k \in Members, NEW id \in Nat
  PROVE  /\ [k EXCEPT !.task_id = id] \in Members
         /\ Coherent(k) => Coherent([k EXCEPT !.task_id = id])
         /\ \A c, q : QueuedFor(c, k, q) => QueuedFor(c, [k EXCEPT !.task_id = id], q)
         /\ \A c, q : Pending(c, k, q) => Pending(c, [k EXCEPT !.task_id = id], q)
<1> DEFINE h == [k EXCEPT !.task_id = id]
<1>1. h \in Members
  BY DEF Members
<1>2. /\ h.life = k.life /\ h.open = k.open /\ h.reads = k.reads /\ h.asked = k.asked /\ h.part = k.part
      /\ h.is_reading = k.is_reading /\ h.is_writing = k.is_writing /\ h.need_after = k.need_after
      /\ h.need_read = k.need_read /\ h.completed = k.completed /\ h.hook = k.hook /\ h.reading = k.reading
      /\ h.writes = k.writes /\ h.at = k.at /\ h.users = k.users /\ h.sent = k.sent
  BY DEF Members
<1> HIDE DEF h
<1>3. Coherent(k) => Coherent(h)
  BY <1>2 DEF Coherent, Idle
<1>4. ASSUME NEW c, NEW q, QueuedFor(c, k, q)
      PROVE  QueuedFor(c, h, q)
  <2>1. Asks(c, h, q)
    BY <1>2, <1>4, AsksSame DEF QueuedFor
  <2> QED
    BY <1>2, <1>4, <2>1 DEF QueuedFor
<1>5. \A c, q : Pending(c, k, q) => Pending(c, h, q)
  BY <1>2 DEF Pending
<1> QED
  BY <1>1, <1>3, <1>4, <1>5 DEF h

LEMMA StartDeadlineFits ==
  ASSUME NEW s, Fits(s), s.k.life = "live"
  PROVE  LET r == Server!StartDeadline(s)
         IN  /\ Fits(r) /\ Armed(r) /\ r.c = s.c /\ r.q = s.q /\ r.k = [s.k EXCEPT !.task_id = s.t.highest + 1]
             /\ Pending(s.c, s.k, s.q) => Pending(r.c, r.k, r.q)
<1> DEFINE r == Server!StartDeadline(s)
           u == Server!Cancel(s)
           id == s.t.highest + 1
           own == [id |-> id, owner |-> s.c]
<1>1. s \in ServerWorlds /\ s.k \in Members /\ s.t \in Timers /\ s.c \in Conns
  BY DEF Fits, ServerWorlds
<1>2. /\ r \in ServerWorlds /\ r.c = s.c /\ r.k = [s.k EXCEPT !.task_id = id] /\ r.q = s.q /\ r.n = s.n
      /\ r.t.tasks = u.t.tasks \cup {own} /\ r.t.highest = id /\ r.t.robbed = u.t.robbed \ {s.c}
  BY <1>1, StartDeadlineIs
<1>3. /\ u \in ServerWorlds /\ u.c = s.c /\ u.k = s.k /\ u.q = s.q /\ u.t.highest = s.t.highest
  BY <1>1, CancelIs
<1>4. Apart(u) /\ NoDeadline(u)
  BY <1>1, CancelFits DEF Fits
<1>5. id \in Nat /\ own.id = id /\ own.owner = s.c /\ id = s.t.highest + 1 /\ s.t.highest \in Nat
  BY <1>1 DEF Timers
<1> HIDE DEF r, u, id
<1>6. r.k.task_id = id /\ r.k.svc = s.k.svc /\ r.k.life = s.k.life
  BY <1>1, <1>2 DEF Members
<1>7. Armed(r)
  BY <1>2, <1>6 DEF Armed
<1> HIDE DEF own
<1>8. Timed(r.c, r.k, r.t)
  <2>1. \A x \in r.t.tasks : x.owner = r.c => x = own
    BY <1>2, <1>3, <1>4 DEF NoDeadline
  <2> QED
    BY <1>2, <1>5, <1>6, <1>7, <2>1 DEF Timed, Armed
<1>9. Apart(r)
  <2>1. \A x \in r.t.tasks : x.id \in 1 .. r.t.highest /\ (x.owner # r.c => conn[x.owner].svc = r.k.svc)
    <3>1. ASSUME NEW x \in u.t.tasks
          PROVE  x.id \in 1 .. id /\ (x.owner # s.c => conn[x.owner].svc = s.k.svc)
      BY <1>3, <1>4, <1>5 DEF Apart
    <3> QED
      BY <1>2, <1>5, <1>6, <3>1
  <2>2. ASSUME NEW d \in Conns, d # r.c, conn[d].svc = r.k.svc
        PROVE  Timed(d, conn[d], r.t)
    <3>1. Timed(d, conn[d], u.t)
      BY <1>2, <1>3, <1>4, <1>6, <2>2 DEF Apart
    <3> QED
      BY <1>2, <1>5, <2>2, <3>1 DEF Timed
  <2> QED
    BY <1>2, <1>3, <1>4, <1>6, <2>1, <2>2 DEF Apart
<1>10. Coherent(r.k) /\ QueuedFor(r.c, r.k, r.q) /\ (Pending(s.c, s.k, s.q) => Pending(r.c, r.k, r.q))
  BY <1>1, <1>2, <1>5, CoherentTask DEF Fits
<1>11. Tally(r)
  BY <1>2, <1>6, TallySame DEF Fits
<1> QED
  BY <1>2, <1>7, <1>8, <1>9, <1>10, <1>11 DEF Fits, r, id

LEMMA NewJobs ==
  ASSUME NEW op \in {"start", "read", "write"}, NEW c \in Conns,
         NEW what \in {"whole", "head", "rest", "ok", "error", "piece"}, NEW req \in Kinds \cup {None}
  PROVE  LET j == Server!Job(op, c, what, req)
         IN  j \in Handlers /\ j.op = op /\ j.c = c /\ j.what = what /\ j.req = req
BY DEF Server!Job, Handlers

\* A read that is started has a deadline.
LEMMA DoReadFits ==
  ASSUME NEW s, Fits(s), Armed(s), s.k.life = "live", ~s.k.reading, ~s.k.need_read, ~s.k.hook, s.k.at = "idle",
         Lacks(s.c, s.q, "read")
  PROVE  LET r == Server!DoRead(s)
         IN  /\ Fits(r) /\ r.c = s.c /\ r.k.svc = s.k.svc /\ r.k.life = "live" /\ r.k.is_reading /\ r.k.at = "idle"
             /\ Pending(s.c, s.k, s.q) => Pending(r.c, r.k, r.q)
<1> DEFINE r == Server!DoRead(s)
           j == Server!Job("read", s.c, "error", None)
<1>1. s \in ServerWorlds /\ s.k \in Members /\ s.t \in Timers /\ s.c \in Conns /\ s.q \in Seq(Handlers)
  BY DEF Fits, ServerWorlds
<1>2. CASE s.k.open
  <2> DEFINE k == [s.k EXCEPT !.is_reading = TRUE, !.reading = TRUE]
  <2>1. k \in Members
    BY <1>1 DEF Members
  <2>2. r = [s EXCEPT !.k = k]
    BY <1>1, <1>2 DEF Server!DoRead, ServerWorlds
  <2>3. r \in ServerWorlds /\ r.c = s.c /\ r.k = k /\ r.q = s.q /\ r.t = s.t /\ r.n = s.n
    BY <1>1, <2>1, <2>2 DEF ServerWorlds
  <2>4. /\ k.is_reading /\ k.reading
        /\ k.life = s.k.life /\ k.open = s.k.open /\ k.reads = s.k.reads /\ k.asked = s.k.asked /\ k.part = s.k.part
        /\ k.is_writing = s.k.is_writing /\ k.need_after = s.k.need_after /\ k.task_id = s.k.task_id
        /\ k.need_read = s.k.need_read /\ k.completed = s.k.completed /\ k.hook = s.k.hook
        /\ k.writes = s.k.writes /\ k.at = s.k.at /\ k.users = s.k.users /\ k.sent = s.k.sent /\ k.svc = s.k.svc
    BY <1>1 DEF Members
  <2> HIDE DEF k, r
  <2>5. Coherent(k)
    BY <1>2, <2>4 DEF Fits, Coherent
  <2>6. Asks(s.c, k, s.q)
    BY LacksAsks
  <2>7. QueuedFor(s.c, k, s.q) /\ (Pending(s.c, s.k, s.q) => Pending(s.c, k, s.q))
    BY <2>4, <2>6 DEF Fits, QueuedFor, Pending
  <2>8. Timed(s.c, k, s.t)
    BY <2>4 DEF Fits, Timed, Armed
  <2>9. Apart(r) /\ Tally(r)
    BY <2>3, <2>4, ApartSame, TallySame DEF Fits
  <2> QED
    BY <2>3, <2>4, <2>5, <2>7, <2>8, <2>9 DEF Fits, r
<1>3. CASE ~s.k.open
  <2> DEFINE k == [s.k EXCEPT !.is_reading = TRUE]
  <2>1. k \in Members
    BY <1>1 DEF Members
  <2>2. r = [s EXCEPT !.k = k, !.q = Append(s.q, j)]
    BY <1>1, <1>3 DEF Server!DoRead, ServerWorlds
  <2>3. j \in Handlers /\ j.op = "read" /\ j.c = s.c /\ j.what = "error"
    BY <1>1, NewJobs
  <2>4. /\ k.is_reading
        /\ k.life = s.k.life /\ k.open = s.k.open /\ k.reads = s.k.reads /\ k.asked = s.k.asked /\ k.part = s.k.part
        /\ k.is_writing = s.k.is_writing /\ k.need_after = s.k.need_after /\ k.task_id = s.k.task_id
        /\ k.need_read = s.k.need_read /\ k.completed = s.k.completed /\ k.hook = s.k.hook /\ k.reading = s.k.reading
        /\ k.writes = s.k.writes /\ k.at = s.k.at /\ k.users = s.k.users /\ k.sent = s.k.sent /\ k.svc = s.k.svc
    BY <1>1 DEF Members
  <2> HIDE DEF k, r, j
  <2> DEFINE p == Append(s.q, j)
  <2>5. /\ p \in Seq(Handlers) /\ Single(s.c, p) /\ Asks(s.c, s.k, p)
        /\ \A op : op # "read" => (Lacks(s.c, p, op) <=> Lacks(s.c, s.q, op))
    BY <1>1, <2>3, OwnAppended DEF Fits, QueuedFor, Server!Parts
  <2> HIDE DEF p
  <2>6. r \in ServerWorlds /\ r.c = s.c /\ r.k = k /\ r.q = p /\ r.t = s.t /\ r.n = s.n
    BY <1>1, <2>1, <2>2, <2>5 DEF ServerWorlds, p
  <2>7. Coherent(k)
    BY <2>4 DEF Fits, Coherent
  <2>8. Asks(s.c, k, p)
    BY <2>4, <2>5, AsksSame
  <2>9. QueuedFor(s.c, k, p) /\ (Pending(s.c, s.k, s.q) => Pending(s.c, k, p))
    BY <1>3, <2>4, <2>5, <2>8 DEF Fits, QueuedFor, Pending
  <2>10. Timed(s.c, k, s.t)
    BY <2>4 DEF Fits, Timed
  <2>11. Apart(r)
    BY <1>1, <2>3, <2>4, <2>6, ApartAppends DEF Fits, p
  <2>12. Tally(r)
    BY <2>4, <2>6, TallySame DEF Fits
  <2> QED
    BY <2>4, <2>6, <2>7, <2>9, <2>10, <2>11, <2>12 DEF Fits, r
<1> QED
  BY <1>2, <1>3

\* At most one write is under way.
LEMMA DoWriteFits ==
  ASSUME NEW s, Fits(s), s.k.life = "live", ~s.k.hook, s.k.writes = 0, s.k.reads > 0,
         Lacks(s.c, s.q, "write"), Lacks(s.c, s.q, "read")
  PROVE  LET r == Server!DoWrite(s)
         IN  /\ Fits(r) /\ Pending(r.c, r.k, r.q) /\ r.c = s.c /\ Lacks(r.c, r.q, "read")
             /\ r.k.svc = s.k.svc /\ r.k.life = "live" /\ r.k.is_reading = s.k.is_reading
             /\ r.k.need_read = s.k.need_read /\ r.k.reading = s.k.reading /\ r.k.hook = s.k.hook /\ r.k.at = s.k.at
             /\ r.k.open = s.k.open /\ r.k.close = s.k.close
<1> DEFINE r == Server!DoWrite(s)
           j == Server!Job("write", s.c, "error", None)
<1>1. s \in ServerWorlds /\ s.k \in Members /\ s.t \in Timers /\ s.c \in Conns /\ s.q \in Seq(Handlers)
  BY DEF Fits, ServerWorlds
<1>2. CASE s.k.open
  <2> DEFINE k == [s.k EXCEPT !.is_writing = TRUE, !.writes = 1]
  <2>1. k \in Members
    BY <1>1, ZenonT(60) DEF Members
  <2>2. r = [s EXCEPT !.k = k]
    <3>1. r = [s EXCEPT !.k = [s.k EXCEPT !.is_writing = TRUE, !.writes = s.k.writes + 1]]
      BY <1>1, <1>2 DEF Server!DoWrite, ServerWorlds
    <3>2. s.k.writes + 1 = 1
      OBVIOUS
    <3> QED
      BY <3>1, <3>2
  <2>3. r \in ServerWorlds /\ r.c = s.c /\ r.k = k /\ r.q = s.q /\ r.t = s.t /\ r.n = s.n
    BY <1>1, <2>1, <2>2 DEF ServerWorlds
  <2>4. /\ k.is_writing /\ k.writes = 1
        /\ k.life = s.k.life /\ k.open = s.k.open /\ k.reads = s.k.reads /\ k.asked = s.k.asked /\ k.part = s.k.part
        /\ k.is_reading = s.k.is_reading /\ k.need_after = s.k.need_after /\ k.task_id = s.k.task_id
        /\ k.need_read = s.k.need_read /\ k.completed = s.k.completed /\ k.hook = s.k.hook
        /\ k.reading = s.k.reading /\ k.at = s.k.at /\ k.users = s.k.users /\ k.sent = s.k.sent /\ k.svc = s.k.svc
        /\ k.close = s.k.close
    BY <1>1 DEF Members
  <2> HIDE DEF k, r
  <2>5. Coherent(k)
    BY <1>2, <2>4 DEF Fits, Coherent
  <2>6. Asks(s.c, k, s.q)
    BY LacksAsks
  <2>7. QueuedFor(s.c, k, s.q) /\ Pending(s.c, k, s.q)
    BY <2>4, <2>6 DEF Fits, QueuedFor, Pending
  <2>8. Timed(s.c, k, s.t)
    BY <2>4 DEF Fits, Timed
  <2>9. Apart(r) /\ Tally(r)
    BY <2>3, <2>4, ApartSame, TallySame DEF Fits
  <2> QED
    BY <2>3, <2>4, <2>5, <2>7, <2>8, <2>9 DEF Fits, r
<1>3. CASE ~s.k.open
  <2> DEFINE k == [s.k EXCEPT !.is_writing = TRUE]
  <2>1. k \in Members
    BY <1>1, ZenonT(60) DEF Members
  <2>2. r = [s EXCEPT !.k = k, !.q = Append(s.q, j)]
    BY <1>1, <1>3 DEF Server!DoWrite, ServerWorlds
  <2>3. j \in Handlers /\ j.op = "write" /\ j.c = s.c /\ j.what = "error"
    BY <1>1, NewJobs
  <2>4. /\ k.is_writing
        /\ k.life = s.k.life /\ k.open = s.k.open /\ k.reads = s.k.reads /\ k.asked = s.k.asked /\ k.part = s.k.part
        /\ k.is_reading = s.k.is_reading /\ k.need_after = s.k.need_after /\ k.task_id = s.k.task_id
        /\ k.need_read = s.k.need_read /\ k.completed = s.k.completed /\ k.hook = s.k.hook /\ k.reading = s.k.reading
        /\ k.writes = s.k.writes /\ k.at = s.k.at /\ k.users = s.k.users /\ k.sent = s.k.sent /\ k.svc = s.k.svc
        /\ k.close = s.k.close
    BY <1>1 DEF Members
  <2> HIDE DEF k, r, j
  <2> DEFINE p == Append(s.q, j)
  <2>5. /\ p \in Seq(Handlers) /\ Single(s.c, p) /\ Asks(s.c, s.k, p)
        /\ \A op : op # "write" => (Lacks(s.c, p, op) <=> Lacks(s.c, s.q, op))
    BY <1>1, <2>3, OwnAppended, LacksUnasked DEF Fits, QueuedFor, Server!Parts
  <2> HIDE DEF p
  <2>6. r \in ServerWorlds /\ r.c = s.c /\ r.k = k /\ r.q = p /\ r.t = s.t /\ r.n = s.n
    BY <1>1, <2>1, <2>2, <2>5 DEF ServerWorlds, p
  <2>7. Coherent(k)
    BY <2>4 DEF Fits, Coherent
  <2>8. Asks(s.c, k, p)
    BY <2>4, <2>5, AsksSame
  <2>9. QueuedFor(s.c, k, p) /\ Pending(s.c, k, p)
    BY <1>3, <2>4, <2>5, <2>8 DEF Fits, QueuedFor, Pending
  <2>10. Timed(s.c, k, s.t)
    BY <2>4 DEF Fits, Timed
  <2>11. Apart(r)
    BY <1>1, <2>3, <2>4, <2>6, ApartAppends DEF Fits, p
  <2>12. Tally(r)
    BY <2>4, <2>6, TallySame DEF Fits
  <2> QED
    BY <2>4, <2>5, <2>6, <2>7, <2>9, <2>10, <2>11, <2>12 DEF Fits, r
<1> QED
  BY <1>2, <1>3

\* What closing a socket queues.
LEMMA EndedIs ==
  ASSUME NEW s, s.k.writes \in {0, 1}
  PROVE  LET rd == Server!Job("read", s.c, "error", None)
             wr == Server!Job("write", s.c, "error", None)
         IN  Server!Ended(s) = CASE s.k.reading /\ s.k.writes = 1 -> <<rd, wr>>
                                 [] s.k.reading /\ s.k.writes = 0 -> <<rd>>
                                 [] ~s.k.reading /\ s.k.writes = 1 -> <<wr>>
                                 [] ~s.k.reading /\ s.k.writes = 0 -> <<>>
<1> DEFINE rd == Server!Job("read", s.c, "error", None)
           wr == Server!Job("write", s.c, "error", None)
           ws1 == [i \in 1 .. s.k.writes |-> wr]
           rs == IF s.k.reading THEN <<rd>> ELSE <<>>
<1>1. Server!Ended(s) = rs \o ws1
  BY DEF Server!Ended
<1> HIDE DEF rd, wr
<1>2. ws1 = IF s.k.writes = 1 THEN <<wr>> ELSE <<>>
  OBVIOUS
<1> HIDE DEF ws1
<1> QED
  BY <1>1, <1>2 DEF rd, wr

\* Closing a socket queues the handlers of what waited on it.
LEMMA CloseSocketFits ==
  ASSUME NEW s, Fits(s), s.k.life = "live"
  PROVE  LET r == Server!CloseSocket(s)
         IN  /\ Fits(r) /\ Pending(r.c, r.k, r.q) /\ r.c = s.c
             /\ r.k.svc = s.k.svc /\ r.k.life = "live" /\ r.k.is_reading = s.k.is_reading
             /\ r.k.need_read = s.k.need_read /\ ~r.k.reading /\ r.k.hook = s.k.hook /\ r.k.at = s.k.at
             /\ ~s.k.reading /\ Lacks(s.c, s.q, "read") => Lacks(r.c, r.q, "read")
<1> DEFINE r == Server!CloseSocket(s)
           rd == Server!Job("read", s.c, "error", None)
           wr == Server!Job("write", s.c, "error", None)
           k == [s.k EXCEPT !.open = FALSE, !.reading = FALSE, !.writes = 0]
           p == IF s.k.reading THEN Append(s.q, rd) ELSE s.q
           e == IF s.k.writes = 1 THEN Append(p, wr) ELSE p
           u == [s EXCEPT !.q = p]
<1>1. s \in ServerWorlds /\ s.k \in Members /\ s.t \in Timers /\ s.c \in Conns /\ s.q \in Seq(Handlers)
  BY DEF Fits, ServerWorlds
<1>2. s.k.writes \in {0, 1}
  BY DEF Fits, Coherent
<1>3. /\ rd \in Handlers /\ rd.op = "read" /\ rd.c = s.c /\ rd.what = "error"
      /\ wr \in Handlers /\ wr.op = "write" /\ wr.c = s.c /\ wr.what = "error"
  BY <1>1, NewJobs
<1>4. s.q \o Server!Ended(s) = e
  <2>1. Server!Ended(s) = CASE s.k.reading /\ s.k.writes = 1 -> <<rd, wr>>
                                 [] s.k.reading /\ s.k.writes = 0 -> <<rd>>
                                 [] ~s.k.reading /\ s.k.writes = 1 -> <<wr>>
                                 [] ~s.k.reading /\ s.k.writes = 0 -> <<>>
    BY <1>2, EndedIs
  <2> HIDE DEF rd, wr
  <2> DEFINE q == s.q
  <2>2. q \in Seq(Handlers)
    BY <1>1
  <2> HIDE DEF q
  <2>3. q \o <<rd, wr>> = Append(Append(q, rd), wr)
    BY <1>3, <2>2
  <2>4. q \o <<rd>> = Append(q, rd)
    BY <1>3, <2>2
  <2>5. q \o <<wr>> = Append(q, wr)
    BY <1>3, <2>2
  <2>6. q \o <<>> = q
    BY <2>2
  <2>7. CASE s.k.reading /\ s.k.writes = 1
    BY <2>1, <2>3, <2>7 DEF q
  <2>8. CASE s.k.reading /\ s.k.writes = 0
    BY <2>1, <2>4, <2>8 DEF q
  <2>9. CASE ~s.k.reading /\ s.k.writes = 1
    BY <2>1, <2>5, <2>9 DEF q
  <2>10. CASE ~s.k.reading /\ s.k.writes = 0
    <3>1. Server!Ended(s) = <<>>
      BY <2>1, <2>10
    <3>2. e = s.q
      BY <2>10
    <3> QED
      BY <2>6, <3>1, <3>2 DEF q
  <2> QED
    BY <1>2, <2>7, <2>8, <2>9, <2>10
<1> HIDE DEF rd, wr
<1>5. k \in Members
  BY <1>1 DEF Members
<1>6. /\ ~k.open /\ ~k.reading /\ k.writes = 0
      /\ k.life = s.k.life /\ k.reads = s.k.reads /\ k.asked = s.k.asked /\ k.part = s.k.part
      /\ k.is_reading = s.k.is_reading /\ k.need_after = s.k.need_after /\ k.task_id = s.k.task_id
      /\ k.need_read = s.k.need_read /\ k.completed = s.k.completed /\ k.hook = s.k.hook
      /\ k.is_writing = s.k.is_writing /\ k.at = s.k.at /\ k.users = s.k.users /\ k.sent = s.k.sent /\ k.svc = s.k.svc
  BY <1>1 DEF Members
<1>7. r = [s EXCEPT !.k = k, !.q = s.q \o Server!Ended(s)]
  BY <1>1 DEF Server!CloseSocket, ServerWorlds
<1> HIDE DEF k, r
<1>8. /\ p \in Seq(Handlers) /\ Single(s.c, p) /\ Asks(s.c, s.k, p)
      /\ \A op : op # "read" => (Lacks(s.c, p, op) <=> Lacks(s.c, s.q, op))
      /\ ~s.k.reading => p = s.q
      /\ s.k.writes = 1 => Unasked(s.c, p)
  <2>1. s.k.reading => Lacks(s.c, s.q, "read")
    BY DEF Fits, QueuedFor
  <2>2. s.k.writes = 1 => Unasked(s.c, s.q)
    BY DEF Fits, QueuedFor, Asks, AsksAt, Unasked
  <2>3. CASE s.k.reading
    BY <1>1, <1>3, <2>1, <2>2, <2>3, OwnAppended DEF Fits, QueuedFor, Server!Parts
  <2> QED
    BY <1>1, <2>2, <2>3 DEF Fits, QueuedFor
<1>9. /\ e \in Seq(Handlers) /\ Single(s.c, e) /\ Asks(s.c, s.k, e)
      /\ \A op : op # "write" => (Lacks(s.c, e, op) <=> Lacks(s.c, p, op))
      /\ s.k.writes = 0 => e = p
  <2> HIDE DEF p
  <2>1. s.k.writes = 1 => Lacks(s.c, p, "write")
    BY <1>8 DEF Fits, QueuedFor
  <2>2. CASE s.k.writes = 1
    BY <1>3, <1>8, <2>1, <2>2, OwnAppended DEF Server!Parts
  <2> QED
    BY <1>2, <1>8, <2>2
<1>10. u \in ServerWorlds /\ u.c = s.c /\ u.k = s.k /\ u.q = p /\ u.t = s.t /\ u.n = s.n
  <2> HIDE DEF p
  <2> QED
    BY <1>1, <1>8 DEF ServerWorlds
<1>11. Apart(u)
  <2> HIDE DEF u
  <2>1. CASE s.k.reading
    BY <1>1, <1>3, <1>10, <2>1, ApartAppends DEF Fits
  <2>2. CASE ~s.k.reading
    BY <1>10, <2>2, ApartSame DEF Fits
  <2> QED
    BY <2>1, <2>2
<1> HIDE DEF p, u
<1>12. r \in ServerWorlds /\ r.c = s.c /\ r.k = k /\ r.q = e /\ r.t = s.t /\ r.n = s.n
  <2> HIDE DEF e
  <2> QED
    BY <1>1, <1>4, <1>5, <1>7, <1>9 DEF ServerWorlds
<1>13. Apart(r)
  <2>1. CASE s.k.writes = 1
    BY <1>3, <1>6, <1>10, <1>11, <1>12, <2>1, ApartAppends
  <2>2. CASE s.k.writes = 0
    BY <1>6, <1>10, <1>11, <1>12, <2>2, ApartSame
  <2> QED
    BY <1>2, <2>1, <2>2
<1> HIDE DEF e
<1>14. Coherent(k)
  BY <1>6 DEF Fits, Coherent, Idle
<1>15. Asks(s.c, k, e)
  <2>1. SUFFICES ASSUME NEW i \in DOMAIN e, e[i].c = s.c, e[i].op = "read", e[i].what \in Server!Parts
                 PROVE  AsksAt(s.c, k, e, i)
    BY DEF Asks
  <2>2. AsksAt(s.c, s.k, e, i)
    BY <1>9, <2>1 DEF Asks
  <2> QED
    BY <1>6, <2>2 DEF AsksAt
<1>16. QueuedFor(s.c, k, e)
  <2>1. \A op \in {"start"} : k.life # "posted" => Lacks(s.c, e, op)
    BY <1>6, <1>8, <1>9 DEF Fits, QueuedFor
  <2>2. ~k.is_reading \/ k.at \in {"fed", "tested"} \/ k.need_read \/ k.hook => Lacks(s.c, e, "read")
    BY <1>6, <1>8, <1>9 DEF Fits, QueuedFor, Coherent
  <2>3. ~k.is_writing \/ k.hook => Lacks(s.c, e, "write")
    BY <1>2, <1>6, <1>8, <1>9 DEF Fits, QueuedFor, Coherent
  <2> QED
    BY <1>6, <1>9, <1>15, <2>1, <2>2, <2>3 DEF QueuedFor
<1>17. Pending(s.c, k, e) /\ Timed(s.c, k, s.t)
  BY <1>6 DEF Fits, Pending, Timed
<1>18. Tally(r)
  BY <1>6, <1>12, TallySame DEF Fits
<1> QED
  BY <1>6, <1>8, <1>9, <1>12, <1>13, <1>14, <1>16, <1>17, <1>18 DEF Fits, r

\* A connection that believes that it neither reads nor writes has no handler left.
LEMMA DeleteFits ==
  ASSUME NEW s, Fits(s), s.k.life \in {"accepting", "live"}, ~s.k.is_reading, ~s.k.is_writing
  PROVE  LET r == Server!Delete(s)
         IN  /\ Fits(r) /\ Pending(r.c, r.k, r.q) /\ r.c = s.c /\ r.q = s.q
             /\ r.k.svc = s.k.svc /\ r.k.life = "deleted" /\ r.k.at = "idle"
<1> DEFINE r == Server!Delete(s)
           u == Server!Cancel(s)
           k == [Server!Unborn EXCEPT !.life = "deleted", !.svc = s.k.svc, !.reads = s.k.reads,
                             !.reading = s.k.reading, !.writes = s.k.writes, !.users = s.k.users,
                             !.sent = s.k.sent]
<1>1. s \in ServerWorlds /\ s.k \in Members /\ s.t \in Timers /\ s.c \in Conns /\ s.q \in Seq(Handlers) /\ s.n \in Int
  BY DEF Fits, ServerWorlds
<1>2. k \in Members
  <2>1. 0 \in 0 .. MaxReads /\ 0 \in Server!Workers
    BY ServerAssumption DEF Server!CrowAssumption, Server!Workers
  <2>2. Server!Unborn \in Members
    BY <2>1 DEF Server!Unborn, Members
  <2> QED
    BY <1>1, <2>2 DEF Members
<1>3. /\ k.life = "deleted" /\ k.svc = s.k.svc /\ k.reads = s.k.reads /\ k.reading = s.k.reading
      /\ k.writes = s.k.writes /\ k.users = s.k.users /\ k.sent = s.k.sent /\ k.at = "idle" /\ ~k.hook
      /\ ~k.need_read /\ ~k.completed /\ k.asked = 0 /\ k.part = None /\ ~k.is_reading /\ ~k.is_writing
  BY <1>1 DEF Server!Unborn, Members
<1>4. /\ u \in ServerWorlds /\ u.c = s.c /\ u.k = s.k /\ u.q = s.q /\ u.n = s.n
  BY <1>1, CancelIs
<1>5. Apart(u) /\ NoDeadline(u)
  BY <1>1, CancelFits DEF Fits
<1> DEFINE n == s.n - 1
<1>6. r = [u EXCEPT !.k = k, !.n = n] /\ n \in Int
  BY <1>1, <1>4 DEF Server!Delete, ServerWorlds
<1> HIDE DEF k, u, r, n
<1>7. r \in ServerWorlds /\ r.c = s.c /\ r.k = k /\ r.q = s.q /\ r.t = u.t /\ r.n = n
  BY <1>1, <1>2, <1>4, <1>6 DEF ServerWorlds
<1>8. ~s.k.reading /\ s.k.writes = 0
  BY DEF Fits, Coherent, Idle
<1>9. Coherent(k)
  BY <1>1, <1>3, <1>8 DEF Fits, Coherent, Members
<1>10. Lacks(s.c, s.q, "start") /\ Lacks(s.c, s.q, "read") /\ Lacks(s.c, s.q, "write")
  BY DEF Fits, QueuedFor
<1>11. QueuedFor(s.c, k, s.q) /\ Pending(s.c, k, s.q)
  BY <1>3, <1>10, LacksAsks DEF Fits, QueuedFor, Pending
<1>12. Timed(s.c, k, u.t)
  BY <1>3, <1>4, <1>5, <1>8 DEF Timed, NoDeadline
<1>13. Apart(r)
  BY <1>3, <1>4, <1>5, <1>7, ApartSame
<1>14. Tally(r)
  <2> DEFINE m == Cardinality({d \in Conns : d # s.c /\ Counts(conn, d, s.k.svc)})
  <2>1. s.n = m + 1
    BY DEF Fits, Tally, Counted
  <2> HIDE DEF m
  <2>2. r.n = m + 0
    <3>1. IsFiniteSet(Conns)
      BY ServerAssumption, SameCount DEF Server!CrowAssumption
    <3>2. m \in Nat
      BY <3>1, FS_Subset, FS_CardinalityType DEF m
    <3> QED
      BY <1>7, <2>1, <3>2 DEF n
  <2> QED
    BY <1>3, <1>7, <2>2 DEF Tally, Counted, m
<1> QED
  BY <1>3, <1>7, <1>9, <1>11, <1>12, <1>13, <1>14 DEF Fits, r

LEMMA CheckDestroyFits ==
  ASSUME NEW s, Fits(s), s.k.life = "live", Pending(s.c, s.k, s.q)
  PROVE  LET r == Server!CheckDestroy(s)
         IN  /\ Fits(r) /\ Pending(r.c, r.k, r.q) /\ r.c = s.c /\ r.k.svc = s.k.svc
             /\ r.k.life \in {"live", "deleted"} /\ r.k.at \in {s.k.at, "idle"}
             /\ s.k.is_reading => r = s
BY DeleteFits DEF Server!CheckDestroy

\* The connection alone was changed.
LEMMA MemberSet ==
  ASSUME NEW s \in ServerWorlds, NEW k \in Members
  PROVE  LET r == [s EXCEPT !.k = k]
         IN  r \in ServerWorlds /\ r.c = s.c /\ r.k = k /\ r.q = s.q /\ r.t = s.t /\ r.n = s.n
BY DEF ServerWorlds

LEMMA ClearFits ==
  ASSUME NEW s, Fits(s)
  PROVE  LET r == Server!Clear(s)
         IN  /\ Fits(r) /\ Pending(r.c, r.k, r.q) /\ r.c = s.c /\ r.q = s.q
             /\ r.k.svc = s.k.svc /\ r.k.life = s.k.life /\ r.k.at = s.k.at /\ r.k.is_reading = s.k.is_reading
             /\ r.k.need_read = s.k.need_read /\ r.k.reading = s.k.reading /\ r.k.close = s.k.close
<1> DEFINE r == Server!Clear(s)
           k == [s.k EXCEPT !.completed = FALSE, !.body = 0, !.long = FALSE]
<1>1. s \in ServerWorlds /\ s.k \in Members
  BY DEF Fits, ServerWorlds
<1>2. k \in Members
  <2>1. 0 \in 0 .. MaxReads
    BY ServerAssumption DEF Server!CrowAssumption
  <2> QED
    BY <1>1, <2>1 DEF Members
<1>3. /\ ~k.completed
      /\ k.life = s.k.life /\ k.open = s.k.open /\ k.reads = s.k.reads /\ k.asked = s.k.asked /\ k.part = s.k.part
      /\ k.is_reading = s.k.is_reading /\ k.is_writing = s.k.is_writing /\ k.need_after = s.k.need_after
      /\ k.task_id = s.k.task_id /\ k.need_read = s.k.need_read /\ k.hook = s.k.hook /\ k.reading = s.k.reading
      /\ k.writes = s.k.writes /\ k.at = s.k.at /\ k.users = s.k.users /\ k.sent = s.k.sent /\ k.svc = s.k.svc
      /\ k.close = s.k.close
  BY <1>1 DEF Members
<1>4. r = [s EXCEPT !.k = k]
  BY <1>1 DEF Server!Clear, ServerWorlds
<1> HIDE DEF k, r
<1>5. r \in ServerWorlds /\ r.c = s.c /\ r.k = k /\ r.q = s.q /\ r.t = s.t /\ r.n = s.n
  BY <1>1, <1>2, <1>4, MemberSet
<1>6. Coherent(k)
  BY <1>3 DEF Fits, Coherent, Idle
<1>7. QueuedFor(s.c, k, s.q) /\ Pending(s.c, k, s.q)
  BY <1>3, AsksSame DEF Fits, QueuedFor, Pending
<1>8. Timed(s.c, k, s.t)
  BY <1>3 DEF Fits, Timed
<1>9. Apart(r) /\ Tally(r)
  BY <1>3, <1>5, ApartSame, TallySame DEF Fits
<1> QED
  BY <1>3, <1>5, <1>6, <1>7, <1>8, <1>9 DEF Fits, r

-----------------------------------------------------------------------------
(* A response is sent *)

\* The response of request asked is complete, nothing else is under way.
Ready(s) ==
  /\ s \in ServerWorlds /\ Apart(s) /\ Tally(s) /\ Timed(s.c, s.k, s.t)
  /\ s.k.life = "live" /\ s.k.users = {} /\ s.k.writes = 0 /\ ~s.k.reading /\ s.k.at # "threw"
  /\ Single(s.c, s.q) /\ Lacks(s.c, s.q, "start") /\ Lacks(s.c, s.q, "read") /\ Lacks(s.c, s.q, "write")
  /\ s.k.body = s.k.asked /\ Len(s.k.sent) + 1 = s.k.asked /\ s.k.asked <= s.k.reads /\ s.k.reads <= MaxReads
  /\ s.k.part = None
  /\ \A i \in DOMAIN s.k.sent : s.k.sent[i] = i
  /\ s.k.at \in {"fed", "tested"} => s.k.is_reading /\ ~s.k.need_read

Due(s) == Ready(s) /\ ~s.k.hook

LEMMA SentFits ==
  ASSUME NEW s, Due(s), NEW h \in Members,
         h.life = "live", h.open = s.k.open, h.reads = s.k.reads, h.asked = s.k.asked, h.part = s.k.part,
         h.is_reading = s.k.is_reading, h.need_read = s.k.need_read, h.task_id = s.k.task_id,
         h.hook = s.k.hook, h.reading = s.k.reading, h.writes = s.k.writes, h.at = s.k.at, h.users = s.k.users,
         h.sent = Append(s.k.sent, s.k.body), h.svc = s.k.svc
  PROVE  LET r == [s EXCEPT !.k = h]
         IN  Fits(r) /\ r.c = s.c /\ r.k = h /\ r.q = s.q
<1> DEFINE r == [s EXCEPT !.k = h]
<1>1. s \in ServerWorlds /\ s.k \in Members
  BY DEF Due, Ready, ServerWorlds
<1>2. r \in ServerWorlds /\ r.c = s.c /\ r.k = h /\ r.q = s.q /\ r.t = s.t /\ r.n = s.n
  BY <1>1, MemberSet
<1> HIDE DEF r
<1>3. /\ Len(h.sent) = h.asked /\ \A i \in DOMAIN h.sent : h.sent[i] = i
  <2>1. s.k.sent \in Seq(0 .. MaxReads) /\ s.k.body = Len(s.k.sent) + 1
    BY <1>1 DEF Members, Due, Ready
  <2>2. \A i \in DOMAIN s.k.sent : s.k.sent[i] = i
    BY DEF Due, Ready
  <2> QED
    BY <2>1, <2>2 DEF Due, Ready
<1>4. Coherent(h)
  BY <1>1, <1>3 DEF Due, Ready, Coherent, Members
<1>5. QueuedFor(s.c, h, s.q)
  BY LacksAsks DEF Due, Ready, QueuedFor
<1>6. Timed(s.c, h, s.t)
  BY DEF Due, Ready, Timed
<1>7. Apart(r) /\ Tally(r)
  BY <1>2, ApartSame, TallySame DEF Due, Ready
<1> QED
  BY <1>2, <1>4, <1>5, <1>6, <1>7 DEF Fits, r

\* What sending a response leads to.
Replied(s, r) ==
  /\ Fits(r) /\ Pending(r.c, r.k, r.q) /\ r.c = s.c /\ r.k.svc = s.k.svc /\ r.k.life \in {"live", "deleted"}
  /\ r.k.at \in {s.k.at, "idle", "threw"}
  /\ Busy(s) => Busy(r) /\ r.k.at \in {s.k.at, "threw"}

LEMMA WriteStreamReplies ==
  ASSUME NEW s, Due(s), NEW fault
  PROVE  Replied(s, Server!WriteStream(s, fault))
<1>1. s \in ServerWorlds /\ s.k \in Members
  BY DEF Due, Ready, ServerWorlds
<1>2. CASE fault \in {"write", "unrouted"} \/ ~s.k.open
  <2> DEFINE r == Server!WriteStream(s, fault)
             k == [s.k EXCEPT !.is_writing = TRUE, !.at = "threw", !.lost = TRUE]
  <2>1. k \in Members
    BY <1>1 DEF Members
  <2>2. r = [s EXCEPT !.k = k]
    BY <1>1, <1>2 DEF Server!WriteStream, ServerWorlds
  <2>3. /\ k.at = "threw" /\ k.is_writing
        /\ k.life = s.k.life /\ k.open = s.k.open /\ k.reads = s.k.reads /\ k.asked = s.k.asked /\ k.part = s.k.part
        /\ k.is_reading = s.k.is_reading /\ k.need_after = s.k.need_after /\ k.completed = s.k.completed
        /\ k.task_id = s.k.task_id /\ k.need_read = s.k.need_read /\ k.hook = s.k.hook /\ k.reading = s.k.reading
        /\ k.writes = s.k.writes /\ k.users = s.k.users /\ k.sent = s.k.sent /\ k.svc = s.k.svc
    BY <1>1 DEF Members
  <2> HIDE DEF k, r
  <2>4. r \in ServerWorlds /\ r.c = s.c /\ r.k = k /\ r.q = s.q /\ r.t = s.t /\ r.n = s.n
    BY <1>1, <2>1, <2>2, MemberSet
  <2>5. Len(s.k.sent) \in Nat /\ s.k.asked \in Nat /\ s.k.reads \in Nat
    BY <1>1 DEF Members
  <2>6. Coherent(k)
    BY <2>3, <2>5 DEF Due, Ready, Coherent
  <2>7. QueuedFor(s.c, k, s.q) /\ Pending(s.c, k, s.q)
    BY <2>3, <2>5, LacksAsks DEF Due, Ready, QueuedFor, Pending
  <2>8. Timed(s.c, k, s.t)
    BY <2>3 DEF Due, Ready, Timed
  <2>9. Apart(r) /\ Tally(r)
    BY <2>3, <2>4, ApartSame, TallySame DEF Due, Ready
  <2>10. Busy(s) => Busy(r)
    BY <2>3, <2>4 DEF Busy
  <2> QED
    BY <2>3, <2>4, <2>6, <2>7, <2>8, <2>9, <2>10 DEF Due, Ready, Fits, Replied, r
<1>3. CASE ~(fault \in {"write", "unrouted"} \/ ~s.k.open)
  <2> DEFINE sent == Append(s.k.sent, s.k.body)
             lost == s.k.lost \/ s.k.need_read
             k == [s.k EXCEPT !.sent = sent, !.is_writing = FALSE, !.lost = lost]
             r == [s EXCEPT !.k = k]
             e == IF r.k.close THEN Server!CheckDestroy(Server!CloseSocket(r)) ELSE r
  <2>1. sent \in Seq(0 .. MaxReads) /\ lost \in BOOLEAN
    BY <1>1 DEF Members
  <2>2. Server!WriteStream(s, fault) = Server!Clear(e)
    <3> DEFINE v == [s EXCEPT !.k.sent = Append(@, s.k.body), !.k.is_writing = FALSE,
                              !.k.lost = @ \/ s.k.need_read]
    <3>1. v = r
      BY <1>1 DEF ServerWorlds
    <3>2. Server!WriteStream(s, fault)
            = Server!Clear(IF v.k.close THEN Server!CheckDestroy(Server!CloseSocket(v)) ELSE v)
      BY <1>3 DEF Server!WriteStream
    <3> HIDE DEF r, v
    <3> QED
      BY <3>1, <3>2
  <2> HIDE DEF sent, lost
  <2>3. k \in Members
    BY <1>1, <2>1 DEF Members
  <2>4. /\ k.sent = sent /\ ~k.is_writing
        /\ k.life = s.k.life /\ k.open = s.k.open /\ k.reads = s.k.reads /\ k.asked = s.k.asked /\ k.part = s.k.part
        /\ k.is_reading = s.k.is_reading /\ k.at = s.k.at
        /\ k.task_id = s.k.task_id /\ k.need_read = s.k.need_read /\ k.hook = s.k.hook /\ k.reading = s.k.reading
        /\ k.writes = s.k.writes /\ k.users = s.k.users /\ k.svc = s.k.svc
    BY <1>1 DEF Members
  <2> HIDE DEF k
  <2>5. Fits(r) /\ r.c = s.c /\ r.k = k /\ r.q = s.q
    <3>1. k.life = "live" /\ k.sent = Append(s.k.sent, s.k.body)
      BY <2>4 DEF Due, Ready, sent
    <3> QED
      BY <2>3, <2>4, <3>1, SentFits
  <2> HIDE DEF r
  <2>6. /\ Fits(e) /\ e.c = s.c /\ e.k.svc = s.k.svc /\ e.k.life \in {"live", "deleted"} /\ e.k.at \in {s.k.at, "idle"}
        /\ Busy(s) => Busy(e) /\ e.k.at = s.k.at
    <3>1. CASE ~r.k.close
      BY <2>4, <2>5, <3>1 DEF Due, Ready, Busy
    <3>2. CASE r.k.close
      <4> DEFINE u == Server!CloseSocket(r)
      <4>1. /\ Fits(u) /\ Pending(u.c, u.k, u.q) /\ u.c = r.c
            /\ u.k.svc = r.k.svc /\ u.k.life = "live" /\ u.k.is_reading = r.k.is_reading
            /\ u.k.need_read = r.k.need_read /\ ~u.k.reading /\ u.k.at = r.k.at
            /\ ~r.k.reading /\ Lacks(r.c, r.q, "read") => Lacks(u.c, u.q, "read")
        BY <2>4, <2>5, CloseSocketFits DEF Due, Ready
      <4> HIDE DEF u
      <4>2. LET v == Server!CheckDestroy(u)
            IN  /\ Fits(v) /\ v.c = u.c /\ v.k.svc = u.k.svc
                /\ v.k.life \in {"live", "deleted"} /\ v.k.at \in {u.k.at, "idle"}
                /\ u.k.is_reading => v = u
        BY <4>1, CheckDestroyFits
      <4>3. e = Server!CheckDestroy(u)
        BY <3>2 DEF u
      <4> HIDE DEF e
      <4> QED
        BY <2>4, <2>5, <4>1, <4>2, <4>3 DEF Due, Ready, Busy
    <3> QED
      BY <3>1, <3>2
  <2> HIDE DEF e
  <2> QED
    BY <2>2, <2>6, ClearFits DEF Replied, Busy
<1> QED
  BY <1>2, <1>3

LEMMA NeedReadFits ==
  ASSUME NEW s, Fits(s), s.k.life = "live"
  PROVE  LET r == [s EXCEPT !.k.need_read = FALSE]
         IN  /\ Fits(r) /\ r.c = s.c /\ r.q = s.q /\ r.k.svc = s.k.svc /\ r.k.life = "live" /\ ~r.k.need_read
             /\ r.k.reading = s.k.reading /\ r.k.hook = s.k.hook /\ r.k.at = s.k.at
             /\ Pending(s.c, s.k, s.q) => Pending(r.c, r.k, r.q)
<1> DEFINE r == [s EXCEPT !.k.need_read = FALSE]
           k == [s.k EXCEPT !.need_read = FALSE]
<1>1. s \in ServerWorlds /\ s.k \in Members
  BY DEF Fits, ServerWorlds
<1>2. k \in Members
  BY <1>1 DEF Members
<1>3. /\ ~k.need_read
      /\ k.life = s.k.life /\ k.open = s.k.open /\ k.reads = s.k.reads /\ k.asked = s.k.asked /\ k.part = s.k.part
      /\ k.is_reading = s.k.is_reading /\ k.is_writing = s.k.is_writing /\ k.need_after = s.k.need_after
      /\ k.task_id = s.k.task_id /\ k.completed = s.k.completed /\ k.hook = s.k.hook /\ k.reading = s.k.reading
      /\ k.writes = s.k.writes /\ k.at = s.k.at /\ k.users = s.k.users /\ k.sent = s.k.sent /\ k.svc = s.k.svc
  BY <1>1 DEF Members
<1>4. r = [s EXCEPT !.k = k]
  BY <1>1 DEF ServerWorlds
<1> HIDE DEF k, r
<1>5. r \in ServerWorlds /\ r.c = s.c /\ r.k = k /\ r.q = s.q /\ r.t = s.t /\ r.n = s.n
  BY <1>1, <1>2, <1>4, MemberSet
<1>6. Coherent(k)
  BY <1>3 DEF Fits, Coherent
<1>7. QueuedFor(s.c, k, s.q) /\ (Pending(s.c, s.k, s.q) => Pending(s.c, k, s.q))
  BY <1>3, AsksSame DEF Fits, QueuedFor, Pending
<1>8. Timed(s.c, k, s.t)
  BY <1>3 DEF Fits, Timed
<1>9. Apart(r) /\ Tally(r)
  BY <1>3, <1>5, ApartSame, TallySame DEF Fits
<1> QED
  BY <1>3, <1>5, <1>6, <1>7, <1>8, <1>9 DEF Fits, r

LEMMA WriteShortReplies ==
  ASSUME NEW s, Due(s)
  PROVE  Replied(s, Server!WriteShort(s))
<1> DEFINE sent == Append(s.k.sent, s.k.body)
           k == [s.k EXCEPT !.sent = sent]
           u == [s EXCEPT !.k = k]
           d == Server!DoWrite(u)
           x == [d EXCEPT !.k.need_read = FALSE]
           y == Server!StartDeadline(x)
           z == Server!DoRead(y)
<1>1. s \in ServerWorlds /\ s.k \in Members
  BY DEF Due, Ready, ServerWorlds
<1>2. sent \in Seq(0 .. MaxReads)
  BY <1>1 DEF Members
<1>3. Server!WriteShort(s) = IF d.k.need_read THEN z ELSE d
  <2> DEFINE v == [s EXCEPT !.k.sent = Append(@, s.k.body)]
  <2>1. v = u
    BY <1>1 DEF ServerWorlds
  <2>2. Server!WriteShort(s)
          = LET r == Server!DoWrite(v)
            IN  IF r.k.need_read THEN Server!DoRead(Server!StartDeadline([r EXCEPT !.k.need_read = FALSE])) ELSE r
    BY DEF Server!WriteShort
  <2> HIDE DEF u, v
  <2> QED
    BY <2>1, <2>2
<1> HIDE DEF sent
<1>4. k \in Members
  BY <1>1, <1>2 DEF Members
<1>5. /\ k.sent = sent
      /\ k.life = s.k.life /\ k.open = s.k.open /\ k.reads = s.k.reads /\ k.asked = s.k.asked /\ k.part = s.k.part
      /\ k.is_reading = s.k.is_reading /\ k.at = s.k.at
      /\ k.task_id = s.k.task_id /\ k.need_read = s.k.need_read /\ k.hook = s.k.hook /\ k.reading = s.k.reading
      /\ k.writes = s.k.writes /\ k.users = s.k.users /\ k.svc = s.k.svc
  BY <1>1 DEF Members
<1> HIDE DEF k
<1>6. Fits(u) /\ u.c = s.c /\ u.k = k /\ u.q = s.q
  <2>1. k.life = "live" /\ k.sent = Append(s.k.sent, s.k.body)
    BY <1>5 DEF Due, Ready, sent
  <2> QED
    BY <1>4, <1>5, <2>1, SentFits
<1> HIDE DEF u
<1>7. s.k.reads > 0
  BY <1>1 DEF Due, Ready, Members
<1>8. /\ Fits(d) /\ Pending(d.c, d.k, d.q) /\ d.c = u.c /\ Lacks(d.c, d.q, "read")
      /\ d.k.svc = u.k.svc /\ d.k.life = "live" /\ d.k.is_reading = u.k.is_reading
      /\ d.k.need_read = u.k.need_read /\ d.k.reading = u.k.reading /\ d.k.hook = u.k.hook /\ d.k.at = u.k.at
  BY <1>5, <1>6, <1>7, DoWriteFits DEF Due, Ready
<1> HIDE DEF d
<1>9. CASE ~d.k.need_read
  BY <1>3, <1>5, <1>6, <1>8, <1>9 DEF Replied, Busy
<1>10. CASE d.k.need_read
  <2>1. s.k.at = "idle" /\ ~Busy(s)
    BY <1>1, <1>5, <1>6, <1>8, <1>10 DEF Due, Ready, Busy, Members
  <2>2. /\ Fits(x) /\ x.c = d.c /\ x.q = d.q /\ x.k.svc = d.k.svc /\ x.k.life = "live" /\ ~x.k.need_read
        /\ x.k.reading = d.k.reading /\ x.k.hook = d.k.hook /\ x.k.at = d.k.at /\ Pending(x.c, x.k, x.q)
    BY <1>8, NeedReadFits
  <2> HIDE DEF x
  <2>3. /\ Fits(y) /\ Armed(y) /\ y.c = x.c /\ y.q = x.q /\ y.k = [x.k EXCEPT !.task_id = x.t.highest + 1]
        /\ Pending(y.c, y.k, y.q)
    BY <2>2, StartDeadlineFits
  <2>4. /\ y.k.svc = x.k.svc /\ y.k.life = x.k.life /\ y.k.need_read = x.k.need_read
        /\ y.k.reading = x.k.reading /\ y.k.hook = x.k.hook /\ y.k.at = x.k.at
    BY <2>2, <2>3 DEF Fits, ServerWorlds, Members
  <2> HIDE DEF y
  <2>5. /\ Fits(z) /\ z.c = y.c /\ z.k.svc = y.k.svc /\ z.k.life = "live" /\ z.k.at = "idle"
        /\ Pending(z.c, z.k, z.q)
    <3>1. /\ y.k.life = "live" /\ ~y.k.reading /\ ~y.k.need_read /\ ~y.k.hook /\ y.k.at = "idle"
          /\ Lacks(y.c, y.q, "read")
      BY <1>5, <1>6, <1>8, <2>1, <2>2, <2>3, <2>4 DEF Due, Ready
    <3> QED
      BY <2>3, <3>1, DoReadFits
  <2> QED
    BY <1>3, <1>5, <1>6, <1>8, <1>10, <2>1, <2>2, <2>3, <2>4, <2>5 DEF Replied
<1> QED
  BY <1>9, <1>10

LEMMA CompleteRequestReplies ==
  ASSUME NEW s, Ready(s), NEW fault
  PROVE  Replied(s, Server!CompleteRequest(s, fault))
<1> DEFINE k == [s.k EXCEPT !.need_after = FALSE, !.hook = FALSE]
           r == [s EXCEPT !.k = k]
<1>1. s \in ServerWorlds /\ s.k \in Members
  BY DEF Ready, ServerWorlds
<1>2. k \in Members
  BY <1>1 DEF Members
<1>3. /\ ~k.hook
      /\ k.life = s.k.life /\ k.open = s.k.open /\ k.reads = s.k.reads /\ k.asked = s.k.asked /\ k.part = s.k.part
      /\ k.is_reading = s.k.is_reading /\ k.is_writing = s.k.is_writing /\ k.body = s.k.body
      /\ k.task_id = s.k.task_id /\ k.completed = s.k.completed /\ k.need_read = s.k.need_read
      /\ k.reading = s.k.reading
      /\ k.writes = s.k.writes /\ k.at = s.k.at /\ k.users = s.k.users /\ k.sent = s.k.sent /\ k.svc = s.k.svc
  BY <1>1 DEF Members
<1>4. Server!CompleteRequest(s, fault)
        = IF r.k.long THEN Server!WriteStream(r, fault) ELSE Server!WriteShort(r)
  <2> DEFINE v == [s EXCEPT !.k.need_after = FALSE, !.k.hook = FALSE]
  <2>1. v = r
    BY <1>1 DEF ServerWorlds
  <2>2. Server!CompleteRequest(s, fault)
          = IF v.k.long THEN Server!WriteStream(v, fault) ELSE Server!WriteShort(v)
    BY DEF Server!CompleteRequest
  <2> HIDE DEF r, v
  <2> QED
    BY <2>1, <2>2
<1> HIDE DEF k
<1>5. r \in ServerWorlds /\ r.c = s.c /\ r.k = k /\ r.q = s.q /\ r.t = s.t /\ r.n = s.n
  BY <1>1, <1>2, MemberSet
<1> HIDE DEF r
<1>6. Apart(r) /\ Tally(r) /\ Timed(r.c, r.k, r.t)
  BY <1>3, <1>5, ApartSame, TallySame DEF Ready, Timed
<1>7. Due(r)
  BY <1>3, <1>5, <1>6 DEF Due, Ready
<1>8. Replied(r, Server!CompleteRequest(s, fault))
  BY <1>4, <1>7, WriteStreamReplies, WriteShortReplies
<1> QED
  BY <1>3, <1>5, <1>8 DEF Replied, Busy

-----------------------------------------------------------------------------
(* A request is handled *)

\* A request was read, and nothing else is under way.
Parsed(s) ==
  /\ Fits(s) /\ Busy(s) /\ Lacks(s.c, s.q, "write")
  /\ s.k.at = "idle" /\ ~s.k.hook /\ s.k.writes = 0 /\ ~s.k.completed
  /\ Len(s.k.sent) = s.k.asked /\ s.k.asked < s.k.reads /\ s.k.part = None

\* What stays as it is while the request is handled.
Still(s) ==
  /\ s \in ServerWorlds /\ Apart(s) /\ Tally(s) /\ NoDeadline(s)
  /\ Single(s.c, s.q) /\ Lacks(s.c, s.q, "start") /\ Lacks(s.c, s.q, "read") /\ Lacks(s.c, s.q, "write")

\* The members of a connection whose request is handled.
Handling(k, n) ==
  /\ k \in Members /\ k.life = "live" /\ k.is_reading /\ ~k.need_read /\ ~k.reading /\ k.writes = 0
  /\ k.at = "idle" /\ ~k.hook /\ ~k.completed /\ k.users = {} /\ k.part = None
  /\ n \in 1 .. MaxReads /\ Len(k.sent) + 1 = n /\ k.asked = n /\ n <= k.reads /\ k.reads <= MaxReads
  /\ \A i \in DOMAIN k.sent : k.sent[i] = i

\* It is answered now.
LEMMA HandlingReady ==
  ASSUME NEW s, Still(s), NEW k, NEW n, Handling(k, n), k.svc = s.k.svc, s.k.life = "live",
         NEW h \in Members,
         h.life = "live", h.is_reading, ~h.need_read, ~h.reading, h.writes = 0, h.at = "idle", h.users = {},
         h.part = None, h.sent = k.sent, h.asked = n, h.body = n, h.reads = k.reads, h.svc = k.svc, NEW fault
  PROVE  LET r == Server!CompleteRequest([s EXCEPT !.k = h], fault)
         IN  /\ Fits(r) /\ Pending(r.c, r.k, r.q) /\ Busy(r) /\ r.c = s.c /\ r.k.svc = s.k.svc
             /\ r.k.at \in {"idle", "threw"}
<1> DEFINE u == [s EXCEPT !.k = h]
           r == Server!CompleteRequest(u, fault)
<1>1. u \in ServerWorlds /\ u.c = s.c /\ u.k = h /\ u.q = s.q /\ u.t = s.t /\ u.n = s.n
  BY MemberSet DEF Still
<1> HIDE DEF u
<1>2. Apart(u) /\ Tally(u) /\ Timed(u.c, u.k, u.t)
  <2>1. Apart(u) /\ Tally(u)
    BY <1>1, ApartSame, TallySame DEF Still
  <2>2. Timed(u.c, u.k, u.t)
    BY <1>1 DEF Still, NoDeadline, Timed
  <2> QED
    BY <2>1, <2>2
<1>3. Ready(u) /\ Busy(u)
  BY <1>1, <1>2 DEF Ready, Still, Handling, Busy
<1>4. Replied(u, r)
  BY <1>3, CompleteRequestReplies
<1> QED
  BY <1>1, <1>3, <1>4 DEF Replied, u

\* It is answered later, or never.
LEMMA HandlingFits ==
  ASSUME NEW s, Still(s), NEW k, NEW n, Handling(k, n), k.svc = s.k.svc, s.k.life = "live",
         NEW h \in Members,
         h.life = "live", h.is_reading, ~h.need_read, ~h.reading, h.writes = 0, h.at \in {"idle", "threw"},
         h.part = None, h.sent = k.sent, h.asked = n, h.reads = k.reads, h.svc = k.svc,
         h.hook => h.need_after /\ ~h.completed /\ \E b \in BOOLEAN : h.users = {[n |-> n, long |-> b]},
         ~h.hook => h.users = {}
  PROVE  LET r == [s EXCEPT !.k = h]
         IN  Fits(r) /\ Pending(r.c, r.k, r.q) /\ Busy(r) /\ r.c = s.c /\ r.k = h /\ r.q = s.q
<1> DEFINE r == [s EXCEPT !.k = h]
<1>1. r \in ServerWorlds /\ r.c = s.c /\ r.k = h /\ r.q = s.q /\ r.t = s.t /\ r.n = s.n
  BY MemberSet DEF Still
<1> HIDE DEF r
<1>2. Apart(r) /\ Tally(r)
  BY <1>1, ApartSame, TallySame DEF Still
<1>3. Timed(r.c, r.k, r.t)
  BY <1>1 DEF Still, NoDeadline, Timed
<1>4. Len(k.sent) \in Nat /\ n \in Nat /\ k.reads \in Nat
  BY DEF Handling, Members
<1>5. Coherent(h)
  BY <1>4 DEF Coherent, Handling
<1>6. QueuedFor(r.c, r.k, r.q) /\ Pending(r.c, r.k, r.q)
  BY <1>1, <1>4, LacksAsks DEF QueuedFor, Pending, Still, Handling
<1> QED
  BY <1>1, <1>2, <1>3, <1>5, <1>6 DEF Fits, Busy, Still, r

LEMMA KindsAre ==
  ASSUME NEW req \in Kinds
  PROVE  /\ req.how \in {"now", "later", "middleware", "invalid", "upgrade"}
         /\ req.close \in BOOLEAN /\ req.long \in BOOLEAN /\ req # None
BY ServerAssumption DEF Server!CrowAssumption, Server!AllKinds, Server!Hows

\* What leaves a handler is caught: the response is a 500 that stays complete.
LEMMA CaughtFits ==
  ASSUME NEW s, Fits(s), Busy(s), Pending(s.c, s.k, s.q), s.k.at \in {"idle", "threw"}, NEW fault
  PROVE  LET r == Server!Caught(s, fault)
         IN  /\ Fits(r) /\ Pending(r.c, r.k, r.q) /\ Busy(r) /\ r.c = s.c /\ r.k.svc = s.k.svc
             /\ r.k.at \in {"idle", "threw"}
<1>1. CASE s.k.at = "threw" /\ fault # "unrouted"
  <2> DEFINE r == [s EXCEPT !.k.at = "idle", !.k.long = FALSE]
             k == [s.k EXCEPT !.at = "idle", !.long = FALSE]
  <2>1. s \in ServerWorlds /\ s.k \in Members
    BY DEF Fits, ServerWorlds
  <2>2. k \in Members
    BY <2>1 DEF Members
  <2>3. /\ k.at = "idle"
        /\ k.life = s.k.life /\ k.open = s.k.open /\ k.reads = s.k.reads /\ k.asked = s.k.asked /\ k.part = s.k.part
        /\ k.is_reading = s.k.is_reading /\ k.is_writing = s.k.is_writing /\ k.need_after = s.k.need_after
        /\ k.task_id = s.k.task_id /\ k.completed = s.k.completed /\ k.hook = s.k.hook /\ k.reading = s.k.reading
        /\ k.writes = s.k.writes /\ k.need_read = s.k.need_read /\ k.users = s.k.users /\ k.sent = s.k.sent
        /\ k.svc = s.k.svc
    BY <2>1 DEF Members
  <2>4. r = [s EXCEPT !.k = k]
    BY <2>1 DEF ServerWorlds
  <2>5. Server!Caught(s, fault) = r
    BY <1>1 DEF Server!Caught
  <2> HIDE DEF k, r
  <2>6. r \in ServerWorlds /\ r.c = s.c /\ r.k = k /\ r.q = s.q /\ r.t = s.t /\ r.n = s.n
    BY <2>1, <2>2, <2>4, MemberSet
  <2>7. Coherent(k)
    BY <2>3 DEF Fits, Coherent, Idle
  <2>8. QueuedFor(s.c, k, s.q) /\ Pending(s.c, k, s.q)
    BY <2>3, AsksSame DEF Fits, QueuedFor, Pending, Busy
  <2>9. Timed(s.c, k, s.t)
    BY <2>3 DEF Fits, Timed
  <2>10. Apart(r) /\ Tally(r)
    BY <2>3, <2>6, ApartSame, TallySame DEF Fits
  <2>11. Fits(r) /\ Busy(r)
    BY <2>3, <2>6, <2>7, <2>8, <2>9, <2>10 DEF Fits, Busy
  <2> QED
    BY <2>3, <2>5, <2>6, <2>8, <2>11
<1>2. CASE ~(s.k.at = "threw" /\ fault # "unrouted")
  <2>1. Server!Caught(s, fault) = s
    BY <1>2 DEF Server!Caught
  <2> QED
    BY <2>1
<1> QED
  BY <1>1, <1>2

LEMMA HandleFits ==
  ASSUME NEW s, Parsed(s), NEW req \in Kinds, NEW fault
  PROVE  LET r == Server!Handle(s, req, fault)
         IN  /\ Fits(r) /\ Pending(r.c, r.k, r.q) /\ Busy(r) /\ r.c = s.c /\ r.k.svc = s.k.svc
             /\ r.k.at \in {"idle", "threw"}
<1> DEFINE n == s.k.asked + 1
           u == Server!Cancel(s)
           k == [s.k EXCEPT !.asked = n]
           v == [u EXCEPT !.k = k]
           g == [k EXCEPT !.close = req.close, !.need_after = FALSE]
           w == [u EXCEPT !.k = g]
           Done(r) == /\ Fits(r) /\ Pending(r.c, r.k, r.q) /\ Busy(r) /\ r.c = s.c /\ r.k.svc = s.k.svc
                      /\ r.k.at \in {"idle", "threw"}
<1>1. s \in ServerWorlds /\ s.k \in Members
  BY DEF Parsed, Fits, ServerWorlds
<1>2. n \in Nat /\ n \in 1 .. MaxReads /\ n \in 0 .. MaxReads
  <2>1. s.k.asked \in Nat /\ s.k.reads \in Nat /\ s.k.asked < s.k.reads /\ s.k.reads <= MaxReads /\ MaxReads \in Nat
    BY <1>1, ServerAssumption DEF Server!CrowAssumption, Parsed, Fits, Coherent, Members
  <2> QED
    BY <2>1
<1>3. u \in ServerWorlds /\ u.c = s.c /\ u.k = s.k /\ u.q = s.q /\ u.n = s.n
  BY <1>1, CancelIs
<1>4. Still(u)
  <2>1. Apart(u) /\ NoDeadline(u)
    BY <1>1, CancelFits DEF Parsed, Fits
  <2>2. Tally(u)
    BY <1>3, TallySame DEF Parsed, Fits
  <2>3. Lacks(u.c, u.q, "start") /\ Lacks(u.c, u.q, "read") /\ Lacks(u.c, u.q, "write") /\ Single(u.c, u.q)
    BY <1>3 DEF Parsed, Busy, Fits, QueuedFor
  <2> QED
    BY <1>3, <2>1, <2>2, <2>3 DEF Still
<1>5. /\ k \in Members /\ k.asked = n
      /\ k.life = s.k.life /\ k.open = s.k.open /\ k.reads = s.k.reads /\ k.part = s.k.part
      /\ k.is_reading = s.k.is_reading /\ k.completed = s.k.completed /\ k.need_read = s.k.need_read
      /\ k.hook = s.k.hook /\ k.reading = s.k.reading
      /\ k.writes = s.k.writes /\ k.at = s.k.at /\ k.users = s.k.users /\ k.sent = s.k.sent /\ k.svc = s.k.svc
  BY <1>1, <1>2 DEF Members
<1>6. Handling(k, n)
  <2>1. s.k.users = {} /\ (\A i \in DOMAIN s.k.sent : s.k.sent[i] = i) /\ s.k.reads <= MaxReads /\ s.k.life = "live"
    BY DEF Parsed, Fits, Coherent, Busy
  <2>2. Len(s.k.sent) + 1 = n /\ n <= s.k.reads
    BY <1>1 DEF Parsed, Members
  <2> QED
    BY <1>2, <1>5, <2>1, <2>2 DEF Handling, Parsed, Busy
<1>7. k.svc = u.k.svc /\ u.k.life = "live" /\ k.life = "live"
  BY <1>3, <1>5, <1>6 DEF Handling
<1>8. req.close \in BOOLEAN /\ req.long \in BOOLEAN /\ req.how \in {"now", "later", "middleware", "invalid", "upgrade"}
  BY KindsAre
<1>9. /\ g \in Members /\ g.asked = n /\ g.reads = k.reads /\ g.life = k.life /\ g.part = k.part /\ g.completed = k.completed
      /\ g.is_reading = k.is_reading /\ g.need_read = k.need_read /\ g.hook = k.hook /\ g.reading = k.reading
      /\ g.writes = k.writes /\ g.at = k.at /\ g.users = k.users /\ g.sent = k.sent /\ g.svc = k.svc
  <2> HIDE DEF k
  <2> QED
    BY <1>5, <1>8, ZenonT(60) DEF Members
<1>10. Server!Handle(s, req, fault) =
         CASE fault = "endpoint" -> [v EXCEPT !.k.at = "threw", !.k.lost = TRUE]
           [] fault # "endpoint" /\ req.how = "upgrade" -> [v EXCEPT !.k.close = TRUE, !.k.open = FALSE]
           [] fault # "endpoint" /\ req.how = "invalid" ->
                Server!CompleteRequest([w EXCEPT !.k.completed = FALSE, !.k.body = n, !.k.long = FALSE], fault)
           [] OTHER -> Server!Answer(w, n, req, fault)
  <2> DEFINE a == [u EXCEPT !.k.asked = n]
             b == [a EXCEPT !.k.close = req.close, !.k.need_after = FALSE]
  <2>1. a = v
    BY <1>3 DEF ServerWorlds
  <2>2. b = w
    <3>1. v \in ServerWorlds /\ v.k = k
      <4> HIDE DEF k
      <4> QED
        BY <1>3, <1>5, MemberSet
    <3>2. b = [v EXCEPT !.k = g]
      <4> HIDE DEF v, k
      <4> QED
        BY <2>1, <3>1 DEF ServerWorlds
    <3> QED
      BY <3>2
  <2>3. Server!Handle(s, req, fault) =
         CASE fault = "endpoint" -> [a EXCEPT !.k.at = "threw", !.k.lost = TRUE]
           [] fault # "endpoint" /\ req.how = "upgrade" -> [a EXCEPT !.k.close = TRUE, !.k.open = FALSE]
           [] fault # "endpoint" /\ req.how = "invalid" ->
                Server!CompleteRequest([b EXCEPT !.k.completed = FALSE, !.k.body = n, !.k.long = FALSE], fault)
           [] OTHER -> Server!Answer(b, n, req, fault)
    BY DEF Server!Handle
  <2> HIDE DEF a, b, v, w, n
  <2> QED
    BY <2>1, <2>2, <2>3
<1> HIDE DEF n, u, k, g
<1>11. v \in ServerWorlds /\ v.k = k /\ w \in ServerWorlds /\ w.k = g
  BY <1>3, <1>5, <1>9, MemberSet
<1>12. CASE fault = "endpoint"
  <2> DEFINE h == [k EXCEPT !.at = "threw", !.lost = TRUE]
  <2>1. [v EXCEPT !.k.at = "threw", !.k.lost = TRUE] = [u EXCEPT !.k = h]
    BY <1>3, <1>5 DEF ServerWorlds
  <2>2. /\ h \in Members /\ h.at = "threw"
        /\ h.asked = k.asked /\ h.reads = k.reads /\ h.life = k.life /\ h.part = k.part
        /\ h.is_reading = k.is_reading /\ h.need_read = k.need_read /\ h.hook = k.hook /\ h.reading = k.reading
        /\ h.writes = k.writes /\ h.users = k.users /\ h.sent = k.sent /\ h.svc = k.svc
    BY <1>5 DEF Members
  <2> HIDE DEF h
  <2>3. Done([u EXCEPT !.k = h])
    <3>1. LET r == [u EXCEPT !.k = h]
          IN  Fits(r) /\ Pending(r.c, r.k, r.q) /\ Busy(r) /\ r.c = u.c /\ r.k = h /\ r.q = u.q
      <4>1. /\ h.life = "live" /\ h.is_reading /\ ~h.need_read /\ ~h.reading /\ h.writes = 0
            /\ h.at \in {"idle", "threw"} /\ h.part = None /\ h.sent = k.sent /\ h.asked = n /\ h.reads = k.reads
            /\ h.svc = k.svc /\ ~h.hook /\ h.users = {}
        BY <1>6, <2>2 DEF Handling
      <4> QED
        BY <1>4, <1>6, <1>7, <2>2, <4>1, HandlingFits
    <3> QED
      BY <1>3, <1>5, <2>2, <3>1
  <2> QED
    BY <1>10, <1>12, <2>1, <2>3
<1>13. CASE fault # "endpoint" /\ req.how = "upgrade"
  <2> DEFINE h == [k EXCEPT !.close = TRUE, !.open = FALSE]
  <2>1. [v EXCEPT !.k.close = TRUE, !.k.open = FALSE] = [u EXCEPT !.k = h]
    BY <1>3, <1>5 DEF ServerWorlds
  <2>2. /\ h \in Members /\ h.at = k.at
        /\ h.asked = k.asked /\ h.reads = k.reads /\ h.life = k.life /\ h.part = k.part
        /\ h.is_reading = k.is_reading /\ h.need_read = k.need_read /\ h.hook = k.hook /\ h.reading = k.reading
        /\ h.writes = k.writes /\ h.users = k.users /\ h.sent = k.sent /\ h.svc = k.svc
    BY <1>5 DEF Members
  <2> HIDE DEF h
  <2>3. Done([u EXCEPT !.k = h])
    <3>1. LET r == [u EXCEPT !.k = h]
          IN  Fits(r) /\ Pending(r.c, r.k, r.q) /\ Busy(r) /\ r.c = u.c /\ r.k = h /\ r.q = u.q
      <4>1. /\ h.life = "live" /\ h.is_reading /\ ~h.need_read /\ ~h.reading /\ h.writes = 0
            /\ h.at \in {"idle", "threw"} /\ h.part = None /\ h.sent = k.sent /\ h.asked = n /\ h.reads = k.reads
            /\ h.svc = k.svc /\ ~h.hook /\ h.users = {}
        BY <1>6, <2>2 DEF Handling
      <4> QED
        BY <1>4, <1>6, <1>7, <2>2, <4>1, HandlingFits
    <3> QED
      BY <1>3, <1>5, <1>6, <2>2, <3>1 DEF Handling
  <2> QED
    BY <1>10, <1>13, <2>1, <2>3
<1> DEFINE full(x) == [g EXCEPT !.completed = TRUE, !.body = n, !.long = x]
<1>14. ASSUME NEW h \in Members, h.asked = g.asked, h.body = n, h.reads = g.reads, h.life = g.life, h.part = g.part,
              h.is_reading = g.is_reading, h.need_read = g.need_read, h.reading = g.reading,
              h.writes = g.writes, h.at = g.at, h.users = g.users, h.sent = g.sent, h.svc = g.svc
       PROVE  Done(Server!CompleteRequest([u EXCEPT !.k = h], fault))
  <2>1. /\ h.life = "live" /\ h.is_reading /\ ~h.need_read /\ ~h.reading /\ h.writes = 0 /\ h.at = "idle" /\ h.users = {}
        /\ h.part = None /\ h.sent = k.sent /\ h.asked = n /\ h.reads = k.reads /\ h.svc = k.svc
    BY <1>6, <1>9, <1>14 DEF Handling
  <2>2. LET r == Server!CompleteRequest([u EXCEPT !.k = h], fault)
        IN  /\ Fits(r) /\ Pending(r.c, r.k, r.q) /\ Busy(r) /\ r.c = u.c /\ r.k.svc = u.k.svc
            /\ r.k.at \in {"idle", "threw"}
    BY <1>4, <1>6, <1>7, <1>14, <2>1, HandlingReady
  <2> QED
    BY <1>3, <2>2
<1>15. CASE fault # "endpoint" /\ req.how = "invalid"
  <2> DEFINE h == [g EXCEPT !.completed = FALSE, !.body = n, !.long = FALSE]
  <2>1. [w EXCEPT !.k.completed = FALSE, !.k.body = n, !.k.long = FALSE] = [u EXCEPT !.k = h]
    BY <1>3, <1>9 DEF ServerWorlds
  <2>2. /\ h \in Members /\ h.body = n
        /\ h.asked = g.asked /\ h.reads = g.reads /\ h.life = g.life /\ h.part = g.part
        /\ h.is_reading = g.is_reading /\ h.need_read = g.need_read /\ h.reading = g.reading
        /\ h.writes = g.writes /\ h.at = g.at /\ h.users = g.users /\ h.sent = g.sent /\ h.svc = g.svc
    BY <1>2, <1>9, ZenonT(60) DEF Members
  <2> HIDE DEF h
  <2>3. Done(Server!CompleteRequest([u EXCEPT !.k = h], fault))
    BY <1>14, <2>2
  <2> QED
    BY <1>10, <1>15, <2>1, <2>3
<1>16. CASE fault # "endpoint" /\ req.how \in {"now", "later", "middleware"}
  <2>1. Server!Handle(s, req, fault) = Server!Answer(w, n, req, fault)
    BY <1>10, <1>16
  <2>2. ~w.k.completed
    BY <1>6, <1>9, <1>11 DEF Handling
  <2>3. CASE req.how = "middleware"
    <3> DEFINE h == [g EXCEPT !.completed = TRUE, !.body = n, !.long = req.long]
    <3>1. [w EXCEPT !.k.completed = TRUE, !.k.body = n, !.k.long = req.long] = [u EXCEPT !.k = h]
      BY <1>3, <1>9 DEF ServerWorlds
    <3>2. /\ h \in Members /\ h.body = n
          /\ h.asked = g.asked /\ h.reads = g.reads /\ h.life = g.life /\ h.part = g.part
          /\ h.is_reading = g.is_reading /\ h.need_read = g.need_read /\ h.reading = g.reading
          /\ h.writes = g.writes /\ h.at = g.at /\ h.users = g.users /\ h.sent = g.sent /\ h.svc = g.svc
      BY <1>2, <1>8, <1>9, ZenonT(60) DEF Members
    <3> HIDE DEF h
    <3>3. Done(Server!CompleteRequest([u EXCEPT !.k = h], fault))
      BY <1>14, <3>2
    <3>4. Server!Answer(w, n, req, fault)
            = Server!CompleteRequest([w EXCEPT !.k.completed = TRUE, !.k.body = n, !.k.long = req.long], fault)
      <4> HIDE DEF w
      <4> QED
        BY <2>2, <2>3 DEF Server!Answer
    <3> QED
      BY <2>1, <3>1, <3>3, <3>4
  <2>4. CASE req.how = "now"
    <3> DEFINE e == [w EXCEPT !.k.hook = TRUE, !.k.need_after = TRUE]
               f == [e EXCEPT !.k.completed = TRUE, !.k.body = n, !.k.long = req.long]
               h == [g EXCEPT !.hook = TRUE, !.need_after = TRUE, !.completed = TRUE, !.body = n, !.long = req.long]
               x == [g EXCEPT !.hook = TRUE, !.need_after = TRUE]
    <3>1. e = [u EXCEPT !.k = x]
      BY <1>3, <1>9 DEF ServerWorlds
    <3>2. x \in Members /\ x.hook /\ x.completed = g.completed
      BY <1>9 DEF Members
    <3>3. h = [x EXCEPT !.completed = TRUE, !.body = n, !.long = req.long]
      OBVIOUS
    <3>4. e \in ServerWorlds /\ e.k = x
      <4> HIDE DEF x, e
      <4> QED
        BY <1>3, <3>1, <3>2, MemberSet
    <3>5. f = [u EXCEPT !.k = h]
      <4> HIDE DEF x, h
      <4>1. f = [e EXCEPT !.k = h]
        <5> HIDE DEF e
        <5> QED
          BY <3>3, <3>4 DEF ServerWorlds
      <4> HIDE DEF e, f
      <4> QED
        BY <3>1, <4>1
    <3>6. /\ h \in Members /\ h.body = n
          /\ h.asked = g.asked /\ h.reads = g.reads /\ h.life = g.life /\ h.part = g.part
          /\ h.is_reading = g.is_reading /\ h.need_read = g.need_read /\ h.reading = g.reading
          /\ h.writes = g.writes /\ h.at = g.at /\ h.users = g.users /\ h.sent = g.sent /\ h.svc = g.svc
      BY <1>2, <1>8, <1>9, ZenonT(60) DEF Members
    <3>7. Server!Answer(w, n, req, fault) = Server!Caught(Server!CompleteRequest(f, fault), fault)
      <4>1. Server!Answer(w, n, req, fault) = Server!Caught(Server!End(e, n, req.long, fault), fault)
        <5> HIDE DEF w
        <5> QED
          BY <2>2, <2>4 DEF Server!Answer
      <4>2. e.k.hook /\ ~e.k.completed /\ f.k.hook
        <5>1. h.hook
          BY <1>9 DEF Members
        <5> HIDE DEF x, h, e, f
        <5>2. f.k = h
          BY <1>3, <3>5, <3>6, MemberSet
        <5> QED
          BY <1>6, <1>9, <3>2, <3>4, <5>1, <5>2 DEF Handling
      <4> HIDE DEF e
      <4> QED
        BY <4>1, <4>2 DEF Server!End
    <3> HIDE DEF h, f
    <3>8. Done(Server!CompleteRequest([u EXCEPT !.k = h], fault))
      BY <1>14, <3>6
    <3> DEFINE z == Server!CompleteRequest([u EXCEPT !.k = h], fault)
    <3>9. Done(Server!Caught(z, fault))
      <4>1. Done(z)
        BY <3>8
      <4> HIDE DEF z
      <4> QED
        BY <4>1, CaughtFits
    <3> QED
      BY <2>1, <3>5, <3>7, <3>9
  <2>5. CASE req.how = "later"
    <3> DEFINE us == {[n |-> n, long |-> req.long]}
               h == [g EXCEPT !.hook = TRUE, !.need_after = TRUE, !.users = us]
    <3>1. Server!Answer(w, n, req, fault) = [u EXCEPT !.k = h]
      <4>1. Server!Answer(w, n, req, fault)
              = [w EXCEPT !.k.hook = TRUE, !.k.need_after = TRUE, !.k.users = w.k.users \cup us]
        <5> HIDE DEF w
        <5> QED
          BY <1>11, <2>2, <2>5 DEF Server!Answer, ServerWorlds
      <4>2. w.k.users \cup us = us
        BY <1>6, <1>9, <1>11 DEF Handling
      <4> HIDE DEF us
      <4>3. [w EXCEPT !.k.hook = TRUE, !.k.need_after = TRUE, !.k.users = us] = [u EXCEPT !.k = h]
        BY <1>3, <1>9 DEF ServerWorlds
      <4> QED
        BY <4>1, <4>2, <4>3
    <3>2. us \in SUBSET [n : 1 .. MaxReads, long : BOOLEAN]
      BY <1>2, <1>8
    <3>3. \E b \in BOOLEAN : us = {[n |-> n, long |-> b]}
      BY <1>8
    <3> HIDE DEF us
    <3>4. /\ h \in Members /\ h.hook /\ h.need_after /\ h.users = us
          /\ h.asked = g.asked /\ h.reads = g.reads /\ h.life = g.life /\ h.part = g.part
          /\ h.is_reading = g.is_reading /\ h.need_read = g.need_read /\ h.reading = g.reading /\ h.completed = g.completed
          /\ h.writes = g.writes /\ h.at = g.at /\ h.sent = g.sent /\ h.svc = g.svc
      BY <1>9, <3>2 DEF Members
    <3> HIDE DEF h
    <3>5. Done([u EXCEPT !.k = h])
      <4>1. /\ h.life = "live" /\ h.is_reading /\ ~h.need_read /\ ~h.reading /\ h.writes = 0 /\ h.at = "idle"
            /\ h.part = None /\ h.sent = k.sent /\ h.asked = n /\ h.reads = k.reads /\ h.svc = k.svc /\ ~h.completed
        BY <1>6, <1>9, <3>4 DEF Handling
      <4>2. LET r == [u EXCEPT !.k = h]
            IN  Fits(r) /\ Pending(r.c, r.k, r.q) /\ Busy(r) /\ r.c = u.c /\ r.k = h /\ r.q = u.q
        BY <1>4, <1>6, <1>7, <3>3, <3>4, <4>1, HandlingFits
      <4> QED
        BY <1>3, <1>5, <3>4, <4>1, <4>2
    <3> QED
      BY <2>1, <3>1, <3>5
  <2> QED
    BY <1>16, <2>3, <2>4, <2>5
<1> QED
  BY <1>8, <1>12, <1>13, <1>15, <1>16

\* The parser is fed with what was read.
LEMMA FeedFits ==
  ASSUME NEW s, Fits(s), Busy(s), Pending(s.c, s.k, s.q), s.k.at = "idle", ~s.k.hook, NEW what, NEW req, NEW fault,
         what \in Server!Parts =>
           /\ s.k.writes = 0 /\ Len(s.k.sent) = s.k.asked /\ s.k.reads > 0 /\ ~s.k.completed
           /\ Lacks(s.c, s.q, "write") /\ req \in Kinds /\ (what = "whole" => req.expect = "no")
           /\ what # "head" => s.k.part = None /\ s.k.asked < s.k.reads
  PROVE  LET r == Server!Feed(s, what, req, fault)
         IN  /\ Fits(r) /\ Pending(r.c, r.k, r.q) /\ Busy(r) /\ r.c = s.c /\ r.k.svc = s.k.svc
             /\ r.k.at \in {"idle", "threw"}
<1> DEFINE r == Server!Feed(s, what, req, fault)
           Done == /\ Fits(r) /\ Pending(r.c, r.k, r.q) /\ Busy(r) /\ r.c = s.c /\ r.k.svc = s.k.svc
                   /\ r.k.at \in {"idle", "threw"}
<1>1. CASE what \in {"whole", "rest"}
  <2>1. what \in Server!Parts /\ what # "head"
    BY <1>1 DEF Server!Parts
  <2>2. Parsed(s) /\ req \in Kinds
    BY <2>1 DEF Parsed
  <2>3. r = Server!Handle(s, req, fault)
    BY <1>1, <2>1 DEF Server!Feed, Server!HandleHeader
  <2> QED
    BY <2>2, <2>3, HandleFits
<1>2. CASE what = "head" /\ req.expect # "no"
  <2>1. r = Server!DoWrite(s)
    BY <1>2 DEF Server!Feed, Server!HandleHeader
  <2>2. what \in Server!Parts
    BY <1>2 DEF Server!Parts
  <2> HIDE DEF r
  <2>3. s.k.life = "live" /\ Lacks(s.c, s.q, "read")
    BY DEF Busy
  <2>4. /\ Fits(r) /\ Pending(r.c, r.k, r.q) /\ r.c = s.c /\ Lacks(r.c, r.q, "read")
        /\ r.k.svc = s.k.svc /\ r.k.life = "live" /\ r.k.is_reading = s.k.is_reading
        /\ r.k.need_read = s.k.need_read /\ r.k.reading = s.k.reading /\ r.k.at = s.k.at
    BY <2>1, <2>2, <2>3, DoWriteFits
  <2>5. Done
    BY <2>3, <2>4 DEF Busy
  <2> QED
    BY <2>5 DEF r
<1>3. CASE what \notin Server!Parts \/ (what = "head" /\ req.expect = "no")
  <2>1. r = s
    BY <1>3 DEF Server!Feed, Server!Parts, Server!HandleHeader
  <2> QED
    BY <2>1
<1> QED
  BY <1>1, <1>2, <1>3 DEF Server!Parts

-----------------------------------------------------------------------------
(* The invariant *)

\* The deadlines of a worker and its handlers are those of its connections.
WorkerInv(w, cn, tm, qs, ld) ==
  /\ \A i \in DOMAIN qs[w] : qs[w][i].c # None => cn[qs[w][i].c].svc = w
  /\ \A x \in tm[w].tasks : x.id \in 1 .. tm[w].highest /\ cn[x.owner].svc = w
  /\ ld[w] = Cardinality({d \in Conns : Counts(cn, d, w)})

ConnInv(c, cn, tm, qs, next) ==
  /\ cn[c].at # "threw" /\ Coherent(cn[c])
  /\ LET w == cn[c].svc
     IN  QueuedFor(c, cn[c], qs[w]) /\ Pending(c, cn[c], qs[w]) /\ Timed(c, cn[c], tm[w])
  /\ cn[c].life = "accepting" <=> next = c

InvOf(cn, tm, qs, ld, next) ==
  /\ cn \in [Conns -> Members] /\ tm \in [Server!Workers -> Timers]
  /\ qs \in [Server!Workers -> Seq(Handlers)] /\ ld \in [Server!Workers -> Int]
  /\ next \in Conns \cup {None}
  /\ \A w \in Server!Workers : WorkerInv(w, cn, tm, qs, ld)
  /\ \A c \in Conns : ConnInv(c, cn, tm, qs, next)

ServerInv == InvOf(conn, timer, jobs, load, accepting)

\* Between two handlers a connection fits.
LEMMA WorldFits ==
  ASSUME ServerInv, NEW c \in Conns
  PROVE  LET s == Server!World(c)
         IN  /\ Fits(s) /\ Pending(s.c, s.k, s.q) /\ s.c = c /\ s.k = conn[c] /\ s.t = timer[conn[c].svc]
             /\ s.q = jobs[conn[c].svc] /\ s.n = load[conn[c].svc]
<1> DEFINE s == Server!World(c)
           w == conn[c].svc
<1>1. s = [c |-> c, k |-> conn[c], t |-> timer[w], q |-> jobs[w], n |-> load[w]]
  BY DEF Server!World
<1>2. s.c = c /\ s.k = conn[c] /\ s.t = timer[w] /\ s.q = jobs[w] /\ s.n = load[w]
  BY <1>1
<1>3. /\ ConnInv(c, conn, timer, jobs, accepting) /\ conn[c] \in Members /\ w \in Server!Workers
      /\ WorkerInv(w, conn, timer, jobs, load) /\ timer[w] \in Timers /\ jobs[w] \in Seq(Handlers) /\ load[w] \in Int
  <2>1. conn[c] \in Members
    BY DEF ServerInv, InvOf
  <2>2. w \in Server!Workers
    BY <2>1 DEF Members
  <2> QED
    BY <2>1, <2>2 DEF ServerInv, InvOf
<1>4. IsFiniteSet(Conns)
  BY ServerAssumption, SameCount DEF Server!CrowAssumption
<1> DEFINE all == {d \in Conns : Counts(conn, d, w)}
           rest == {d \in Conns : d # c /\ Counts(conn, d, w)}
<1>5. IsFiniteSet(all) /\ IsFiniteSet(rest) /\ Cardinality(all) \in Nat /\ Cardinality(rest) \in Nat
  BY <1>4, FS_Subset, FS_CardinalityType
<1>7. s \in ServerWorlds
  BY <1>1, <1>3 DEF ServerWorlds
<1>8. Apart(s)
  <2>1. \A d \in Conns : d # s.c /\ conn[d].svc = s.k.svc =>
          QueuedFor(d, conn[d], s.q) /\ Pending(d, conn[d], s.q) /\ Timed(d, conn[d], s.t)
    BY <1>2 DEF ServerInv, InvOf, ConnInv
  <2>2. \A i \in DOMAIN s.q : s.q[i].c \notin {None, s.c} => conn[s.q[i].c].svc = s.k.svc
    BY <1>2, <1>3 DEF WorkerInv
  <2> QED
    BY <1>2, <1>3, <2>1, <2>2 DEF Apart, WorkerInv
<1>9. Tally(s)
  <2>1. CASE conn[c].life \in Counted
    <3>1. all = rest \cup {c} /\ c \notin rest
      BY <2>1 DEF Counts
    <3>2. Cardinality(all) = Cardinality(rest) + 1
      <4> HIDE DEF all, rest
      <4> QED
        BY <1>5, <3>1, FS_AddElement
    <3> QED
      BY <1>2, <1>3, <2>1, <3>2 DEF Tally, WorkerInv
  <2>2. CASE conn[c].life \notin Counted
    <3>1. all = rest
      BY <2>2 DEF Counts
    <3>2. load[w] = Cardinality(all)
      BY <1>3 DEF WorkerInv
    <3> DEFINE m == Cardinality(rest)
    <3>3. load[w] = m /\ m \in Nat
      BY <1>5, <3>1, <3>2
    <3> HIDE DEF m
    <3>4. load[w] = m + 0
      BY <3>3
    <3> QED
      BY <1>2, <2>2, <3>4 DEF Tally, m
  <2> QED
    BY <2>1, <2>2
<1> QED
  BY <1>2, <1>3, <1>7, <1>8, <1>9 DEF Fits, ConnInv

\* A connection that fits keeps the invariant.
LEMMA FitsKeeps ==
  ASSUME ServerInv, NEW s, Fits(s), Pending(s.c, s.k, s.q), s.k.svc = conn[s.c].svc, s.k.at # "threw",
         NEW cn, NEW tm, NEW qs, NEW ld, NEW next \in Conns \cup {None},
         cn = [conn EXCEPT ![s.c] = s.k], tm = [timer EXCEPT ![s.k.svc] = s.t],
         qs = [jobs EXCEPT ![s.k.svc] = s.q], ld = [load EXCEPT ![s.k.svc] = s.n],
         s.k.life = "accepting" <=> next = s.c,
         \A d \in Conns : d # s.c => (next = d <=> accepting = d)
  PROVE  InvOf(cn, tm, qs, ld, next)
<1> DEFINE c == s.c
           w == s.k.svc
<1>1. /\ s \in ServerWorlds /\ c \in Conns /\ s.k \in Members /\ s.t \in Timers /\ s.q \in Seq(Handlers)
      /\ w \in Server!Workers /\ s.n \in Int
  BY DEF Fits, ServerWorlds, Members
<1>2. /\ conn \in [Conns -> Members] /\ timer \in [Server!Workers -> Timers]
      /\ jobs \in [Server!Workers -> Seq(Handlers)] /\ load \in [Server!Workers -> Int]
  BY DEF ServerInv, InvOf
<1>3. /\ cn \in [Conns -> Members] /\ tm \in [Server!Workers -> Timers]
      /\ qs \in [Server!Workers -> Seq(Handlers)] /\ ld \in [Server!Workers -> Int]
  BY <1>1, <1>2
<1>4. cn[c] = s.k /\ tm[w] = s.t /\ qs[w] = s.q /\ ld[w] = s.n
  BY <1>1, <1>2
<1>5. \A d \in Conns : d # c => cn[d] = conn[d] /\ (next = d <=> accepting = d)
  BY <1>2
<1>6. \A v \in Server!Workers : v # w => tm[v] = timer[v] /\ qs[v] = jobs[v] /\ ld[v] = load[v]
  BY <1>2
<1>7. conn[c].svc = w /\ s.k.svc = w
  OBVIOUS
<1>8. \A d \in Conns : cn[d].svc = conn[d].svc
  BY <1>4, <1>5, <1>7
<1> HIDE DEF c, w
<1>9. Apart(s) /\ Tally(s) /\ Coherent(s.k) /\ QueuedFor(c, s.k, s.q) /\ Timed(c, s.k, s.t) /\ Pending(c, s.k, s.q)
  BY DEF Fits, c
<1>10. ASSUME NEW v \in Server!Workers
       PROVE  WorkerInv(v, cn, tm, qs, ld)
  <2>1. WorkerInv(v, conn, timer, jobs, load)
    BY DEF ServerInv, InvOf
  <2>2. CASE v # w
    <3>1. tm[v] = timer[v] /\ qs[v] = jobs[v] /\ ld[v] = load[v]
      BY <1>6, <2>2
    <3>2. \A i \in DOMAIN jobs[v] : jobs[v][i] \in Handlers
      BY <1>2
    <3>3. \A i \in DOMAIN jobs[v] : jobs[v][i].c # None => jobs[v][i].c \in Conns
      BY <3>2 DEF Handlers
    <3>4. \A x \in timer[v].tasks : x.owner \in Conns
      BY <1>2 DEF Timers
    <3>5. \A i \in DOMAIN qs[v] : qs[v][i].c # None => cn[qs[v][i].c].svc = v
      BY <1>8, <2>1, <3>1, <3>3 DEF WorkerInv
    <3>6. \A x \in tm[v].tasks : x.id \in 1 .. tm[v].highest /\ cn[x.owner].svc = v
      BY <1>8, <2>1, <3>1, <3>4 DEF WorkerInv
    <3>7. {d \in Conns : Counts(cn, d, v)} = {d \in Conns : Counts(conn, d, v)}
      <4>1. \A d \in Conns : Counts(cn, d, v) <=> Counts(conn, d, v)
        BY <1>5, <1>7, <1>8, <2>2 DEF Counts
      <4> QED
        BY <4>1
    <3> QED
      BY <2>1, <3>1, <3>5, <3>6, <3>7 DEF WorkerInv
  <2>3. CASE v = w
    <3>1. \A i \in DOMAIN s.q : s.q[i] \in Handlers
      BY <1>1
    <3>2. \A i \in DOMAIN s.q : s.q[i].c # None => s.q[i].c \in Conns
      BY <3>1 DEF Handlers
    <3>3. \A i \in DOMAIN s.q : s.q[i].c # None => conn[s.q[i].c].svc = w
      BY <1>7, <1>9 DEF Apart, c
    <3>4. \A i \in DOMAIN qs[v] : qs[v][i].c # None => cn[qs[v][i].c].svc = v
      BY <1>4, <1>8, <2>3, <3>2, <3>3
    <3>5. \A x \in s.t.tasks : x.owner \in Conns
      BY <1>1 DEF Timers
    <3>6. \A x \in s.t.tasks : x.id \in 1 .. s.t.highest /\ conn[x.owner].svc = w
      BY <1>7, <1>9 DEF Apart, c
    <3>7. \A x \in tm[v].tasks : x.id \in 1 .. tm[v].highest /\ cn[x.owner].svc = v
      BY <1>4, <1>8, <2>3, <3>5, <3>6
    <3> DEFINE rest == {d \in Conns : d # c /\ Counts(conn, d, w)}
               all == {d \in Conns : Counts(cn, d, w)}
    <3>8. IsFiniteSet(rest)
      BY ServerAssumption, SameCount, FS_Subset DEF Server!CrowAssumption
    <3>9. s.n = Cardinality(rest) + (IF s.k.life \in Counted THEN 1 ELSE 0) /\ Cardinality(rest) \in Nat
      BY <1>9, <3>8, FS_CardinalityType DEF Tally, c, w
    <3>10. \A d \in Conns : Counts(cn, d, w) <=> IF d = c THEN s.k.life \in Counted ELSE Counts(conn, d, w)
      BY <1>4, <1>5, <1>7, <1>8 DEF Counts
    <3>11. c \in Conns
      BY <1>1
    <3>12. s.n = Cardinality(all)
      <4>1. CASE s.k.life \in Counted
        <5>1. all = rest \cup {c} /\ c \notin rest
          BY <3>10, <3>11, <4>1
        <5> HIDE DEF all, rest
        <5>2. Cardinality(all) = Cardinality(rest) + 1
          BY <3>8, <5>1, FS_AddElement
        <5> QED
          BY <3>9, <4>1, <5>2
      <4>2. CASE s.k.life \notin Counted
        <5>1. all = rest
          BY <3>10, <3>11, <4>2
        <5> DEFINE m == Cardinality(rest)
        <5>2. s.n = m + 0 /\ m \in Nat
          BY <3>9, <4>2
        <5>3. Cardinality(all) = m
          BY <5>1
        <5> HIDE DEF m, all
        <5> QED
          BY <5>2, <5>3
      <4> QED
        BY <4>1, <4>2
    <3> QED
      BY <1>4, <2>3, <3>4, <3>7, <3>12 DEF WorkerInv
  <2> QED
    BY <2>2, <2>3
<1>11. ASSUME NEW d \in Conns
       PROVE  ConnInv(d, cn, tm, qs, next)
  <2>1. ConnInv(d, conn, timer, jobs, accepting) /\ conn[d].svc \in Server!Workers
    BY <1>2 DEF ServerInv, InvOf, Members
  <2>2. CASE d = c
    <3>1. (s.k.life = "accepting" <=> next = c) /\ s.k.at # "threw" /\ s.k.svc = w
      BY DEF c, w
    <3> QED
      BY <1>4, <1>9, <2>2, <3>1 DEF ConnInv
  <2>3. CASE d # c /\ conn[d].svc = w
    <3>1. QueuedFor(d, conn[d], s.q) /\ Pending(d, conn[d], s.q) /\ Timed(d, conn[d], s.t)
      BY <1>9, <2>3 DEF Apart, c, w
    <3> QED
      BY <1>4, <1>5, <2>1, <2>3, <3>1 DEF ConnInv
  <2>4. CASE d # c /\ conn[d].svc # w
    BY <1>5, <1>6, <2>1, <2>4 DEF ConnInv
  <2> QED
    BY <2>2, <2>3, <2>4
<1> QED
  BY <1>3, <1>10, <1>11 DEF InvOf

LEMMA BecomesKeeps ==
  ASSUME ServerInv, NEW s, Fits(s), Pending(s.c, s.k, s.q), s.k.svc = conn[s.c].svc, s.k.at # "threw",
         s.k.life # "accepting", conn[s.c].life # "accepting", Server!Becomes(s), accepting' = accepting
  PROVE  ServerInv'
<1>1. s.c \in Conns
  BY DEF Fits, ServerWorlds
<1>2. accepting # s.c /\ accepting \in Conns \cup {None}
  BY <1>1 DEF ServerInv, InvOf, ConnInv
<1>3. /\ conn' = [conn EXCEPT ![s.c] = s.k] /\ timer' = [timer EXCEPT ![s.k.svc] = s.t]
      /\ jobs' = [jobs EXCEPT ![s.k.svc] = s.q] /\ load' = [load EXCEPT ![s.k.svc] = s.n]
  BY DEF Server!Becomes
<1>4. InvOf(conn', timer', jobs', load', accepting')
  BY <1>2, <1>3, FitsKeeps
<1> QED
  BY <1>4 DEF ServerInv

-----------------------------------------------------------------------------
(* Its steps: the handlers of a worker *)

\* What a handler that was taken from the queue works on.
LEMMA RunningIs ==
  ASSUME ServerInv, NEW w \in Server!Workers, NEW op \in {"start", "read", "write"}, Server!Next_(w, op)
  PROVE  LET j == Head(jobs[w])
             s == Server!Running(w)
         IN  /\ j \in Handlers /\ j.op = op /\ j.c \in Conns /\ conn[j.c].svc = w
             /\ s \in ServerWorlds /\ s.c = j.c /\ s.k = conn[j.c] /\ s.q = Tail(jobs[w]) /\ s.n = load[w] /\ s.t = timer[w]
             /\ Apart(s) /\ Tally(s) /\ Timed(s.c, s.k, s.t) /\ Coherent(s.k) /\ s.k.at = "idle"
             /\ QueuedFor(s.c, s.k, jobs[w]) /\ Pending(s.c, s.k, jobs[w]) /\ ~Lacks(s.c, jobs[w], op)
             /\ jobs[w] \in Seq(Handlers) /\ jobs[w] # <<>>
<1> DEFINE j == Head(jobs[w])
           s == Server!Running(w)
           u == Server!World(j.c)
<1>1. jobs[w] # <<>> /\ j.op = op /\ Server!Free(w)
  BY DEF Server!Next_
<1>2. jobs[w] \in Seq(Handlers)
  BY DEF ServerInv, InvOf
<1>3. j \in Handlers /\ jobs[w][1] = j /\ 1 \in DOMAIN jobs[w]
  BY <1>1, <1>2
<1>4. j.c \in Conns /\ j.c # None
  <2>1. None \notin Conns
    BY ServerAssumption DEF Server!CrowAssumption
  <2> QED
    BY <1>1, <1>3, <2>1 DEF Handlers
<1>5. conn[j.c].svc = w
  <2>1. WorkerInv(w, conn, timer, jobs, load)
    BY DEF ServerInv, InvOf
  <2> HIDE DEF j
  <2> QED
    BY <1>3, <1>4, <2>1 DEF WorkerInv
<1>6. /\ Fits(u) /\ Pending(u.c, u.k, u.q) /\ u.c = j.c /\ u.k = conn[j.c] /\ u.t = timer[w]
      /\ u.q = jobs[w] /\ u.n = load[w]
  BY <1>4, <1>5, WorldFits
<1>7. Tail(jobs[w]) \in Seq(Handlers)
  BY <1>1, <1>2
<1>8. s = [u EXCEPT !.q = Tail(jobs[w])]
  BY <1>6 DEF Server!Running
<1> HIDE DEF j, s, u
<1>9. s \in ServerWorlds /\ s.c = j.c /\ s.k = u.k /\ s.q = Tail(jobs[w]) /\ s.n = u.n /\ s.t = u.t
  BY <1>6, <1>7, <1>8 DEF Fits, ServerWorlds
<1>10. Apart(s)
  <2>1. ASSUME NEW d \in Conns, d # s.c, conn[d].svc = s.k.svc
        PROVE  QueuedFor(d, conn[d], s.q) /\ Pending(d, conn[d], s.q) /\ Timed(d, conn[d], s.t)
    <3>1. QueuedFor(d, conn[d], u.q) /\ Pending(d, conn[d], u.q) /\ Timed(d, conn[d], u.t)
      BY <1>6, <1>9, <2>1 DEF Fits, Apart
    <3>2. Moved(d, jobs[w], Tail(jobs[w]), 1)
      BY <1>1, <1>2, <1>9, <2>1, TailMoved DEF j
    <3> QED
      BY <1>2, <1>6, <1>7, <1>9, <3>1, <3>2, QueuedMoved
  <2>2. \A i \in DOMAIN s.q : i + 1 \in DOMAIN jobs[w] /\ s.q[i] = jobs[w][i + 1]
    BY <1>1, <1>2, <1>9
  <2>3. \A i \in DOMAIN jobs[w] : jobs[w][i].c \notin {None, j.c} => conn[jobs[w][i].c].svc = u.k.svc
    BY <1>6 DEF Fits, Apart
  <2>4. \A i \in DOMAIN s.q : s.q[i].c \notin {None, s.c} => conn[s.q[i].c].svc = s.k.svc
    BY <1>9, <2>2, <2>3
  <2> QED
    BY <1>6, <1>9, <2>1, <2>4 DEF Fits, Apart
<1>11. Tally(s)
  BY <1>6, <1>9, TallySame DEF Fits
<1>12. Timed(s.c, s.k, s.t) /\ Coherent(s.k) /\ QueuedFor(s.c, s.k, jobs[w]) /\ Pending(s.c, s.k, jobs[w])
  BY <1>6, <1>9 DEF Fits
<1>13. s.k.at = "idle"
  BY <1>1, <1>4, <1>5, <1>6, <1>9 DEF Server!Free
<1>14. ~Lacks(s.c, jobs[w], op)
  BY <1>1, <1>3, <1>9 DEF Lacks
<1> QED
  BY <1>1, <1>2, <1>3, <1>4, <1>5, <1>6, <1>9, <1>10, <1>11, <1>12, <1>13, <1>14 DEF j, s

LEMMA CancelKeepsFit ==
  ASSUME NEW s, Fits(s), ~s.k.reading
  PROVE  LET r == Server!Cancel(s)
         IN  Fits(r) /\ r.c = s.c /\ r.k = s.k /\ r.q = s.q
<1> DEFINE r == Server!Cancel(s)
<1>1. s \in ServerWorlds
  BY DEF Fits
<1>2. r \in ServerWorlds /\ r.c = s.c /\ r.k = s.k /\ r.q = s.q /\ r.n = s.n
  BY <1>1, CancelIs
<1>3. Apart(r) /\ NoDeadline(r)
  BY <1>1, CancelFits DEF Fits
<1> HIDE DEF r
<1>4. Timed(r.c, r.k, r.t)
  BY <1>2, <1>3 DEF Timed, NoDeadline
<1>5. Tally(r)
  BY <1>2, TallySame DEF Fits
<1> QED
  BY <1>2, <1>3, <1>4, <1>5 DEF Fits, r

LEMMA AtFits ==
  ASSUME NEW s, Fits(s), NEW a \in {"idle", "fed", "tested"}, a = "idle" \/ Busy(s)
  PROVE  LET r == [s EXCEPT !.k.at = a]
         IN  /\ Fits(r) /\ r.c = s.c /\ r.q = s.q /\ r.k.svc = s.k.svc /\ r.k.life = s.k.life /\ r.k.at = a
             /\ Pending(s.c, s.k, s.q) => Pending(r.c, r.k, r.q)
             /\ r.k.reading = s.k.reading /\ r.k.need_read = s.k.need_read /\ r.k.hook = s.k.hook
<1> DEFINE r == [s EXCEPT !.k.at = a]
           k == [s.k EXCEPT !.at = a]
<1>1. s \in ServerWorlds /\ s.k \in Members
  BY DEF Fits, ServerWorlds
<1>2. k \in Members
  BY <1>1 DEF Members
<1>3. /\ k.at = a
      /\ k.life = s.k.life /\ k.open = s.k.open /\ k.reads = s.k.reads /\ k.asked = s.k.asked /\ k.part = s.k.part
      /\ k.is_reading = s.k.is_reading /\ k.is_writing = s.k.is_writing /\ k.need_after = s.k.need_after
      /\ k.task_id = s.k.task_id /\ k.completed = s.k.completed /\ k.hook = s.k.hook /\ k.reading = s.k.reading
      /\ k.writes = s.k.writes /\ k.need_read = s.k.need_read /\ k.users = s.k.users /\ k.sent = s.k.sent
      /\ k.svc = s.k.svc
  BY <1>1 DEF Members
<1>4. r = [s EXCEPT !.k = k]
  BY <1>1 DEF ServerWorlds
<1> HIDE DEF k, r
<1>5. r \in ServerWorlds /\ r.c = s.c /\ r.k = k /\ r.q = s.q /\ r.t = s.t /\ r.n = s.n
  BY <1>1, <1>2, <1>4, MemberSet
<1>6. Coherent(k)
  <2>1. CASE a = "idle"
    BY <1>3, <2>1 DEF Fits, Coherent, Idle
  <2>2. CASE a # "idle" /\ Busy(s)
    BY <1>3, <2>2 DEF Fits, Coherent, Idle, Busy
  <2> QED
    BY <2>1, <2>2
<1>7. QueuedFor(s.c, k, s.q) /\ (Pending(s.c, s.k, s.q) => Pending(s.c, k, s.q))
  BY <1>3, AsksSame DEF Fits, QueuedFor, Pending, Busy
<1>8. Timed(s.c, k, s.t)
  BY <1>3 DEF Fits, Timed
<1>9. Apart(r) /\ Tally(r)
  BY <1>3, <1>5, ApartSame, TallySame DEF Fits
<1> QED
  BY <1>3, <1>5, <1>6, <1>7, <1>8, <1>9 DEF Fits, r

\* No read is under way any more.
LEMMA StopsReading ==
  ASSUME NEW s, Fits(s), s.k.life = "live", s.k.at = "idle", ~s.k.reading, Lacks(s.c, s.q, "read"),
         Pending(s.c, s.k, s.q)
  PROVE  LET r == [s EXCEPT !.k.is_reading = FALSE]
         IN  /\ Fits(r) /\ r.c = s.c /\ r.q = s.q /\ r.k.svc = s.k.svc /\ r.k.life = "live" /\ r.k.at = "idle"
             /\ Pending(r.c, r.k, r.q)
<1> DEFINE r == [s EXCEPT !.k.is_reading = FALSE]
           k == [s.k EXCEPT !.is_reading = FALSE]
<1>1. s \in ServerWorlds /\ s.k \in Members
  BY DEF Fits, ServerWorlds
<1>2. k \in Members
  BY <1>1 DEF Members
<1>3. /\ ~k.is_reading
      /\ k.life = s.k.life /\ k.open = s.k.open /\ k.reads = s.k.reads /\ k.asked = s.k.asked /\ k.part = s.k.part
      /\ k.at = s.k.at /\ k.is_writing = s.k.is_writing /\ k.need_after = s.k.need_after
      /\ k.task_id = s.k.task_id /\ k.completed = s.k.completed /\ k.hook = s.k.hook /\ k.reading = s.k.reading
      /\ k.writes = s.k.writes /\ k.need_read = s.k.need_read /\ k.users = s.k.users /\ k.sent = s.k.sent
      /\ k.svc = s.k.svc
  BY <1>1 DEF Members
<1>4. r = [s EXCEPT !.k = k]
  BY <1>1 DEF ServerWorlds
<1> HIDE DEF k, r
<1>5. r \in ServerWorlds /\ r.c = s.c /\ r.k = k /\ r.q = s.q /\ r.t = s.t /\ r.n = s.n
  BY <1>1, <1>2, <1>4, MemberSet
<1>6. Coherent(k)
  BY <1>3 DEF Fits, Coherent
<1>7. QueuedFor(s.c, k, s.q) /\ Pending(s.c, k, s.q)
  BY <1>3, AsksSame DEF Fits, QueuedFor, Pending
<1>8. Timed(s.c, k, s.t)
  BY <1>3 DEF Fits, Timed
<1>9. Apart(r) /\ Tally(r)
  BY <1>3, <1>5, ApartSame, TallySame DEF Fits
<1> QED
  BY <1>3, <1>5, <1>6, <1>7, <1>8, <1>9 DEF Fits, r

LEMMA ServerReadKeeps ==
  ASSUME ServerInv, NEW w \in Server!Workers, NEW fault, Server!RunRead(w, fault)
  PROVE  ServerInv'
<1> DEFINE j == Head(jobs[w])
           s == Server!Running(w)
           r == Server!Feed(s, j.what, j.req, fault)
<1>1. /\ Server!Next_(w, "read") /\ s.k.life = "live"
      /\ CASE r.k.at = "threw" -> Server!Becomes([r EXCEPT !.k.at = "idle"])
           [] r.k.at # "threw" /\ (j.what = "error" \/ ~r.k.open) ->
                Server!Becomes(Server!CheckDestroy(
                  [Server!CloseSocket(Server!Cancel(r)) EXCEPT !.k.is_reading = FALSE]))
           [] r.k.at # "threw" /\ j.what # "error" /\ r.k.open /\ r.k.close ->
                Server!Becomes(Server!CheckDestroy([Server!Cancel(r) EXCEPT !.k.is_reading = FALSE]))
           [] OTHER -> Server!Becomes([r EXCEPT !.k.at = "fed"])
      /\ accepting' = accepting
  BY DEF Server!RunRead
<1>2. /\ j \in Handlers /\ j.op = "read" /\ j.c \in Conns /\ conn[j.c].svc = w
      /\ s \in ServerWorlds /\ s.c = j.c /\ s.k = conn[j.c] /\ s.q = Tail(jobs[w])
      /\ Apart(s) /\ Tally(s) /\ Timed(s.c, s.k, s.t) /\ Coherent(s.k) /\ s.k.at = "idle"
      /\ QueuedFor(s.c, s.k, jobs[w]) /\ Pending(s.c, s.k, jobs[w]) /\ ~Lacks(s.c, jobs[w], "read")
      /\ jobs[w] \in Seq(Handlers) /\ jobs[w] # <<>>
  BY <1>1, RunningIs
<1> HIDE DEF s
<1>3. s.k.is_reading /\ ~s.k.reading /\ ~s.k.need_read /\ ~s.k.hook
  BY <1>2 DEF QueuedFor
<1>4. /\ Single(s.c, s.q) /\ Lacks(s.c, s.q, "read")
      /\ \A op : op # "read" => (Lacks(s.c, s.q, op) <=> Lacks(s.c, jobs[w], op))
      /\ j.what \in Server!Parts => AsksAt(s.c, s.k, jobs[w], 1) /\ Lacks(s.c, jobs[w], "write")
  <2>1. Single(s.c, jobs[w]) /\ Asks(s.c, s.k, jobs[w])
    BY <1>2 DEF QueuedFor
  <2>2. /\ jobs[w] \in Seq(Handlers) /\ jobs[w] # <<>> /\ Head(jobs[w]).c = s.c /\ Head(jobs[w]).op = "read"
        /\ s.q = Tail(jobs[w]) /\ j = Head(jobs[w])
    BY <1>2
  <2> HIDE DEF j
  <2> QED
    <3> DEFINE q == jobs[w]
    <3> HIDE DEF q
    <3>1. /\ q \in Seq(Handlers) /\ q # <<>> /\ Head(q).c = s.c /\ Single(s.c, q) /\ Asks(s.c, s.k, q)
      BY <2>1, <2>2 DEF q
    <3>2. /\ Single(s.c, Tail(q)) /\ Lacks(s.c, Tail(q), Head(q).op)
          /\ \A op : op # Head(q).op => (Lacks(s.c, Tail(q), op) <=> Lacks(s.c, q, op))
          /\ Head(q).op = "read" /\ Head(q).what \in Server!Parts => AsksAt(s.c, s.k, q, 1) /\ Lacks(s.c, q, "write")
      BY <3>1, OwnTaken
    <3> QED
      BY <2>2, <3>2 DEF q
<1>5. jobs[w][1] = j
  BY <1>2
<1> HIDE DEF j
<1>6. Fits(s) /\ Busy(s) /\ Pending(s.c, s.k, s.q)
  <2>1. QueuedFor(s.c, s.k, s.q)
    BY <1>2, <1>3, <1>4, LacksAsks DEF QueuedFor
  <2>2. Pending(s.c, s.k, s.q)
    BY <1>2, <1>4 DEF Pending
  <2> QED
    BY <1>1, <1>2, <1>3, <1>4, <2>1, <2>2 DEF Fits, Busy
<1>7. /\ Fits(r) /\ Pending(r.c, r.k, r.q) /\ Busy(r) /\ r.c = s.c /\ r.k.svc = s.k.svc
      /\ r.k.at \in {"idle", "threw"}
  <2>1. j.what \in Server!Parts =>
           /\ s.k.writes = 0 /\ Len(s.k.sent) = s.k.asked /\ s.k.reads > 0 /\ ~s.k.completed
           /\ Lacks(s.c, s.q, "write") /\ j.req \in Kinds /\ (j.what = "whole" => j.req.expect = "no")
           /\ j.what # "head" => s.k.part = None /\ s.k.asked < s.k.reads
    BY <1>4, <1>5 DEF AsksAt
  <2> QED
    BY <1>2, <1>3, <1>6, <2>1, FeedFits
<1> HIDE DEF r
<1>8. r.k.svc = conn[r.c].svc /\ conn[r.c].life # "accepting" /\ r.k.life = "live" /\ ~r.k.reading
      /\ Lacks(r.c, r.q, "read")
  BY <1>1, <1>2, <1>7 DEF Busy
<1> DEFINE u == Server!Cancel(r)
<1>9. Fits(u) /\ u.c = r.c /\ u.k = r.k /\ u.q = r.q
  BY <1>7, <1>8, CancelKeepsFit
<1> HIDE DEF u
<1>10. CASE r.k.at = "threw"
  <2> DEFINE z == [r EXCEPT !.k.at = "idle"]
  <2>1. /\ Fits(z) /\ z.c = r.c /\ z.k.svc = r.k.svc /\ z.k.life = r.k.life /\ z.k.at = "idle"
        /\ Pending(z.c, z.k, z.q)
    BY <1>7, AtFits
  <2>2. Server!Becomes(z)
    BY <1>1, <1>10
  <2> HIDE DEF z
  <2> QED
    BY <1>1, <1>8, <2>1, <2>2, BecomesKeeps
<1>11. ASSUME NEW v, Fits(v), v.k.life = "live", v.k.at = "idle", ~v.k.reading, Lacks(v.c, v.q, "read"),
              Pending(v.c, v.k, v.q), v.c = r.c, v.k.svc = r.k.svc,
              Server!Becomes(Server!CheckDestroy([v EXCEPT !.k.is_reading = FALSE]))
       PROVE  ServerInv'
  <2> DEFINE y == [v EXCEPT !.k.is_reading = FALSE]
             z == Server!CheckDestroy(y)
  <2>1. /\ Fits(y) /\ y.c = v.c /\ y.q = v.q /\ y.k.svc = v.k.svc /\ y.k.life = "live" /\ y.k.at = "idle"
        /\ Pending(y.c, y.k, y.q)
    BY <1>11, StopsReading
  <2>2. Server!Becomes(z)
    BY <1>11
  <2> HIDE DEF y
  <2>3. /\ Fits(z) /\ Pending(z.c, z.k, z.q) /\ z.c = y.c /\ z.k.svc = y.k.svc
        /\ z.k.life \in {"live", "deleted"} /\ z.k.at \in {y.k.at, "idle"}
    BY <2>1, CheckDestroyFits
  <2> HIDE DEF z
  <2> QED
    BY <1>1, <1>8, <1>11, <2>1, <2>2, <2>3, BecomesKeeps
<1>12. CASE r.k.at # "threw" /\ (j.what = "error" \/ ~r.k.open)
  <2> DEFINE v == Server!CloseSocket(u)
  <2>1. /\ Fits(v) /\ Pending(v.c, v.k, v.q) /\ v.c = u.c
        /\ v.k.svc = u.k.svc /\ v.k.life = "live" /\ ~v.k.reading /\ v.k.at = u.k.at
        /\ ~u.k.reading /\ Lacks(u.c, u.q, "read") => Lacks(v.c, v.q, "read")
    BY <1>8, <1>9, CloseSocketFits
  <2>2. Server!Becomes(Server!CheckDestroy([v EXCEPT !.k.is_reading = FALSE]))
    BY <1>1, <1>12 DEF u
  <2> HIDE DEF v
  <2> QED
    BY <1>7, <1>8, <1>9, <1>11, <1>12, <2>1, <2>2
<1>13. CASE r.k.at # "threw" /\ j.what # "error" /\ r.k.open /\ r.k.close
  <2>1. Server!Becomes(Server!CheckDestroy([u EXCEPT !.k.is_reading = FALSE]))
    BY <1>1, <1>13 DEF u
  <2> QED
    BY <1>7, <1>8, <1>9, <1>11, <1>13, <2>1
<1>14. CASE r.k.at # "threw" /\ j.what # "error" /\ r.k.open /\ ~r.k.close
  <2> DEFINE z == [r EXCEPT !.k.at = "fed"]
  <2>1. /\ Fits(z) /\ z.c = r.c /\ z.k.svc = r.k.svc /\ z.k.life = r.k.life /\ z.k.at = "fed"
        /\ Pending(z.c, z.k, z.q)
    BY <1>7, AtFits
  <2>2. Server!Becomes(z)
    BY <1>1, <1>14
  <2> HIDE DEF z
  <2> QED
    BY <1>1, <1>8, <2>1, <2>2, BecomesKeeps
<1> QED
  BY <1>10, <1>12, <1>13, <1>14

LEMMA AfterFeedKeeps ==
  ASSUME ServerInv, NEW c \in Conns, Server!AfterFeed(c)
  PROVE  ServerInv'
<1> DEFINE s == Server!World(c)
           v == [s EXCEPT !.k.at = "idle"]
           y == Server!StartDeadline(v)
           z == Server!DoRead(y)
<1>1. /\ conn[c].at = "fed" /\ accepting' = accepting
      /\ conn[c].need_after => Server!Becomes([s EXCEPT !.k.at = "tested"])
      /\ ~conn[c].need_after => Server!Becomes(z)
  BY DEF Server!AfterFeed
<1>2. Fits(s) /\ Pending(s.c, s.k, s.q) /\ s.c = c /\ s.k = conn[c]
  BY WorldFits
<1> HIDE DEF s
<1>3. Busy(s) /\ s.k.life = "live" /\ ~s.k.reading /\ Lacks(s.c, s.q, "read") /\ ~s.k.need_read
  BY <1>1, <1>2 DEF Fits, Coherent, QueuedFor, Busy
<1>4. CASE conn[c].need_after
  <2> DEFINE x == [s EXCEPT !.k.at = "tested"]
  <2>1. /\ Fits(x) /\ x.c = s.c /\ x.k.svc = s.k.svc /\ x.k.life = s.k.life /\ x.k.at = "tested"
        /\ Pending(x.c, x.k, x.q)
    BY <1>2, <1>3, AtFits
  <2>2. Server!Becomes(x)
    BY <1>1, <1>4
  <2> HIDE DEF x
  <2> QED
    BY <1>1, <1>2, <1>3, <2>1, <2>2, BecomesKeeps
<1>5. CASE ~conn[c].need_after
  <2>1. ~s.k.hook
    BY <1>2, <1>5 DEF Fits, Coherent
  <2>2. /\ Fits(v) /\ v.c = s.c /\ v.q = s.q /\ v.k.svc = s.k.svc /\ v.k.life = s.k.life /\ v.k.at = "idle"
        /\ Pending(v.c, v.k, v.q)
        /\ v.k.reading = s.k.reading /\ v.k.need_read = s.k.need_read /\ v.k.hook = s.k.hook
    BY <1>2, <1>3, AtFits
  <2> HIDE DEF v
  <2>3. /\ Fits(y) /\ Armed(y) /\ y.c = v.c /\ y.q = v.q /\ y.k = [v.k EXCEPT !.task_id = v.t.highest + 1]
        /\ Pending(y.c, y.k, y.q)
    BY <1>3, <2>2, StartDeadlineFits
  <2> HIDE DEF y
  <2>4. /\ y.k.svc = v.k.svc /\ y.k.life = v.k.life /\ y.k.need_read = v.k.need_read
        /\ y.k.reading = v.k.reading /\ y.k.hook = v.k.hook /\ y.k.at = v.k.at
    BY <2>2, <2>3 DEF Fits, ServerWorlds, Members
  <2>5. /\ Fits(z) /\ z.c = y.c /\ z.k.svc = y.k.svc /\ z.k.life = "live" /\ z.k.at = "idle"
        /\ Pending(z.c, z.k, z.q)
    <3>1. /\ y.k.life = "live" /\ ~y.k.reading /\ ~y.k.need_read /\ ~y.k.hook /\ y.k.at = "idle"
          /\ Lacks(y.c, y.q, "read")
      BY <1>3, <2>1, <2>2, <2>3, <2>4
    <3> QED
      BY <2>3, <3>1, DoReadFits
  <2>6. Server!Becomes(z)
    BY <1>1, <1>5
  <2> HIDE DEF z
  <2> QED
    BY <1>1, <1>2, <1>3, <2>2, <2>3, <2>4, <2>5, <2>6, BecomesKeeps
<1> QED
  BY <1>4, <1>5

\* What a step leaves alone, written as Becomes does.
LEMMA LeftAlone ==
  ASSUME ServerInv, NEW w \in Server!Workers
  PROVE  [timer EXCEPT ![w] = timer[w]] = timer /\ [load EXCEPT ![w] = load[w]] = load
         /\ [jobs EXCEPT ![w] = jobs[w]] = jobs
BY DEF ServerInv, InvOf

LEMMA WaitForUserKeeps ==
  ASSUME ServerInv, NEW c \in Conns, Server!WaitForUser(c)
  PROVE  ServerInv'
<1> DEFINE s == Server!World(c)
           w == conn[c].svc
           k == [conn[c] EXCEPT !.at = "idle", !.need_read = TRUE]
           r == [s EXCEPT !.k = k]
<1>1. /\ conn[c].at = "tested" /\ conn' = [conn EXCEPT ![c].at = "idle", ![c].need_read = TRUE]
      /\ timer' = timer /\ jobs' = jobs /\ load' = load /\ accepting' = accepting
  BY DEF Server!WaitForUser
<1>2. /\ Fits(s) /\ Pending(s.c, s.k, s.q) /\ s.c = c /\ s.k = conn[c] /\ s.t = timer[w] /\ s.q = jobs[w]
      /\ s.n = load[w]
  BY WorldFits
<1>3. s \in ServerWorlds /\ conn[c] \in Members /\ w \in Server!Workers
  BY <1>2 DEF Fits, ServerWorlds, Members
<1>4. conn' = [conn EXCEPT ![c] = k]
  BY <1>1 DEF ServerInv, InvOf
<1>5. /\ k \in Members /\ k.at = "idle" /\ k.need_read
      /\ k.life = s.k.life /\ k.open = s.k.open /\ k.reads = s.k.reads /\ k.asked = s.k.asked /\ k.part = s.k.part
      /\ k.is_reading = s.k.is_reading /\ k.is_writing = s.k.is_writing /\ k.need_after = s.k.need_after
      /\ k.task_id = s.k.task_id /\ k.completed = s.k.completed /\ k.hook = s.k.hook /\ k.reading = s.k.reading
      /\ k.writes = s.k.writes /\ k.users = s.k.users /\ k.sent = s.k.sent /\ k.svc = s.k.svc
  BY <1>2, <1>3 DEF Members
<1> HIDE DEF k, s
<1>6. r \in ServerWorlds /\ r.c = s.c /\ r.k = k /\ r.q = s.q /\ r.t = s.t /\ r.n = s.n
  BY <1>3, <1>5, MemberSet
<1> HIDE DEF r
<1>7. s.k.at = "tested" /\ s.k.life = "live" /\ ~s.k.reading /\ Lacks(s.c, s.q, "read")
  BY <1>1, <1>2 DEF Fits, Coherent, QueuedFor
<1>8. Coherent(k)
  BY <1>2, <1>5, <1>7 DEF Fits, Coherent
<1>9. QueuedFor(s.c, k, s.q) /\ Pending(s.c, k, s.q)
  BY <1>2, <1>5, <1>7, AsksSame DEF Fits, QueuedFor, Pending
<1>10. Timed(s.c, k, s.t)
  BY <1>2, <1>5 DEF Fits, Timed
<1>11. Apart(r) /\ Tally(r)
  BY <1>2, <1>5, <1>6, ApartSame, TallySame DEF Fits
<1>12. Fits(r) /\ Pending(r.c, r.k, r.q)
  BY <1>6, <1>8, <1>9, <1>10, <1>11 DEF Fits
<1>13. Server!Becomes(r)
  <2>1. r.k.svc = w /\ r.c = c /\ r.k = k /\ r.t = timer[w] /\ r.q = jobs[w] /\ r.n = load[w]
    BY <1>2, <1>5, <1>6
  <2>2. /\ timer' = [timer EXCEPT ![w] = timer[w]] /\ load' = [load EXCEPT ![w] = load[w]]
        /\ jobs' = [jobs EXCEPT ![w] = jobs[w]]
    BY <1>1, <1>3, LeftAlone
  <2> HIDE DEF w
  <2> QED
    BY <1>4, <2>1, <2>2 DEF Server!Becomes
<1> QED
  BY <1>1, <1>2, <1>5, <1>6, <1>7, <1>12, <1>13, BecomesKeeps

LEMMA ServerWriteKeeps ==
  ASSUME ServerInv, NEW w \in Server!Workers, Server!RunWrite(w)
  PROVE  ServerInv'
<1> DEFINE j == Head(jobs[w])
           u == Server!Running(w)
           k == [u.k EXCEPT !.is_writing = FALSE, !.completed = FALSE, !.body = 0, !.long = FALSE]
           s == [u EXCEPT !.k = k]
<1>1. /\ Server!Next_(w, "write") /\ accepting' = accepting
      /\ LET v == Server!Clear([u EXCEPT !.k.is_writing = FALSE])
         IN  /\ v.k.life = "live"
             /\ Server!Becomes(CASE j.what = "error" -> Server!CheckDestroy(v)
                      [] j.what = "ok" /\ v.k.close -> Server!CheckDestroy(Server!CloseSocket(v))
                      [] OTHER -> v)
  BY DEF Server!RunWrite
<1>2. /\ j \in Handlers /\ j.op = "write" /\ j.c \in Conns /\ conn[j.c].svc = w
      /\ u \in ServerWorlds /\ u.c = j.c /\ u.k = conn[j.c] /\ u.q = Tail(jobs[w])
      /\ Apart(u) /\ Tally(u) /\ Timed(u.c, u.k, u.t) /\ Coherent(u.k) /\ u.k.at = "idle"
      /\ QueuedFor(u.c, u.k, jobs[w]) /\ Pending(u.c, u.k, jobs[w]) /\ ~Lacks(u.c, jobs[w], "write")
      /\ jobs[w] \in Seq(Handlers) /\ jobs[w] # <<>>
  BY <1>1, RunningIs
<1> HIDE DEF u
<1>3. u.k \in Members
  BY <1>2 DEF ServerWorlds
<1>4. Server!Clear([u EXCEPT !.k.is_writing = FALSE]) = s
  BY <1>2, <1>3 DEF Server!Clear, ServerWorlds
<1>5. /\ k \in Members /\ ~k.is_writing /\ ~k.completed
      /\ k.life = u.k.life /\ k.open = u.k.open /\ k.reads = u.k.reads /\ k.asked = u.k.asked /\ k.part = u.k.part
      /\ k.is_reading = u.k.is_reading /\ k.at = u.k.at /\ k.need_after = u.k.need_after /\ k.need_read = u.k.need_read
      /\ k.task_id = u.k.task_id /\ k.hook = u.k.hook /\ k.reading = u.k.reading
      /\ k.writes = u.k.writes /\ k.users = u.k.users /\ k.sent = u.k.sent /\ k.svc = u.k.svc
  <2>1. 0 \in 0 .. MaxReads
    BY ServerAssumption DEF Server!CrowAssumption
  <2> QED
    BY <1>3, <2>1 DEF Members
<1> HIDE DEF k
<1>6. s \in ServerWorlds /\ s.c = u.c /\ s.k = k /\ s.q = u.q /\ s.t = u.t /\ s.n = u.n
  BY <1>2, <1>5, MemberSet
<1>7. u.k.life = "live" /\ u.k.writes = 0 /\ ~u.k.hook
  BY <1>2 DEF QueuedFor
<1>8. Asks(u.c, k, jobs[w])
  BY <1>2, <1>5, AsksSame DEF QueuedFor
<1>9. /\ Single(u.c, u.q) /\ Lacks(u.c, u.q, "write") /\ Asks(u.c, k, u.q)
      /\ \A op : op # "write" => (Lacks(u.c, u.q, op) <=> Lacks(u.c, jobs[w], op))
  <2>1. Single(u.c, jobs[w]) /\ ~k.completed
    BY <1>2, <1>5 DEF QueuedFor
  <2>2. /\ jobs[w] \in Seq(Handlers) /\ jobs[w] # <<>> /\ Head(jobs[w]).c = u.c /\ Head(jobs[w]).op = "write"
        /\ u.q = Tail(jobs[w])
    BY <1>2
  <2> HIDE DEF j
  <2> QED
    <3> DEFINE q == jobs[w]
    <3> HIDE DEF q
    <3>1. /\ q \in Seq(Handlers) /\ q # <<>> /\ Head(q).c = u.c /\ Single(u.c, q) /\ Asks(u.c, k, q)
      BY <1>8, <2>1, <2>2 DEF q
    <3>2. /\ Single(u.c, Tail(q)) /\ Lacks(u.c, Tail(q), Head(q).op)
          /\ \A op : op # Head(q).op => (Lacks(u.c, Tail(q), op) <=> Lacks(u.c, q, op))
          /\ Head(q).op # "read" /\ ~k.completed => Asks(u.c, k, Tail(q))
      BY <3>1, OwnTaken
    <3> QED
      BY <2>1, <2>2, <3>2 DEF q
<1> HIDE DEF j, s
<1>10. Fits(s) /\ Pending(s.c, s.k, s.q)
  <2>1. Coherent(k)
    BY <1>2, <1>5, <1>7 DEF Coherent
  <2>2. QueuedFor(u.c, k, u.q) /\ Pending(u.c, k, u.q)
    BY <1>2, <1>5, <1>7, <1>9 DEF QueuedFor, Pending
  <2>3. Timed(u.c, k, u.t)
    BY <1>2, <1>5 DEF Timed
  <2>4. Apart(s) /\ Tally(s)
    BY <1>2, <1>5, <1>6, ApartSame, TallySame
  <2> QED
    BY <1>6, <2>1, <2>2, <2>3, <2>4 DEF Fits
<1>11. /\ s.k.life = "live" /\ s.k.at = "idle" /\ s.k.svc = conn[s.c].svc /\ conn[s.c].life # "accepting"
  BY <1>2, <1>5, <1>6, <1>7
<1>12. ASSUME NEW v, Fits(v), v.k.life = "live", v.k.at = "idle", Pending(v.c, v.k, v.q), v.c = s.c, v.k.svc = s.k.svc,
              Server!Becomes(Server!CheckDestroy(v))
       PROVE  ServerInv'
  <2> DEFINE z == Server!CheckDestroy(v)
  <2>1. Server!Becomes(z)
    BY <1>12
  <2>2. /\ Fits(z) /\ Pending(z.c, z.k, z.q) /\ z.c = v.c /\ z.k.svc = v.k.svc
        /\ z.k.life \in {"live", "deleted"} /\ z.k.at \in {v.k.at, "idle"}
    BY <1>12, CheckDestroyFits
  <2> HIDE DEF z
  <2> QED
    BY <1>1, <1>11, <1>12, <2>1, <2>2, BecomesKeeps
<1>13. CASE j.what = "error"
  <2>1. Server!Becomes(Server!CheckDestroy(s))
    BY <1>1, <1>4, <1>13
  <2> QED
    BY <1>10, <1>11, <1>12, <2>1
<1>14. CASE j.what = "ok" /\ s.k.close
  <2> DEFINE v == Server!CloseSocket(s)
  <2>1. /\ Fits(v) /\ Pending(v.c, v.k, v.q) /\ v.c = s.c /\ v.k.svc = s.k.svc /\ v.k.life = "live" /\ v.k.at = s.k.at
    BY <1>10, <1>11, CloseSocketFits
  <2>2. Server!Becomes(Server!CheckDestroy(v))
    BY <1>1, <1>4, <1>14
  <2> HIDE DEF v
  <2> QED
    BY <1>11, <1>12, <2>1, <2>2
<1>15. CASE j.what # "error" /\ ~(j.what = "ok" /\ s.k.close)
  <2>1. Server!Becomes(s)
    BY <1>1, <1>4, <1>15
  <2> QED
    BY <1>1, <1>10, <1>11, <2>1, BecomesKeeps
<1> QED
  BY <1>13, <1>14, <1>15

LEMMA RunStartKeeps ==
  ASSUME ServerInv, NEW w \in Server!Workers, NEW ok, Server!RunStart(w, ok)
  PROVE  ServerInv'
<1> DEFINE j == Head(jobs[w])
           u == Server!Running(w)
           k == [u.k EXCEPT !.life = "live"]
           s == [u EXCEPT !.k = k]
           y == Server!StartDeadline(s)
           z == IF ok THEN Server!DoRead(y) ELSE Server!CheckDestroy(s)
<1>1. Server!Next_(w, "start") /\ accepting' = accepting
  BY DEF Server!RunStart
<1>2. /\ j \in Handlers /\ j.op = "start" /\ j.c \in Conns /\ conn[j.c].svc = w
      /\ u \in ServerWorlds /\ u.c = j.c /\ u.k = conn[j.c] /\ u.q = Tail(jobs[w])
      /\ Apart(u) /\ Tally(u) /\ Timed(u.c, u.k, u.t) /\ Coherent(u.k) /\ u.k.at = "idle"
      /\ QueuedFor(u.c, u.k, jobs[w]) /\ Pending(u.c, u.k, jobs[w]) /\ ~Lacks(u.c, jobs[w], "start")
      /\ jobs[w] \in Seq(Handlers) /\ jobs[w] # <<>>
  BY <1>1, RunningIs
<1>3. Server!Becomes(z)
  <2>1. [u EXCEPT !.k.life = "live"] = s
    BY <1>2 DEF ServerWorlds
  <2>2. LET v == [u EXCEPT !.k.life = "live"]
        IN  Server!Becomes(IF ok THEN Server!DoRead(Server!StartDeadline(v)) ELSE Server!CheckDestroy(v))
    BY DEF Server!RunStart
  <2> HIDE DEF s, u
  <2> QED
    BY <2>1, <2>2
<1> HIDE DEF u, z
<1>4. u.k.life = "posted" /\ Idle(u.k)
  BY <1>2 DEF QueuedFor, Coherent
<1>5. /\ k \in Members /\ k.life = "live"
      /\ k.open = u.k.open /\ k.reads = u.k.reads /\ k.asked = u.k.asked /\ k.part = u.k.part
      /\ k.is_reading = u.k.is_reading /\ k.is_writing = u.k.is_writing /\ k.at = u.k.at /\ k.need_read = u.k.need_read
      /\ k.task_id = u.k.task_id /\ k.hook = u.k.hook /\ k.reading = u.k.reading /\ k.completed = u.k.completed
      /\ k.writes = u.k.writes /\ k.users = u.k.users /\ k.sent = u.k.sent /\ k.svc = u.k.svc
  BY <1>2 DEF ServerWorlds, Members
<1> HIDE DEF k
<1>6. s \in ServerWorlds /\ s.c = u.c /\ s.k = k /\ s.q = u.q /\ s.t = u.t /\ s.n = u.n
  BY <1>2, <1>5, MemberSet
<1> HIDE DEF s
<1>7. /\ Single(u.c, u.q) /\ Lacks(u.c, u.q, "start")
      /\ \A op : op # "start" => (Lacks(u.c, u.q, op) <=> Lacks(u.c, jobs[w], op))
  <2>1. Single(u.c, jobs[w]) /\ Asks(u.c, u.k, jobs[w])
    BY <1>2 DEF QueuedFor
  <2>2. /\ jobs[w] \in Seq(Handlers) /\ jobs[w] # <<>> /\ Head(jobs[w]).c = u.c /\ Head(jobs[w]).op = "start"
        /\ u.q = Tail(jobs[w])
    BY <1>2
  <2> HIDE DEF j
  <2> QED
    <3> DEFINE q == jobs[w]
    <3> HIDE DEF q
    <3>1. /\ q \in Seq(Handlers) /\ q # <<>> /\ Head(q).c = u.c /\ Single(u.c, q) /\ Asks(u.c, u.k, q)
      BY <2>1, <2>2 DEF q
    <3>2. /\ Single(u.c, Tail(q)) /\ Lacks(u.c, Tail(q), Head(q).op)
          /\ \A op : op # Head(q).op => (Lacks(u.c, Tail(q), op) <=> Lacks(u.c, q, op))
          /\ Head(q).op = "read" /\ Head(q).what \in Server!Parts => AsksAt(u.c, u.k, q, 1) /\ Lacks(u.c, q, "write")
      BY <3>1, OwnTaken
    <3> QED
      BY <2>2, <3>2 DEF q
<1> HIDE DEF j
<1>8. Lacks(u.c, u.q, "read") /\ Lacks(u.c, u.q, "write")
  BY <1>2, <1>4, <1>7 DEF QueuedFor
<1>9. Fits(s) /\ Pending(s.c, s.k, s.q)
  <2>1. Coherent(k)
    BY <1>2, <1>4, <1>5 DEF Coherent, Idle
  <2>2. QueuedFor(u.c, k, u.q) /\ Pending(u.c, k, u.q)
    BY <1>4, <1>5, <1>7, <1>8, LacksAsks DEF QueuedFor, Pending, Idle
  <2>3. Timed(u.c, k, u.t)
    BY <1>2, <1>4, <1>5 DEF Timed, Idle
  <2>4. Apart(s)
    BY <1>2, <1>5, <1>6, ApartSame
  <2>5. Tally(s)
    BY <1>2, <1>4, <1>5, <1>6, TallySame DEF Counted
  <2> QED
    BY <1>6, <2>1, <2>2, <2>3, <2>4, <2>5 DEF Fits
<1>10. /\ s.k.svc = conn[s.c].svc /\ conn[s.c].life # "accepting" /\ s.k.life = "live" /\ s.k.at = "idle"
       /\ ~s.k.reading /\ ~s.k.need_read /\ ~s.k.hook /\ Lacks(s.c, s.q, "read")
  BY <1>2, <1>4, <1>5, <1>6, <1>8 DEF Idle
<1>11. Fits(z) /\ Pending(z.c, z.k, z.q) /\ z.c = s.c /\ z.k.svc = s.k.svc /\ z.k.life # "accepting" /\ z.k.at = "idle"
  <2>1. CASE ~ok
    BY <1>9, <1>10, <2>1, CheckDestroyFits DEF z
  <2>2. CASE ok
    <3>1. /\ Fits(y) /\ Armed(y) /\ y.c = s.c /\ y.q = s.q /\ y.k = [s.k EXCEPT !.task_id = s.t.highest + 1]
          /\ Pending(y.c, y.k, y.q)
      BY <1>9, <1>10, StartDeadlineFits
    <3> HIDE DEF y
    <3>2. /\ y.k.svc = s.k.svc /\ y.k.life = s.k.life /\ y.k.need_read = s.k.need_read
          /\ y.k.reading = s.k.reading /\ y.k.hook = s.k.hook /\ y.k.at = s.k.at
      BY <1>9, <3>1 DEF Fits, ServerWorlds, Members
    <3>3. LET x == Server!DoRead(y)
          IN  /\ Fits(x) /\ x.c = y.c /\ x.k.svc = y.k.svc /\ x.k.life = "live" /\ x.k.at = "idle"
              /\ Pending(x.c, x.k, x.q)
      BY <1>10, <3>1, <3>2, DoReadFits
    <3>4. z = Server!DoRead(y)
      BY <2>2 DEF z, y
    <3> QED
      BY <1>10, <3>1, <3>2, <3>3, <3>4
  <2> QED
    BY <2>1, <2>2
<1> QED
  BY <1>1, <1>3, <1>10, <1>11, BecomesKeeps

\* Only whoever was asked for a response completes it, and once.
LEMMA UserEndsKeeps ==
  ASSUME ServerInv, NEW c \in Conns, NEW u, NEW fault, Server!UserEnds(c, u, fault)
  PROVE  ServerInv'
<1> DEFINE s == Server!World(c)
           a == conn[c].at
           k == [s.k EXCEPT !.users = {}]
           v == [s EXCEPT !.k = k]
           h == [k EXCEPT !.completed = TRUE, !.body = u.n, !.long = u.long]
           y == [s EXCEPT !.k = h]
           x == Server!CompleteRequest(y, fault)
           z == [x EXCEPT !.k.at = a]
<1>1. /\ u \in conn[c].users /\ conn[c].life = "live" /\ accepting' = accepting
      /\ Server!Becomes([Server!End([s EXCEPT !.k.users = @ \ {u}], u.n, u.long, fault) EXCEPT !.k.at = a])
  BY DEF Server!UserEnds, Server!UserMay
<1>2. Fits(s) /\ Pending(s.c, s.k, s.q) /\ s.c = c /\ s.k = conn[c]
  BY WorldFits
<1> HIDE DEF s
<1>3. s \in ServerWorlds /\ s.k \in Members
  BY <1>2 DEF Fits, ServerWorlds
<1>4. a # "threw" /\ a \in {"idle", "fed", "tested"}
  BY <1>2, <1>3 DEF ServerInv, InvOf, ConnInv, Members
<1>5. s.k.hook
  BY <1>1, <1>2 DEF Fits, Coherent
<1>6. /\ ~s.k.completed /\ Len(s.k.sent) + 1 = s.k.asked /\ s.k.part = None
      /\ s.k.users = {u} /\ u.n = s.k.asked /\ u.long \in BOOLEAN
  <2>1. /\ ~s.k.completed /\ Len(s.k.sent) + 1 = s.k.asked /\ s.k.part = None
        /\ \E b \in BOOLEAN : s.k.users = {[n |-> s.k.asked, long |-> b]}
    BY <1>2, <1>5 DEF Fits, Coherent
  <2>2. PICK b \in BOOLEAN : s.k.users = {[n |-> s.k.asked, long |-> b]}
    BY <2>1
  <2>3. u = [n |-> s.k.asked, long |-> b]
    BY <1>1, <1>2, <2>2
  <2> QED
    BY <2>1, <2>2, <2>3
<1>7. /\ s.k.writes = 0 /\ ~s.k.reading /\ s.k.asked <= s.k.reads /\ s.k.reads <= MaxReads
      /\ (\A i \in DOMAIN s.k.sent : s.k.sent[i] = i)
      /\ Lacks(s.c, s.q, "start") /\ Lacks(s.c, s.q, "read") /\ Lacks(s.c, s.q, "write") /\ Single(s.c, s.q)
      /\ (a \in {"fed", "tested"} => s.k.is_reading /\ ~s.k.need_read)
  BY <1>1, <1>2, <1>5 DEF Fits, Coherent, QueuedFor
<1>8. /\ k \in Members /\ k.users = {}
      /\ k.life = s.k.life /\ k.open = s.k.open /\ k.reads = s.k.reads /\ k.asked = s.k.asked /\ k.part = s.k.part
      /\ k.is_reading = s.k.is_reading /\ k.is_writing = s.k.is_writing /\ k.at = s.k.at /\ k.need_read = s.k.need_read
      /\ k.task_id = s.k.task_id /\ k.hook = s.k.hook /\ k.reading = s.k.reading /\ k.completed = s.k.completed
      /\ k.writes = s.k.writes /\ k.sent = s.k.sent /\ k.svc = s.k.svc
  BY <1>3 DEF Members
<1>9. [s EXCEPT !.k.users = @ \ {u}] = v
  <2>1. s.k.users \ {u} = {}
    BY <1>6
  <2>2. [s EXCEPT !.k.users = @ \ {u}] = [s EXCEPT !.k = [s.k EXCEPT !.users = s.k.users \ {u}]]
    BY <1>3 DEF ServerWorlds
  <2> QED
    BY <2>1, <2>2
<1> HIDE DEF k
<1>10. v \in ServerWorlds /\ v.k = k
  BY <1>3, <1>8, MemberSet
<1>11. Server!End(v, u.n, u.long, fault) = x
  <2>1. [v EXCEPT !.k.completed = TRUE, !.k.body = u.n, !.k.long = u.long] = y
    <3>1. [v EXCEPT !.k.completed = TRUE, !.k.body = u.n, !.k.long = u.long] = [v EXCEPT !.k = h]
      <4> HIDE DEF v
      <4> QED
        BY <1>10 DEF ServerWorlds
    <3>2. [v EXCEPT !.k = h] = y
      <4> HIDE DEF h
      <4> QED
        BY <1>3 DEF ServerWorlds
    <3> QED
      BY <3>1, <3>2
  <2> HIDE DEF v, y
  <2> QED
    BY <1>5, <1>6, <1>8, <1>10, <2>1 DEF Server!End
<1>12. /\ h \in Members /\ h.body = s.k.asked
       /\ h.life = s.k.life /\ h.open = s.k.open /\ h.reads = s.k.reads /\ h.asked = s.k.asked /\ h.part = s.k.part
       /\ h.is_reading = s.k.is_reading /\ h.at = s.k.at /\ h.need_read = s.k.need_read /\ h.users = {}
       /\ h.task_id = s.k.task_id /\ h.reading = s.k.reading
       /\ h.writes = s.k.writes /\ h.sent = s.k.sent /\ h.svc = s.k.svc
  <2>1. u.n \in 0 .. MaxReads
    <3>1. s.k.asked \in Nat /\ s.k.reads \in Nat /\ MaxReads \in Nat
      BY <1>3, ServerAssumption DEF Server!CrowAssumption, Members
    <3> QED
      BY <1>6, <1>7, <3>1
  <2> QED
    BY <1>6, <1>8, <2>1 DEF Members
<1> HIDE DEF h, v
<1>13. y \in ServerWorlds /\ y.c = s.c /\ y.k = h /\ y.q = s.q /\ y.t = s.t /\ y.n = s.n
  BY <1>3, <1>12, MemberSet
<1> HIDE DEF y
<1>14. Ready(y)
  <2>1. Apart(y) /\ Tally(y) /\ Timed(y.c, y.k, y.t)
    BY <1>2, <1>12, <1>13, ApartSame, TallySame DEF Fits, Timed
  <2> QED
    BY <1>1, <1>2, <1>4, <1>6, <1>7, <1>12, <1>13, <2>1 DEF Ready
<1>15. Replied(y, x)
  BY <1>14, CompleteRequestReplies
<1>16. a # "idle" => Busy(y)
  BY <1>1, <1>2, <1>4, <1>7, <1>12, <1>13 DEF Busy
<1> HIDE DEF x
<1>17. /\ Fits(z) /\ z.c = x.c /\ z.k.svc = x.k.svc /\ z.k.life = x.k.life /\ z.k.at = a /\ Pending(z.c, z.k, z.q)
  <2>1. Fits(x) /\ Pending(x.c, x.k, x.q) /\ (a = "idle" \/ Busy(x))
    BY <1>15, <1>16 DEF Replied
  <2> QED
    <3>1. a \in {"idle", "fed", "tested"}
      BY <1>4
    <3>2. LET r == [x EXCEPT !.k.at = a]
          IN  /\ Fits(r) /\ r.c = x.c /\ r.q = x.q /\ r.k.svc = x.k.svc /\ r.k.life = x.k.life /\ r.k.at = a
              /\ Pending(x.c, x.k, x.q) => Pending(r.c, r.k, r.q)
      <4> HIDE DEF a
      <4> QED
        BY <2>1, <3>1, AtFits, ZenonT(60)
    <3> HIDE DEF a
    <3> QED
      BY <2>1, <3>2
<1>18. Server!Becomes(z)
  BY <1>1, <1>9, <1>11
<1> HIDE DEF z
<1>19. z.c = c /\ z.k.svc = conn[c].svc /\ z.k.life # "accepting"
  BY <1>2, <1>12, <1>13, <1>15, <1>17 DEF Replied
<1> QED
  BY <1>1, <1>4, <1>17, <1>18, <1>19, BecomesKeeps

LEMMA ElapseKeeps ==
  ASSUME ServerInv, NEW w \in Server!Workers, Server!Elapse(w)
  PROVE  ServerInv'
<1> DEFINE j == Server!Job("tick", None, "ok", None)
           p == Append(jobs[w], j)
<1>1. /\ jobs' = [jobs EXCEPT ![w] = p]
      /\ conn' = conn /\ timer' = timer /\ load' = load /\ accepting' = accepting
  BY DEF Server!Elapse
<1>2. /\ conn \in [Conns -> Members] /\ timer \in [Server!Workers -> Timers]
      /\ jobs \in [Server!Workers -> Seq(Handlers)] /\ load \in [Server!Workers -> Int]
      /\ accepting \in Conns \cup {None}
      /\ \A v \in Server!Workers : WorkerInv(v, conn, timer, jobs, load)
      /\ \A c \in Conns : ConnInv(c, conn, timer, jobs, accepting)
  BY DEF ServerInv, InvOf
<1>3. j \in Handlers /\ j.c = None
  BY DEF Server!Job, Handlers
<1> HIDE DEF j
<1>4. \A d \in Conns : p \in Seq(Handlers) /\ Moved(d, jobs[w], p, 0)
  <2>1. None \notin Conns
    BY ServerAssumption DEF Server!CrowAssumption
  <2> QED
    BY <1>2, <1>3, <2>1, AppendMoved
<1>5. p \in Seq(Handlers) /\ Len(p) = Len(jobs[w]) + 1 /\ (\A i \in DOMAIN jobs[w] : p[i] = jobs[w][i])
      /\ p[Len(jobs[w]) + 1] = j
  BY <1>2, <1>3
<1>6. \A i \in DOMAIN p : (i \in DOMAIN jobs[w] /\ p[i] = jobs[w][i]) \/ p[i].c = None
  <2>1. DOMAIN p = 1 .. Len(jobs[w]) + 1 /\ DOMAIN jobs[w] = 1 .. Len(jobs[w])
    BY <1>2, <1>5
  <2> HIDE DEF p
  <2> QED
    BY <1>3, <1>5, <2>1
<1> HIDE DEF p
<1>7. jobs' \in [Server!Workers -> Seq(Handlers)]
  BY <1>1, <1>2, <1>5
<1>8. ASSUME NEW v \in Server!Workers
      PROVE  WorkerInv(v, conn', timer', jobs', load')
  <2>1. WorkerInv(v, conn, timer, jobs, load)
    BY <1>2
  <2>2. jobs'[v] = IF v = w THEN p ELSE jobs[v]
    BY <1>1, <1>2
  <2>3. \A i \in DOMAIN jobs'[v] : jobs'[v][i].c # None => conn[jobs'[v][i].c].svc = v
    BY <1>6, <2>1, <2>2 DEF WorkerInv
  <2> QED
    BY <1>1, <2>1, <2>3 DEF WorkerInv
<1>9. ASSUME NEW c \in Conns
      PROVE  ConnInv(c, conn', timer', jobs', accepting')
  <2>1. ConnInv(c, conn, timer, jobs, accepting) /\ conn[c].svc \in Server!Workers
    BY <1>2 DEF Members
  <2>2. CASE conn[c].svc = w
    <3>1. QueuedFor(c, conn[c], jobs[w]) /\ Pending(c, conn[c], jobs[w])
      BY <2>1, <2>2 DEF ConnInv
    <3>2. QueuedFor(c, conn[c], p) /\ Pending(c, conn[c], p)
      BY <1>2, <1>4, <3>1, QueuedMoved
    <3>3. jobs'[conn[c].svc] = p
      BY <1>1, <1>2, <2>2
    <3> QED
      BY <1>1, <2>1, <3>2, <3>3 DEF ConnInv
  <2>3. CASE conn[c].svc # w
    BY <1>1, <1>2, <2>1, <2>3 DEF ConnInv
  <2> QED
    BY <2>2, <2>3
<1> QED
  BY <1>1, <1>2, <1>7, <1>8, <1>9 DEF ServerInv, InvOf

-----------------------------------------------------------------------------
(* The kernel and the clients *)

\* A read that brings data is counted on its connection.
LEMMA ReadsBound ==
  ASSUME ServerInv, NEW c \in Conns, Server!Cardinality(Server!Reads) < MaxReads
  PROVE  conn[c].reads < MaxReads
<1> DEFINE all == Conns \X (1 .. MaxReads)
           own == {c} \X (1 .. MaxReads)
           reads == Server!Reads
<1>1. MaxReads \in Nat /\ IsFiniteSet(Conns) /\ conn[c].reads \in Nat /\ Cardinality(reads) < MaxReads
  BY ServerAssumption, SameCount DEF Server!CrowAssumption, ServerInv, InvOf, Members
<1>2. reads \subseteq all
  BY DEF Server!Reads
<1>3. IsFiniteSet(1 .. MaxReads) /\ Cardinality(1 .. MaxReads) = MaxReads
  BY <1>1, FS_Interval
<1>4. IsFiniteSet({c}) /\ Cardinality({c}) = 1
  BY FS_Singleton
<1>5. IsFiniteSet(all)
  BY <1>1, <1>3, FS_Product
<1>6. IsFiniteSet(own) /\ Cardinality(own) = MaxReads
  <2>1. IsFiniteSet(own) /\ Cardinality(own) = Cardinality({c}) * Cardinality(1 .. MaxReads)
    BY <1>3, <1>4, FS_Product
  <2> QED
    BY <1>1, <1>3, <1>4, <2>1
<1>7. SUFFICES ASSUME conn[c].reads >= MaxReads
               PROVE  FALSE
  BY <1>1
<1>8. own \subseteq reads
  BY <1>1, <1>7 DEF Server!Reads
<1> HIDE DEF all, own, reads
<1>9. IsFiniteSet(reads)
  BY <1>2, <1>5, FS_Subset
<1>10. Cardinality(own) <= Cardinality(reads) /\ Cardinality(reads) \in Nat
  BY <1>8, <1>9, FS_Subset, FS_CardinalityType
<1> QED
  BY <1>1, <1>6, <1>10

\* Without pipelining, what arrives finds the last request answered.
LEMMA ArriveKeeps ==
  ASSUME ServerInv, ~Piped, \A k \in Kinds : k.expect # "hurry", NEW c \in Conns, NEW what, NEW req,
         (what \in {"error", "piece"} /\ req = None) \/ (what \in Server!Parts /\ req \in Kinds),
         Server!Arrive(c, what, req)
  PROVE  ServerInv'
<1> DEFINE s == Server!World(c)
           w == conn[c].svc
           j == Server!Job("read", c, what, req)
           reads == IF what = "error" THEN s.k.reads ELSE s.k.reads + 1
           piece == CASE what = "head" -> req [] what = "rest" -> None [] OTHER -> s.k.part
           k == [s.k EXCEPT !.reading = FALSE, !.reads = reads, !.part = piece]
           q == Append(s.q, j)
           v == [s EXCEPT !.k = k]
           r == [v EXCEPT !.q = q]
<1>1. /\ conn[c].reading /\ timer' = timer /\ load' = load /\ accepting' = accepting
      /\ what # "error" => Server!Cardinality(Server!Reads) < MaxReads
      /\ what \in Server!Parts => Server!Answered(conn[c])
      /\ what = "whole" => req.expect # "wait" /\ conn[c].part = None
      /\ what = "head" => conn[c].part = None
      /\ conn' = [conn EXCEPT ![c].reading = FALSE, ![c].reads = IF what = "error" THEN @ ELSE @ + 1,
                              ![c].part = CASE what = "head" -> req [] what = "rest" -> None [] OTHER -> @]
      /\ jobs' = [jobs EXCEPT ![w] = Append(@, j)]
  BY DEF Server!Arrive, Server!Parts
<1>2. /\ Fits(s) /\ Pending(s.c, s.k, s.q) /\ s.c = c /\ s.k = conn[c] /\ s.t = timer[w] /\ s.q = jobs[w]
      /\ s.n = load[w]
  BY WorldFits
<1>3. s \in ServerWorlds /\ conn[c] \in Members /\ w \in Server!Workers /\ s.q \in Seq(Handlers)
  BY <1>2 DEF Fits, ServerWorlds, Members
<1>4. conn' = [conn EXCEPT ![c] = k] /\ jobs' = [jobs EXCEPT ![w] = q]
  BY <1>1, <1>2, <1>3 DEF ServerInv, InvOf
<1>5. j \in Handlers /\ j.c = c /\ j.op = "read" /\ j.what = what /\ j.req = req
  BY DEF Server!Job, Handlers, Server!Parts
<1>6. reads \in Nat /\ s.k.reads <= reads /\ reads <= MaxReads /\ (what # "error" => reads = s.k.reads + 1)
  <2>1. s.k.reads \in Nat /\ MaxReads \in Nat /\ s.k.reads <= MaxReads
    BY <1>2, <1>3, ServerAssumption DEF Fits, Coherent, Server!CrowAssumption, Members
  <2>2. what # "error" => s.k.reads < MaxReads
    BY <1>1, <1>2, ReadsBound
  <2> QED
    BY <2>1, <2>2
<1>7. piece \in Kinds \cup {None} /\ (what \notin {"head", "rest"} => piece = s.k.part)
      /\ (what = "head" => piece = req) /\ (what = "rest" => piece = None)
  BY <1>2, <1>3 DEF Members
<1> HIDE DEF reads, piece
<1>8. /\ k \in Members /\ ~k.reading /\ k.reads = reads /\ k.part = piece
      /\ k.life = s.k.life /\ k.open = s.k.open /\ k.asked = s.k.asked
      /\ k.is_reading = s.k.is_reading /\ k.is_writing = s.k.is_writing /\ k.need_after = s.k.need_after
      /\ k.need_read = s.k.need_read /\ k.at = s.k.at
      /\ k.task_id = s.k.task_id /\ k.completed = s.k.completed /\ k.hook = s.k.hook
      /\ k.writes = s.k.writes /\ k.users = s.k.users /\ k.sent = s.k.sent /\ k.svc = s.k.svc
  BY <1>2, <1>3, <1>6, <1>7 DEF Members
<1> HIDE DEF k, s, j
<1>9. v \in ServerWorlds /\ v.c = s.c /\ v.k = k /\ v.q = s.q /\ v.t = s.t /\ v.n = s.n
  BY <1>3, <1>8, MemberSet
<1> HIDE DEF v
<1>10. r \in ServerWorlds /\ r.c = s.c /\ r.k = k /\ r.q = q /\ r.t = s.t /\ r.n = s.n
  BY <1>3, <1>5, <1>9 DEF ServerWorlds
<1> HIDE DEF r
<1>11. /\ s.k.life = "live" /\ s.k.open /\ s.k.is_reading /\ s.k.at = "idle" /\ ~s.k.hook /\ ~s.k.need_read
       /\ Lacks(c, s.q, "read") /\ Single(c, s.q) /\ s.k.asked <= s.k.reads /\ s.k.asked \in Nat
       /\ (s.k.part # None => Len(s.k.sent) = s.k.asked)
  BY <1>1, <1>2, <1>3 DEF Fits, Coherent, QueuedFor, Members
<1>12. what \in Server!Parts => s.k.writes = 0 /\ Len(s.k.sent) = s.k.asked
  BY <1>1, <1>2, <1>11 DEF Server!Answered
<1>13. ASSUME what \in Server!Parts
       PROVE  AsksAt(c, k, q, Len(s.q) + 1)
  <2>1. /\ q[Len(s.q) + 1] = j /\ DOMAIN q = 1 .. Len(s.q) + 1 /\ Len(s.q) \in Nat
        /\ \A i \in DOMAIN s.q : i \in DOMAIN q /\ q[i] = s.q[i]
    BY <1>3, <1>5
  <2>2. what # "error" /\ what \in {"whole", "head", "rest"}
    BY <1>13 DEF Server!Parts
  <2>3. k.writes = 0 /\ Len(k.sent) = k.asked /\ k.reads > 0 /\ k.asked < k.reads
    <3>1. s.k.reads \in Nat
      BY <1>2, <1>3 DEF Members
    <3> QED
      BY <1>6, <1>8, <1>11, <1>12, <1>13, <2>2, <3>1
  <2>4. k.completed => ~Lacks(c, q, "write")
    <3>1. k.completed => ~Lacks(c, s.q, "write")
      BY <1>2, <1>8, <1>11, <1>12, <1>13 DEF Pending
    <3> QED
      BY <2>1, <3>1 DEF Lacks
  <2>5. ASSUME NEW i \in DOMAIN q, q[i].c = c, q[i].op = "write"
        PROVE  i < Len(s.q) + 1
    <3>1. i # Len(s.q) + 1
      BY <1>5, <2>1, <2>5
    <3> QED
      BY <2>1, <3>1
  <2>6. req \in Kinds /\ (what = "whole" => req.expect = "no")
    <3>1. req \in Kinds
      BY <2>2 DEF Server!Parts
    <3>2. req.expect \in {"no", "wait", "hurry"}
      BY <3>1, ServerAssumption DEF Server!CrowAssumption, Server!AllKinds
    <3> QED
      BY <1>1, <3>1, <3>2
  <2>7. what # "head" => k.part = None
    BY <1>1, <1>2, <1>7, <1>8, <2>2
  <2> HIDE DEF q
  <2> QED
    BY <1>5, <2>1, <2>3, <2>4, <2>5, <2>6, <2>7 DEF AsksAt
<1>14. /\ q \in Seq(Handlers) /\ Single(c, q) /\ Asks(c, k, q)
       /\ \A op : op # "read" => (Lacks(c, q, op) <=> Lacks(c, s.q, op))
  <2>1. Asks(c, k, s.q)
    BY <1>11, LacksAsks
  <2> QED
    BY <1>3, <1>5, <1>11, <1>13, <2>1, OwnAppended
<1> HIDE DEF q
<1>15. Coherent(k)
  <2>1. k.part # None => Len(k.sent) = k.asked
    BY <1>7, <1>8, <1>11, <1>12 DEF Server!Parts
  <2>2. Len(k.sent) <= k.reads /\ k.asked <= k.reads /\ k.reads <= MaxReads /\ (k.writes = 1 => k.reads > 0)
    <3>1. Len(s.k.sent) <= s.k.reads /\ (s.k.writes = 1 => s.k.reads > 0) /\ Len(s.k.sent) \in Nat
      BY <1>2, <1>3 DEF Fits, Coherent, Members
    <3>2. s.k.reads \in Nat
      BY <1>2, <1>3 DEF Members
    <3>3. MaxReads \in Nat
      BY ServerAssumption DEF Server!CrowAssumption
    <3> QED
      BY <1>6, <1>8, <1>11, <3>1, <3>2, <3>3
  <2> QED
    BY <1>2, <1>8, <1>11, <2>1, <2>2 DEF Fits, Coherent
<1>16. QueuedFor(c, k, q) /\ Pending(c, k, q)
  BY <1>2, <1>8, <1>11, <1>14 DEF Fits, QueuedFor, Pending
<1>17. Timed(c, k, s.t)
  BY <1>2, <1>8 DEF Fits, Timed
<1>18. Apart(r) /\ Tally(r)
  <2>1. Tally(r)
    BY <1>2, <1>8, <1>10, TallySame DEF Fits
  <2>2. q = Append(s.q, j)
    BY DEF q
  <2>3. Apart(r)
    BY <1>2, <1>3, <1>5, <1>8, <1>10, <2>2, ApartAppends DEF Fits
  <2> QED
    BY <2>1, <2>3
<1>19. Fits(r) /\ Pending(r.c, r.k, r.q)
  BY <1>2, <1>10, <1>15, <1>16, <1>17, <1>18 DEF Fits
<1>20. Server!Becomes(r)
  <2>1. r.k.svc = w /\ r.c = c /\ r.k = k /\ r.t = timer[w] /\ r.q = q /\ r.n = load[w]
    BY <1>2, <1>8, <1>10
  <2>2. /\ timer' = [timer EXCEPT ![w] = timer[w]] /\ load' = [load EXCEPT ![w] = load[w]]
    BY <1>1, <1>3, LeftAlone
  <2> HIDE DEF w
  <2> QED
    BY <1>4, <2>1, <2>2 DEF Server!Becomes
<1> QED
  BY <1>1, <1>2, <1>8, <1>10, <1>11, <1>19, <1>20, BecomesKeeps

LEMMA ServerWrittenKeeps ==
  ASSUME ServerInv, NEW c \in Conns, NEW what \in {"ok", "error"}, Server!Written(c, what)
  PROVE  ServerInv'
<1> DEFINE s == Server!World(c)
           w == conn[c].svc
           j == Server!Job("write", c, what, None)
           k == [s.k EXCEPT !.writes = 0]
           q == Append(s.q, j)
           v == [s EXCEPT !.k = k]
           r == [v EXCEPT !.q = q]
<1>1. /\ conn[c].writes > 0 /\ timer' = timer /\ load' = load /\ accepting' = accepting
      /\ \A i \in DOMAIN jobs[w] : ~(jobs[w][i].op = "read" /\ jobs[w][i].c = c)
      /\ conn' = [conn EXCEPT ![c].writes = @ - 1] /\ jobs' = [jobs EXCEPT ![w] = Append(@, j)]
  BY DEF Server!Written
<1>2. /\ Fits(s) /\ Pending(s.c, s.k, s.q) /\ s.c = c /\ s.k = conn[c] /\ s.t = timer[w] /\ s.q = jobs[w]
      /\ s.n = load[w]
  BY WorldFits
<1>3. s \in ServerWorlds /\ conn[c] \in Members /\ w \in Server!Workers /\ s.q \in Seq(Handlers)
  BY <1>2 DEF Fits, ServerWorlds, Members
<1>4. s.k.writes = 1 /\ s.k.life = "live" /\ s.k.open /\ s.k.is_writing /\ ~s.k.hook /\ Single(c, s.q)
      /\ Lacks(c, s.q, "write") /\ Lacks(c, s.q, "read")
  <2>1. /\ s.k.writes = 1 /\ s.k.life = "live" /\ s.k.open /\ s.k.is_writing /\ ~s.k.hook
    BY <1>1, <1>2 DEF Fits, Coherent
  <2>2. Single(c, s.q) /\ Lacks(c, s.q, "write")
    BY <1>2, <2>1 DEF Fits, QueuedFor
  <2>3. Lacks(c, s.q, "read")
    BY <1>1, <1>2 DEF Lacks
  <2> QED
    BY <2>1, <2>2, <2>3
<1>5. conn' = [conn EXCEPT ![c] = k] /\ jobs' = [jobs EXCEPT ![w] = q]
  <2>1. conn[c].writes - 1 = 0
    BY <1>2, <1>4
  <2> QED
    BY <1>1, <1>2, <1>3, <2>1 DEF ServerInv, InvOf
<1>6. j \in Handlers /\ j.c = c /\ j.op = "write"
  BY DEF Server!Job, Handlers
<1>7. /\ k \in Members /\ k.writes = 0 /\ k.reading = s.k.reading /\ k.reads = s.k.reads /\ k.part = s.k.part
      /\ k.life = s.k.life /\ k.open = s.k.open /\ k.asked = s.k.asked
      /\ k.is_reading = s.k.is_reading /\ k.is_writing = s.k.is_writing /\ k.need_after = s.k.need_after
      /\ k.need_read = s.k.need_read /\ k.at = s.k.at
      /\ k.task_id = s.k.task_id /\ k.completed = s.k.completed /\ k.hook = s.k.hook
      /\ k.users = s.k.users /\ k.sent = s.k.sent /\ k.svc = s.k.svc
  BY <1>2, <1>3 DEF Members
<1> HIDE DEF k, s, j
<1>8. v \in ServerWorlds /\ v.c = s.c /\ v.k = k /\ v.q = s.q /\ v.t = s.t /\ v.n = s.n
  BY <1>3, <1>7, MemberSet
<1> HIDE DEF v
<1>9. r \in ServerWorlds /\ r.c = s.c /\ r.k = k /\ r.q = q /\ r.t = s.t /\ r.n = s.n
  BY <1>3, <1>6, <1>8 DEF ServerWorlds
<1> HIDE DEF r
<1>10. /\ q \in Seq(Handlers) /\ Single(c, q) /\ Asks(c, k, q) /\ ~Lacks(c, q, "write")
       /\ \A op : op # "write" => (Lacks(c, q, op) <=> Lacks(c, s.q, op))
  <2>1. Asks(c, k, s.q) /\ Unasked(c, s.q)
    BY <1>4, LacksAsks, LacksUnasked
  <2> QED
    BY <1>3, <1>4, <1>6, <2>1, OwnAppended
<1>11. Coherent(k)
  BY <1>2, <1>4, <1>7 DEF Fits, Coherent
<1>12. QueuedFor(c, k, q) /\ Pending(c, k, q)
  <2> HIDE DEF q
  <2> QED
    BY <1>2, <1>4, <1>7, <1>10 DEF Fits, QueuedFor, Pending
<1>13. Timed(c, k, s.t)
  BY <1>2, <1>7 DEF Fits, Timed
<1>14. Tally(r)
  BY <1>2, <1>7, <1>9, TallySame DEF Fits
<1>15. Apart(r)
  BY <1>2, <1>3, <1>6, <1>7, <1>9, ApartAppends DEF Fits
<1> HIDE DEF q
<1>16. Fits(r) /\ Pending(r.c, r.k, r.q)
  BY <1>2, <1>9, <1>11, <1>12, <1>13, <1>14, <1>15 DEF Fits
<1>17. Server!Becomes(r)
  <2>1. r.k.svc = w /\ r.c = c /\ r.k = k /\ r.t = timer[w] /\ r.q = q /\ r.n = load[w]
    BY <1>2, <1>7, <1>9
  <2>2. /\ timer' = [timer EXCEPT ![w] = timer[w]] /\ load' = [load EXCEPT ![w] = load[w]]
    BY <1>1, <1>3, LeftAlone
  <2> HIDE DEF w
  <2> QED
    BY <1>5, <2>1, <2>2 DEF Server!Becomes
<1>18. s.k.at # "threw"
  BY <1>2 DEF ServerInv, InvOf, ConnInv
<1> QED
  BY <1>1, <1>2, <1>4, <1>7, <1>9, <1>16, <1>17, <1>18, BecomesKeeps

-----------------------------------------------------------------------------
(* The timer of a worker *)

LEMMA EndedJobs ==
  ASSUME ServerInv, NEW c \in Conns
  PROVE  LET e == Server!Ended(Server!World(c))
         IN  /\ DOMAIN e \subseteq 1 .. 2
             /\ \A i \in DOMAIN e : /\ e[i] \in Handlers /\ e[i].c = c /\ e[i].what = "error"
                                    /\ e[i].op \in {"read", "write"}
                                    /\ e[i].op = "read" => conn[c].reading
                                    /\ e[i].op = "write" => conn[c].writes = 1
             /\ \A i, j \in DOMAIN e : e[i].op = e[j].op => i = j
<1> DEFINE s == Server!World(c)
           e == Server!Ended(s)
           rd == Server!Job("read", c, "error", None)
           wr == Server!Job("write", c, "error", None)
<1>1. s.c = c /\ s.k = conn[c] /\ conn[c].writes \in {0, 1}
  BY WorldFits DEF Fits, Coherent
<1>2. /\ rd \in Handlers /\ rd.op = "read" /\ rd.c = c /\ rd.what = "error"
      /\ wr \in Handlers /\ wr.op = "write" /\ wr.c = c /\ wr.what = "error"
  BY NewJobs
<1>3. e = CASE conn[c].reading /\ conn[c].writes = 1 -> <<rd, wr>>
            [] conn[c].reading /\ conn[c].writes = 0 -> <<rd>>
            [] ~conn[c].reading /\ conn[c].writes = 1 -> <<wr>>
            [] ~conn[c].reading /\ conn[c].writes = 0 -> <<>>
  BY <1>1, EndedIs
<1> HIDE DEF s, e, rd, wr
<1>4. CASE conn[c].reading /\ conn[c].writes = 1
  <2>1. e = <<rd, wr>>
    BY <1>3, <1>4
  <2> QED
    BY <1>2, <1>4, <2>1 DEF e, s
<1>5. CASE conn[c].reading /\ conn[c].writes = 0
  <2>1. e = <<rd>>
    BY <1>3, <1>5
  <2> QED
    BY <1>2, <1>5, <2>1 DEF e, s
<1>6. CASE ~conn[c].reading /\ conn[c].writes = 1
  <2>1. e = <<wr>>
    BY <1>3, <1>6
  <2> QED
    BY <1>2, <1>6, <2>1 DEF e, s
<1>7. CASE ~conn[c].reading /\ conn[c].writes = 0
  <2>1. e = <<>>
    BY <1>3, <1>7
  <2> QED
    BY <1>7, <2>1 DEF e, s
<1>8. conn[c].reading \in BOOLEAN
  BY DEF ServerInv, InvOf, Members
<1> QED
  BY <1>1, <1>4, <1>5, <1>6, <1>7, <1>8

LEMMA ConcatIs ==
  ASSUME NEW q \in Seq(Handlers), NEW fs \in Seq(Handlers)
  PROVE  LET p == q \o fs
         IN  /\ p \in Seq(Handlers) /\ DOMAIN p = 1 .. Len(q) + Len(fs) /\ DOMAIN q = 1 .. Len(q)
             /\ DOMAIN fs = 1 .. Len(fs) /\ Len(q) \in Nat /\ Len(fs) \in Nat
             /\ \A i \in DOMAIN q : i \in DOMAIN p /\ p[i] = q[i]
             /\ \A i \in DOMAIN p : i \in DOMAIN q \/ (i - Len(q) \in DOMAIN fs /\ p[i] = fs[i - Len(q)])
<1> DEFINE p == q \o fs
<1>1. /\ p \in Seq(Handlers) /\ Len(p) = Len(q) + Len(fs) /\ Len(q) \in Nat /\ Len(fs) \in Nat
      /\ DOMAIN q = 1 .. Len(q) /\ DOMAIN fs = 1 .. Len(fs) /\ DOMAIN p = 1 .. Len(p)
  <2>1. p \in Seq(Handlers) /\ Len(p) = Len(q) + Len(fs)
    BY ConcatProperties
  <2> HIDE DEF p
  <2> QED
    BY <2>1
<1>2. \A i \in 1 .. Len(q) + Len(fs) : p[i] = IF i <= Len(q) THEN q[i] ELSE fs[i - Len(q)]
  BY ConcatProperties
<1> HIDE DEF p
<1>3. DOMAIN p = 1 .. Len(q) + Len(fs)
  BY <1>1
<1>4. \A i \in DOMAIN q : i \in DOMAIN p /\ p[i] = q[i]
  BY <1>1, <1>2, <1>3
<1>5. \A i \in DOMAIN p : i \in DOMAIN q \/ (i - Len(q) \in DOMAIN fs /\ p[i] = fs[i - Len(q)])
  <2>1. SUFFICES ASSUME NEW i \in DOMAIN p, i \notin DOMAIN q
                 PROVE  i - Len(q) \in DOMAIN fs /\ p[i] = fs[i - Len(q)]
    OBVIOUS
  <2>2. i \in Int /\ i > Len(q) /\ i <= Len(q) + Len(fs)
    BY <1>1, <1>3, <2>1
  <2>3. p[i] = fs[i - Len(q)]
    BY <1>1, <1>2, <1>3, <2>2
  <2>4. i - Len(q) \in 1 .. Len(fs)
    BY <1>1, <2>2
  <2> QED
    BY <1>1, <2>3, <2>4
<1> QED
  BY <1>1, <1>3, <1>4, <1>5

\* The handlers of what waited on a socket are queued when it is closed,
\* possibly between those of other sockets.
LEMMA EndsAppended ==
  ASSUME NEW c, NEW k, NEW h, NEW q \in Seq(Handlers), NEW fs \in Seq(Handlers),
         Coherent(k), k.life = "live", QueuedFor(c, k, q), Single(c, fs),
         \A i \in DOMAIN fs : fs[i].c = c =>
           /\ fs[i].what = "error" /\ fs[i].op \in {"read", "write"}
           /\ fs[i].op = "read" => k.reading
           /\ fs[i].op = "write" => k.writes = 1,
         ~h.reading, h.writes = 0, ~h.open,
         h.life = k.life, h.reads = k.reads, h.asked = k.asked, h.part = k.part, h.is_reading = k.is_reading,
         h.is_writing = k.is_writing, h.need_read = k.need_read, h.hook = k.hook, h.at = k.at, h.sent = k.sent,
         h.completed = k.completed
  PROVE  q \o fs \in Seq(Handlers) /\ QueuedFor(c, h, q \o fs) /\ Pending(c, h, q \o fs)
<1> DEFINE p == q \o fs
<1>1. /\ p \in Seq(Handlers) /\ DOMAIN p = 1 .. Len(q) + Len(fs) /\ DOMAIN q = 1 .. Len(q) /\ DOMAIN fs = 1 .. Len(fs)
      /\ Len(q) \in Nat /\ Len(fs) \in Nat
      /\ \A i \in DOMAIN q : i \in DOMAIN p /\ p[i] = q[i]
      /\ \A i \in DOMAIN p : i \in DOMAIN q \/ (i - Len(q) \in DOMAIN fs /\ p[i] = fs[i - Len(q)])
  BY ConcatIs
<1> HIDE DEF p
<1>2. \A i \in DOMAIN p : p[i].c = c =>
        \/ i \in DOMAIN q /\ p[i] = q[i]
        \/ /\ i - Len(q) \in DOMAIN fs /\ p[i] = fs[i - Len(q)] /\ p[i].what = "error" /\ p[i].op \in {"read", "write"}
           /\ p[i].op = "read" => k.reading /\ Lacks(c, q, "read")
           /\ p[i].op = "write" => k.writes = 1 /\ Lacks(c, q, "write")
  <2>1. (k.reading => Lacks(c, q, "read")) /\ (k.writes = 1 => Lacks(c, q, "write"))
    BY DEF QueuedFor
  <2> QED
    BY <1>1, <2>1
<1>3. Single(c, p)
  <2>1. SUFFICES ASSUME NEW i \in DOMAIN p, NEW j \in DOMAIN p, p[i].c = c, p[j].c = c, p[i].op = p[j].op
                 PROVE  i = j
    BY DEF Single
  <2>2. CASE i \in DOMAIN q /\ j \in DOMAIN q
    BY <1>1, <2>1, <2>2 DEF QueuedFor, Single
  <2>3. CASE i \notin DOMAIN q /\ j \notin DOMAIN q
    <3>1. i - Len(q) \in DOMAIN fs /\ j - Len(q) \in DOMAIN fs /\ p[i] = fs[i - Len(q)] /\ p[j] = fs[j - Len(q)]
      BY <1>1, <2>3
    <3>2. i - Len(q) = j - Len(q)
      BY <2>1, <3>1 DEF Single
    <3> QED
      BY <1>1, <3>2
  <2>4. CASE i \in DOMAIN q /\ j \notin DOMAIN q
    <3>1. p[j].op \in {"read", "write"} /\ Lacks(c, q, p[j].op)
      BY <1>2, <2>1, <2>4
    <3> QED
      BY <1>1, <2>1, <2>4, <3>1 DEF Lacks
  <2>5. CASE i \notin DOMAIN q /\ j \in DOMAIN q
    <3>1. p[i].op \in {"read", "write"} /\ Lacks(c, q, p[i].op)
      BY <1>2, <2>1, <2>5
    <3> QED
      BY <1>1, <2>1, <2>5, <3>1 DEF Lacks
  <2> QED
    BY <2>2, <2>3, <2>4, <2>5
<1>4. ASSUME NEW op, Lacks(c, q, op), op = "read" => ~k.reading, op = "write" => k.writes # 1
      PROVE  Lacks(c, p, op)
  BY <1>2, <1>4 DEF Lacks
<1>5. Asks(c, h, p)
  <2>1. SUFFICES ASSUME NEW i \in DOMAIN p, p[i].c = c, p[i].op = "read", p[i].what \in Server!Parts
                 PROVE  AsksAt(c, h, p, i)
    BY DEF Asks
  <2>2. i \in DOMAIN q /\ p[i] = q[i]
    BY <1>2, <2>1 DEF Server!Parts
  <2>3. AsksAt(c, k, q, i)
    BY <2>1, <2>2 DEF QueuedFor, Asks
  <2>4. \A j \in DOMAIN p : p[j].c = c /\ p[j].op = "write" => j \in DOMAIN q /\ p[j] = q[j]
    <3>1. k.writes # 1
      BY <2>3 DEF AsksAt
    <3> QED
      BY <1>2, <3>1
  <2>5. ~Lacks(c, q, "write") => ~Lacks(c, p, "write")
    BY <1>1 DEF Lacks
  <2> QED
    BY <2>2, <2>3, <2>4, <2>5 DEF AsksAt
<1>6. h.life # "posted" => Lacks(c, p, "start")
  BY <1>4 DEF QueuedFor
<1>7. h.life # "live" \/ ~h.is_reading \/ h.reading \/ h.at \in {"fed", "tested"} \/ h.need_read \/ h.hook
        => Lacks(c, p, "read")
  <2>1. ~h.is_reading \/ h.at \in {"fed", "tested"} \/ h.need_read \/ h.hook => ~k.reading /\ Lacks(c, q, "read")
    BY DEF QueuedFor, Coherent
  <2> QED
    BY <1>4, <2>1
<1>8. h.life # "live" \/ ~h.is_writing \/ h.writes # 0 \/ h.hook => Lacks(c, p, "write")
  <2>1. ~h.is_writing \/ h.hook => k.writes # 1 /\ Lacks(c, q, "write")
    BY DEF QueuedFor, Coherent
  <2> QED
    BY <1>4, <2>1
<1> QED
  BY <1>1, <1>3, <1>5, <1>6, <1>7, <1>8 DEF QueuedFor, Pending, p

LEMMA TasksAre ==
  ASSUME ServerInv, NEW w \in Server!Workers, NEW x \in timer[w].tasks
  PROVE  /\ x.owner \in Conns /\ x.id \in Nat /\ x = [id |-> x.id, owner |-> x.owner]
         /\ x.id \in 1 .. timer[w].highest
         /\ conn[x.owner].svc = w /\ conn[x.owner].life = "live" /\ x.id = conn[x.owner].task_id
<1>1. timer[w] \in Timers /\ WorkerInv(w, conn, timer, jobs, load)
  BY DEF ServerInv, InvOf
<1>2. x \in [id : Nat, owner : Conns]
  BY <1>1 DEF Timers
<1>3. x.owner \in Conns /\ x.id \in Nat /\ x = [id |-> x.id, owner |-> x.owner]
  BY <1>2
<1>4. x.id \in 1 .. timer[w].highest /\ conn[x.owner].svc = w
  BY <1>1 DEF WorkerInv
<1>5. ConnInv(x.owner, conn, timer, jobs, accepting)
  BY <1>3 DEF ServerInv, InvOf
<1>6. Timed(x.owner, conn[x.owner], timer[w])
  BY <1>4, <1>5 DEF ConnInv
<1> QED
  BY <1>3, <1>4, <1>6 DEF Timed

\* A worker's timer has at most one task for each of its connections.
LEMMA TasksFinite ==
  ASSUME ServerInv, NEW w \in Server!Workers, NEW due, due \subseteq timer[w].tasks
  PROVE  IsFiniteSet(due)
<1> DEFINE f == [x \in due |-> x.owner]
<1>1. \A x \in due : x.owner \in Conns /\ x = [id |-> conn[x.owner].task_id, owner |-> x.owner]
  BY TasksAre
<1>2. f \in [due -> Conns] /\ \A x \in due : f[x] = x.owner
  BY <1>1
<1>3. \A x, y \in due : f[x] = f[y] => x = y
  <2> SUFFICES ASSUME NEW x \in due, NEW y \in due, f[x] = f[y]
               PROVE  x = y
    OBVIOUS
  <2>1. x.owner = y.owner
    BY <1>2
  <2> HIDE DEF f
  <2> QED
    BY <1>1, <2>1
<1> HIDE DEF f
<1>4. f \in Injection(due, Conns)
  BY <1>2, <1>3, Fun_IsInj
<1>5. IsFiniteSet(Conns)
  BY ServerAssumption, SameCount DEF Server!CrowAssumption
<1> QED
  BY <1>4, <1>5, FS_Injection

LEMMA ClosedIs ==
  ASSUME ServerInv, NEW c \in Conns
  PROVE  LET k == Server!CloseSocket(Server!World(c)).k
         IN  /\ k \in Members /\ ~k.open /\ ~k.reading /\ k.writes = 0
             /\ k.life = conn[c].life /\ k.reads = conn[c].reads /\ k.asked = conn[c].asked /\ k.part = conn[c].part
             /\ k.is_reading = conn[c].is_reading /\ k.need_after = conn[c].need_after /\ k.task_id = conn[c].task_id
             /\ k.need_read = conn[c].need_read /\ k.completed = conn[c].completed /\ k.hook = conn[c].hook
             /\ k.is_writing = conn[c].is_writing /\ k.at = conn[c].at /\ k.users = conn[c].users
             /\ k.sent = conn[c].sent /\ k.svc = conn[c].svc
<1> DEFINE s == Server!World(c)
           k == [s.k EXCEPT !.open = FALSE, !.reading = FALSE, !.writes = 0]
<1>1. s \in ServerWorlds /\ s.k \in Members /\ s.k = conn[c]
  BY WorldFits DEF Fits, ServerWorlds
<1> HIDE DEF s
<1>2. Server!CloseSocket(s) = [s EXCEPT !.k = k, !.q = s.q \o Server!Ended(s)]
  BY <1>1 DEF Server!CloseSocket, ServerWorlds
<1>3. /\ k \in Members /\ ~k.open /\ ~k.reading /\ k.writes = 0
      /\ k.life = s.k.life /\ k.reads = s.k.reads /\ k.asked = s.k.asked /\ k.part = s.k.part
      /\ k.is_reading = s.k.is_reading /\ k.need_after = s.k.need_after /\ k.task_id = s.k.task_id
      /\ k.need_read = s.k.need_read /\ k.completed = s.k.completed /\ k.hook = s.k.hook
      /\ k.is_writing = s.k.is_writing /\ k.at = s.k.at /\ k.users = s.k.users /\ k.sent = s.k.sent /\ k.svc = s.k.svc
  BY <1>1 DEF Members
<1> HIDE DEF k
<1>4. Server!CloseSocket(s).k = k
  BY <1>1, <1>2 DEF ServerWorlds
<1> QED
  BY <1>1, <1>3, <1>4 DEF s

\* The deadline closes sockets at any moment: each of them has its handlers
\* queued once, and only then do its deadlines leave the timer.
LEMMA RunTickKeeps ==
  ASSUME ServerInv, NEW w \in Server!Workers, NEW last, Server!RunTick(w, last)
  PROVE  ServerInv'
<1> DEFINE due == {x \in timer[w].tasks : x.id <= last}
           open == {x \in due : conn[x.owner].open}
           ends == UNION {{x} \X DOMAIN Server!Ended(Server!World(x.owner)) : x \in open}
           m == Server!Cardinality(ends)
           q == jobs[w]
           Hit(c) == \E x \in open : x.owner = c
<1>1. /\ Server!Next_(w, "tick") /\ load' = load /\ accepting' = accepting
      /\ conn' = [c \in Conns |-> IF Hit(c) THEN Server!CloseSocket(Server!World(c)).k ELSE conn[c]]
      /\ timer' = [timer EXCEPT ![w].tasks = @ \ due, ![w].highest = Server!HighestAfter(timer[w], due)]
      /\ \E es \in [1 .. m -> ends] :
           /\ \A i, j \in DOMAIN es : i < j => Server!Sooner(es[i], es[j])
           /\ jobs' = [jobs EXCEPT ![w] =
                         Tail(@) \o [i \in DOMAIN es |-> Server!Ended(Server!World(es[i][1].owner))[es[i][2]]]]
  BY DEF Server!RunTick
<1>2. /\ conn \in [Conns -> Members] /\ timer \in [Server!Workers -> Timers]
      /\ jobs \in [Server!Workers -> Seq(Handlers)] /\ load \in [Server!Workers -> Int]
      /\ accepting \in Conns \cup {None}
      /\ \A v \in Server!Workers : WorkerInv(v, conn, timer, jobs, load)
      /\ \A c \in Conns : ConnInv(c, conn, timer, jobs, accepting)
  BY DEF ServerInv, InvOf
<1>3. None \notin Conns
  BY ServerAssumption DEF Server!CrowAssumption
<1>4. q \in Seq(Handlers) /\ q # <<>> /\ Head(q).c = None /\ Tail(q) \in Seq(Handlers)
  <2>1. q \in Seq(Handlers) /\ q # <<>> /\ Head(q).op = "tick"
    BY <1>1, <1>2 DEF Server!Next_
  <2>2. Head(q) \in Handlers /\ Tail(q) \in Seq(Handlers)
    BY <2>1
  <2>3. Head(q).c = None
    BY <2>1, <2>2 DEF Handlers
  <2> QED
    BY <2>1, <2>2, <2>3
<1>5. \A x \in open : /\ x \in due /\ x \in timer[w].tasks /\ x.owner \in Conns /\ x.id \in Nat
                      /\ x = [id |-> x.id, owner |-> x.owner] /\ conn[x.owner].open
                      /\ conn[x.owner].svc = w /\ conn[x.owner].life = "live" /\ x.id = conn[x.owner].task_id
  BY TasksAre
<1>6. \A e \in ends : /\ e[1] \in open /\ e[1].id \in Nat /\ e[2] \in 1 .. 2 /\ e = <<e[1], e[2]>>
                      /\ e[2] \in DOMAIN Server!Ended(Server!World(e[1].owner))
  <2> SUFFICES ASSUME NEW e \in ends
               PROVE  /\ e[1] \in open /\ e[1].id \in Nat /\ e[2] \in 1 .. 2 /\ e = <<e[1], e[2]>>
                      /\ e[2] \in DOMAIN Server!Ended(Server!World(e[1].owner))
    OBVIOUS
  <2>1. PICK x \in open : e \in {x} \X DOMAIN Server!Ended(Server!World(x.owner))
    BY DEF ends
  <2>2. e[1] = x /\ e = <<e[1], e[2]>> /\ e[2] \in DOMAIN Server!Ended(Server!World(x.owner))
    BY <2>1
  <2> HIDE DEF open, ends
  <2> QED
    BY <1>5, <2>2, EndedJobs
<1>7. m \in Nat
  <2>1. IsFiniteSet(due)
    BY TasksFinite
  <2>2. IsFiniteSet(1 .. 2)
    <3>1. 1 .. 2 = {1} \cup {2}
      OBVIOUS
    <3>2. IsFiniteSet({1}) /\ IsFiniteSet({2})
      BY FS_Singleton
    <3> QED
      BY <3>1, <3>2, FS_Union
  <2>3. IsFiniteSet(due \X (1 .. 2))
    BY <2>1, <2>2, FS_Product
  <2>4. ends \subseteq due \X (1 .. 2)
    <3> HIDE DEF ends
    <3> QED
      BY <1>5, <1>6
  <2>5. IsFiniteSet(ends)
    <3> HIDE DEF ends
    <3> QED
      BY <2>3, <2>4, FS_Subset
  <2> QED
    BY <2>5, SameCount, FS_CardinalityType
<1>8. PICK es \in [1 .. m -> ends] :
           /\ \A i, j \in DOMAIN es : i < j => Server!Sooner(es[i], es[j])
           /\ jobs' = [jobs EXCEPT ![w] =
                         Tail(@) \o [i \in DOMAIN es |-> Server!Ended(Server!World(es[i][1].owner))[es[i][2]]]]
  BY <1>1
<1> HIDE DEF open, ends, m
<1> DEFINE fs == [i \in 1 .. m |-> Server!Ended(Server!World(es[i][1].owner))[es[i][2]]]
           p == Tail(q) \o fs
<1>9. \A i \in 1 .. m : /\ es[i] \in ends /\ es[i][1] \in open /\ fs[i] \in Handlers /\ fs[i].c = es[i][1].owner
                        /\ fs[i].what = "error" /\ fs[i].op \in {"read", "write"}
                        /\ fs[i].op = "read" => conn[fs[i].c].reading
                        /\ fs[i].op = "write" => conn[fs[i].c].writes = 1
  <2> SUFFICES ASSUME NEW i \in 1 .. m
               PROVE  /\ es[i] \in ends /\ es[i][1] \in open /\ fs[i] \in Handlers /\ fs[i].c = es[i][1].owner
                      /\ fs[i].what = "error" /\ fs[i].op \in {"read", "write"}
                      /\ fs[i].op = "read" => conn[fs[i].c].reading
                      /\ fs[i].op = "write" => conn[fs[i].c].writes = 1
    OBVIOUS
  <2>1. /\ es[i] \in ends /\ es[i][1] \in open /\ es[i][1].owner \in Conns
        /\ es[i][2] \in DOMAIN Server!Ended(Server!World(es[i][1].owner))
    BY <1>5, <1>6
  <2>2. fs[i] = Server!Ended(Server!World(es[i][1].owner))[es[i][2]]
    OBVIOUS
  <2> DEFINE d == es[i][1].owner
             e == Server!Ended(Server!World(d))
             n == es[i][2]
  <2>3. d \in Conns /\ n \in DOMAIN e /\ fs[i] = e[n]
    BY <2>1, <2>2
  <2>4. /\ e[n] \in Handlers /\ e[n].c = d /\ e[n].what = "error" /\ e[n].op \in {"read", "write"}
        /\ e[n].op = "read" => conn[d].reading
        /\ e[n].op = "write" => conn[d].writes = 1
    <3> HIDE DEF d, n
    <3>1. d \in Conns /\ n \in DOMAIN e
      BY <2>3
    <3>2. \A a \in DOMAIN e : /\ e[a] \in Handlers /\ e[a].c = d /\ e[a].what = "error"
                              /\ e[a].op \in {"read", "write"}
                              /\ e[a].op = "read" => conn[d].reading
                              /\ e[a].op = "write" => conn[d].writes = 1
      BY <3>1, EndedJobs
    <3> HIDE DEF e
    <3> QED
      BY <3>1, <3>2
  <2> HIDE DEF fs, e, n
  <2> QED
    BY <2>1, <2>3, <2>4
<1>10. fs \in Seq(Handlers) /\ DOMAIN fs = 1 .. m
  <2>1. fs \in [1 .. m -> Handlers]
    BY <1>9
  <2> HIDE DEF fs
  <2> QED
    BY <1>7, <2>1
<1>11. jobs' = [jobs EXCEPT ![w] = p]
  BY <1>8
<1>12. ASSUME NEW c \in Conns
       PROVE  Single(c, fs)
  <2>1. SUFFICES ASSUME NEW i \in 1 .. m, NEW j \in 1 .. m, fs[i].c = c, fs[j].c = c, fs[i].op = fs[j].op
                 PROVE  i = j
    BY <1>10 DEF Single
  <2>2. /\ es[i][1] \in open /\ es[i][1].owner = c /\ es[j][1] \in open /\ es[j][1].owner = c
        /\ es[i] \in ends /\ es[j] \in ends
    BY <1>9, <2>1
  <2>3. es[i][1] = es[j][1]
    BY <1>5, <2>2
  <2>4. /\ fs[i] = Server!Ended(Server!World(c))[es[i][2]] /\ fs[j] = Server!Ended(Server!World(c))[es[j][2]]
        /\ es[i][2] \in DOMAIN Server!Ended(Server!World(c)) /\ es[j][2] \in DOMAIN Server!Ended(Server!World(c))
    BY <1>6, <2>2
  <2> HIDE DEF fs
  <2>5. es[i][2] = es[j][2]
    BY <2>1, <2>4, EndedJobs
  <2>6. es[i] = es[j]
    BY <1>6, <2>2, <2>3, <2>5
  <2>7. \A e \in ends : e[1].id \in Nat /\ e[2] \in Nat
    BY <1>6
  <2> QED
    <3>1. ~Server!Sooner(es[i], es[j])
      BY <2>2, <2>6, <2>7 DEF Server!Sooner
    <3>2. ~Server!Sooner(es[j], es[i])
      BY <2>2, <2>6, <2>7 DEF Server!Sooner
    <3>3. ~(i < j) /\ ~(j < i)
      BY <1>8, <3>1, <3>2
    <3>4. i \in Int /\ j \in Int
      OBVIOUS
    <3> QED
      BY <3>3, <3>4
<1>13. /\ \A x \in timer'[w].tasks : x \in timer[w].tasks /\ x \notin due
       /\ timer'[w].robbed = timer[w].robbed /\ timer' \in [Server!Workers -> Timers]
       /\ \A x \in timer[w].tasks : x \notin due => x \in timer'[w].tasks
       /\ timer'[w].highest = timer[w].highest \/ timer'[w].tasks = {}
       /\ \A v \in Server!Workers : v # w => timer'[v] = timer[v]
  <2>1. timer[w] \in Timers
    BY <1>2
  <2> HIDE DEF due
  <2>2. \A t \in Timers : [t EXCEPT !.tasks = t.tasks \ due, !.highest = Server!HighestAfter(t, due)] \in Timers
    BY DEF Timers, Server!HighestAfter
  <2>3. /\ timer'[w] = [timer[w] EXCEPT !.tasks = timer[w].tasks \ due, !.highest = Server!HighestAfter(timer[w], due)]
        /\ \A v \in Server!Workers : v # w => timer'[v] = timer[v]
    BY <1>1, <1>2
  <2>4. timer' \in [Server!Workers -> Timers]
    <3>1. timer' = [timer EXCEPT ![w] = [timer[w] EXCEPT !.tasks = timer[w].tasks \ due,
                                                         !.highest = Server!HighestAfter(timer[w], due)]]
      BY <1>1, <1>2
    <3> QED
      BY <1>2, <2>1, <2>2, <3>1
  <2>5. /\ timer'[w].tasks = timer[w].tasks \ due /\ timer'[w].robbed = timer[w].robbed
        /\ timer'[w].highest = Server!HighestAfter(timer[w], due)
    BY <2>1, <2>3 DEF Timers
  <2>6. timer'[w].highest = timer[w].highest \/ timer'[w].tasks = {}
    BY <2>5 DEF Server!HighestAfter
  <2> QED
    BY <2>3, <2>4, <2>5, <2>6
<1> HIDE DEF fs, due
<1>14. conn' \in [Conns -> Members]
  BY <1>1, <1>2, ClosedIs
<1>15. \A c \in Conns : conn'[c].svc = conn[c].svc /\ conn'[c].life = conn[c].life
  BY <1>1, <1>2, ClosedIs
<1>16. jobs'[w] = p /\ (\A v \in Server!Workers : v # w => jobs'[v] = jobs[v])
  BY <1>2, <1>11
<1>17. /\ p \in Seq(Handlers)
       /\ \A i \in DOMAIN p : (i \in DOMAIN Tail(q) /\ p[i] = Tail(q)[i])
                              \/ (i - Len(Tail(q)) \in DOMAIN fs /\ p[i] = fs[i - Len(Tail(q))])
       /\ \A i \in DOMAIN Tail(q) : i \in DOMAIN p /\ p[i] = Tail(q)[i]
  <2> DEFINE tail == Tail(q)
  <2>1. tail \in Seq(Handlers) /\ fs \in Seq(Handlers)
    BY <1>4, <1>10
  <2> HIDE DEF tail
  <2>2. LET a == tail \o fs
        IN  /\ a \in Seq(Handlers)
            /\ \A i \in DOMAIN a : i \in DOMAIN tail \/ (i - Len(tail) \in DOMAIN fs /\ a[i] = fs[i - Len(tail)])
            /\ \A i \in DOMAIN tail : i \in DOMAIN a /\ a[i] = tail[i]
    BY <2>1, ConcatIs
  <2> QED
    BY <2>2 DEF tail
<1>18. jobs' \in [Server!Workers -> Seq(Handlers)]
  <2> HIDE DEF p
  <2> QED
    BY <1>2, <1>11, <1>17
<1>19. ASSUME NEW v \in Server!Workers
       PROVE  WorkerInv(v, conn', timer', jobs', load')
  <2>1. WorkerInv(v, conn, timer, jobs, load)
    BY <1>2
  <2>2. {d \in Conns : Counts(conn', d, v)} = {d \in Conns : Counts(conn, d, v)}
    BY <1>15 DEF Counts
  <2>3. \A x \in timer'[v].tasks : x.id \in 1 .. timer'[v].highest /\ conn'[x.owner].svc = v
    <3>1. \A x \in timer[v].tasks : x.owner \in Conns
      BY TasksAre
    <3> QED
      BY <1>13, <1>15, <2>1, <3>1 DEF WorkerInv
  <2>4. \A i \in DOMAIN jobs'[v] : jobs'[v][i].c # None => conn'[jobs'[v][i].c].svc = v
    <3>1. \A i \in DOMAIN jobs[v] : jobs[v][i].c # None => jobs[v][i].c \in Conns
      BY <1>2 DEF Handlers
    <3>2. CASE v # w
      BY <1>15, <1>16, <2>1, <3>1, <3>2 DEF WorkerInv
    <3>3. CASE v = w
      <4>1. \A i \in DOMAIN Tail(q) : i + 1 \in DOMAIN q /\ Tail(q)[i] = q[i + 1]
        BY <1>4
      <4>2. \A i \in DOMAIN Tail(q) : Tail(q)[i].c # None => Tail(q)[i].c \in Conns /\ conn[Tail(q)[i].c].svc = w
        BY <2>1, <3>1, <3>3, <4>1 DEF WorkerInv
      <4>3. \A i \in DOMAIN fs : fs[i].c \in Conns /\ conn[fs[i].c].svc = w
        BY <1>5, <1>9, <1>10
      <4> HIDE DEF p
      <4>4. \A i \in DOMAIN p : p[i].c # None => p[i].c \in Conns /\ conn[p[i].c].svc = w
        BY <1>17, <4>2, <4>3
      <4> QED
        BY <1>15, <1>16, <3>3, <4>4
    <3> QED
      BY <3>2, <3>3
  <2> QED
    BY <1>1, <2>1, <2>2, <2>3, <2>4 DEF WorkerInv
<1>20. ASSUME NEW c \in Conns
       PROVE  ConnInv(c, conn', timer', jobs', accepting')
  <2>1. ConnInv(c, conn, timer, jobs, accepting) /\ conn[c].svc \in Server!Workers
    BY <1>2 DEF Members
  <2>2. Hit(c) => conn[c].svc = w /\ conn[c].life = "live"
    BY <1>5
  <2>3. CASE conn[c].svc # w
    <3>1. conn'[c] = conn[c]
      BY <1>1, <2>2, <2>3
    <3> QED
      BY <1>1, <1>13, <1>16, <2>1, <2>3, <3>1 DEF ConnInv
  <2>4. CASE conn[c].svc = w
    <3>1. QueuedFor(c, conn[c], q) /\ Pending(c, conn[c], q) /\ Timed(c, conn[c], timer[w]) /\ Coherent(conn[c])
      BY <2>1, <2>4 DEF ConnInv
    <3>2. QueuedFor(c, conn[c], Tail(q)) /\ Pending(c, conn[c], Tail(q))
      <4>1. Moved(c, q, Tail(q), 1)
        BY <1>3, <1>4, TailMoved
      <4> QED
        BY <1>4, <3>1, <4>1, QueuedMoved
    <3>3. QueuedFor(c, conn'[c], p) /\ Pending(c, conn'[c], p) /\ Coherent(conn'[c]) /\ conn'[c].at = conn[c].at
      <4>1. CASE Hit(c)
        <5> DEFINE k == Server!CloseSocket(Server!World(c)).k
        <5>1. conn'[c] = k
          BY <1>1, <4>1
        <5>2. /\ k \in Members /\ ~k.open /\ ~k.reading /\ k.writes = 0
              /\ k.life = conn[c].life /\ k.reads = conn[c].reads /\ k.asked = conn[c].asked /\ k.part = conn[c].part
              /\ k.is_reading = conn[c].is_reading /\ k.need_after = conn[c].need_after
              /\ k.need_read = conn[c].need_read /\ k.completed = conn[c].completed /\ k.hook = conn[c].hook
              /\ k.is_writing = conn[c].is_writing /\ k.at = conn[c].at /\ k.users = conn[c].users
              /\ k.sent = conn[c].sent
          BY ClosedIs
        <5> HIDE DEF k
        <5>3. \A i \in DOMAIN fs : fs[i].c = c =>
                /\ fs[i].what = "error" /\ fs[i].op \in {"read", "write"}
                /\ fs[i].op = "read" => conn[c].reading
                /\ fs[i].op = "write" => conn[c].writes = 1
          BY <1>9, <1>10
        <5>4. QueuedFor(c, k, p) /\ Pending(c, k, p)
          BY <1>4, <1>10, <1>12, <2>2, <3>1, <3>2, <4>1, <5>2, <5>3, EndsAppended
        <5>5. Coherent(k)
          BY <2>2, <3>1, <4>1, <5>2 DEF Coherent
        <5> QED
          BY <5>1, <5>2, <5>4, <5>5
      <4>2. CASE ~Hit(c)
        <5>1. conn'[c] = conn[c]
          BY <1>1, <4>2
        <5>2. \A i \in DOMAIN fs : fs[i].c # c
          BY <1>9, <1>10, <4>2
        <5>3. Moved(c, Tail(q), p, 0)
          <6> HIDE DEF p
          <6>1. DOMAIN Tail(q) \subseteq Int /\ DOMAIN p \subseteq Int
            BY <1>4, <1>17
          <6> QED
            BY <1>17, <5>2, <6>1 DEF Moved
        <5>4. QueuedFor(c, conn[c], p) /\ Pending(c, conn[c], p)
          <6> HIDE DEF p
          <6> QED
            BY <1>4, <1>17, <3>2, <5>3, QueuedMoved
        <5> QED
          BY <3>1, <5>1, <5>4
      <4> QED
        BY <4>1, <4>2
    <3>4. Timed(c, conn'[c], timer'[w])
      <4>1. CASE Hit(c)
        <5>1. conn'[c].life = conn[c].life /\ conn'[c].task_id = conn[c].task_id /\ ~conn'[c].reading
          BY <1>1, <4>1, ClosedIs
        <5> QED
          BY <1>13, <3>1, <5>1 DEF Timed
      <4>2. CASE ~Hit(c)
        <5>1. conn'[c] = conn[c]
          BY <1>1, <4>2
        <5> DEFINE x == [id |-> conn[c].task_id, owner |-> c]
        <5>2. conn[c].reading => conn[c].open
          BY <3>1 DEF Coherent
        <5>3. x.owner = c
          OBVIOUS
        <5> HIDE DEF x
        <5>4. conn[c].reading => x \notin due
          BY <4>2, <5>2, <5>3 DEF open
        <5> QED
          BY <1>13, <3>1, <5>1, <5>4 DEF Timed, x
      <4> QED
        BY <4>1, <4>2
    <3> QED
      BY <1>1, <1>15, <1>16, <2>1, <2>4, <3>3, <3>4 DEF ConnInv
  <2> QED
    BY <2>3, <2>4
<1> QED
  BY <1>1, <1>2, <1>13, <1>14, <1>18, <1>19, <1>20 DEF ServerInv, InvOf

-----------------------------------------------------------------------------
(* The accepting thread *)

LEMMA UnbornIs ==
  /\ Server!Unborn \in Members /\ Idle(Server!Unborn) /\ Server!Unborn.life = "none"
  /\ ~Server!Unborn.open /\ Server!Unborn.svc = 0
<1>1. 0 \in Server!Workers /\ 0 \in 0 .. MaxReads
  BY ServerAssumption DEF Server!CrowAssumption, Server!Workers
<1> QED
  BY <1>1 DEF Server!Unborn, Members, Idle

\* A connection is made while nothing refers to it.
LEMMA DoAcceptKeeps ==
  ASSUME NEW cn, NEW tm, NEW qs, NEW ld, InvOf(cn, tm, qs, ld, None), Server!DoAccept(cn, ld)
  PROVE  InvOf(conn', tm, qs, load', accepting')
<1>1. CASE accepting' = None /\ conn' = cn /\ load' = ld
  BY <1>1
<1>2. CASE \E w \in Server!Workers, c \in {d \in Conns : cn[d].life = "none"}, g \in Garbage :
             /\ accepting' = c
             /\ conn' = [cn EXCEPT ![c] = [Server!Unborn EXCEPT !.life = "accepting", !.svc = w, !.task_id = g]]
             /\ load' = [ld EXCEPT ![w] = @ + 1]
  <2>1. PICK w \in Server!Workers, c \in {d \in Conns : cn[d].life = "none"}, g \in Garbage :
             /\ accepting' = c
             /\ conn' = [cn EXCEPT ![c] = [Server!Unborn EXCEPT !.life = "accepting", !.svc = w, !.task_id = g]]
             /\ load' = [ld EXCEPT ![w] = @ + 1]
    BY <1>2
  <2> DEFINE k == [Server!Unborn EXCEPT !.life = "accepting", !.svc = w, !.task_id = g]
  <2>2. c \in Conns /\ cn[c].life = "none" /\ None \notin Conns /\ g \in Nat
    BY ServerAssumption DEF Server!CrowAssumption
  <2>3. /\ cn \in [Conns -> Members] /\ tm \in [Server!Workers -> Timers]
        /\ qs \in [Server!Workers -> Seq(Handlers)] /\ ld \in [Server!Workers -> Int]
        /\ \A v \in Server!Workers : WorkerInv(v, cn, tm, qs, ld)
        /\ \A d \in Conns : ConnInv(d, cn, tm, qs, None)
    BY DEF InvOf
  <2>4. k \in Members /\ Idle(k) /\ k.life = "accepting" /\ k.svc = w
    <3>1. Server!Unborn \in Members /\ Idle(Server!Unborn)
      BY UnbornIs
    <3> QED
      BY <2>2, <3>1 DEF Members, Idle
  <2> HIDE DEF k
  <2>5. /\ conn' = [cn EXCEPT ![c] = k] /\ conn' \in [Conns -> Members] /\ conn'[c] = k
        /\ \A d \in Conns : d # c => conn'[d] = cn[d]
    BY <2>1, <2>2, <2>3, <2>4 DEF k
  <2>6. load' \in [Server!Workers -> Int] /\ load'[w] = ld[w] + 1 /\ (\A v \in Server!Workers : v # w => load'[v] = ld[v])
    BY <2>1, <2>3
  <2>7. ASSUME NEW v \in Server!Workers, NEW i \in DOMAIN qs[v]
        PROVE  qs[v][i].c # c
    <3>1. SUFFICES ASSUME qs[v][i].c = c
                   PROVE  FALSE
      OBVIOUS
    <3>2. cn[c].svc = v
      BY <2>2, <2>3, <3>1 DEF WorkerInv
    <3>3. QueuedFor(c, cn[c], qs[v])
      BY <2>2, <2>3, <3>2 DEF ConnInv
    <3>4. Lacks(c, qs[v], "start") /\ Lacks(c, qs[v], "read") /\ Lacks(c, qs[v], "write")
      BY <2>2, <3>3 DEF QueuedFor
    <3>5. qs[v][i] \in Handlers
      BY <2>3
    <3>6. qs[v][i].op \in {"start", "read", "write"}
      BY <2>2, <3>1, <3>5 DEF Handlers
    <3> QED
      BY <3>1, <3>4, <3>6 DEF Lacks
  <2>8. ASSUME NEW v \in Server!Workers, NEW x \in tm[v].tasks
        PROVE  x.owner # c /\ x.owner \in Conns
    <3>1. x.owner \in Conns
      BY <2>3 DEF Timers
    <3>2. cn[x.owner].svc = v
      BY <2>3 DEF WorkerInv
    <3>3. Timed(x.owner, cn[x.owner], tm[v])
      BY <2>3, <3>1, <3>2 DEF ConnInv
    <3> QED
      BY <2>2, <3>1, <3>3 DEF Timed
  <2>9. ASSUME NEW v \in Server!Workers
        PROVE  WorkerInv(v, conn', tm, qs, load')
    <3>1. WorkerInv(v, cn, tm, qs, ld)
      BY <2>3
    <3>2. \A i \in DOMAIN qs[v] : qs[v][i].c # None => conn'[qs[v][i].c].svc = v
      <4>1. \A i \in DOMAIN qs[v] : qs[v][i].c # None => qs[v][i].c \in Conns
        BY <2>3 DEF Handlers
      <4> QED
        BY <2>5, <2>7, <3>1, <4>1 DEF WorkerInv
    <3>3. \A x \in tm[v].tasks : x.id \in 1 .. tm[v].highest /\ conn'[x.owner].svc = v
      BY <2>5, <2>8, <3>1 DEF WorkerInv
    <3> DEFINE old == {d \in Conns : Counts(cn, d, v)}
               new == {d \in Conns : Counts(conn', d, v)}
    <3>4. \A d \in Conns : Counts(conn', d, v) <=> Counts(cn, d, v) \/ (d = c /\ v = w)
      BY <2>2, <2>4, <2>5 DEF Counts, Counted
    <3>5. load'[v] = Cardinality(new)
      <4>1. CASE v # w
        <5>1. new = old
          BY <3>4, <4>1
        <5> QED
          BY <2>6, <3>1, <4>1, <5>1 DEF WorkerInv
      <4>2. CASE v = w
        <5>1. new = old \cup {c} /\ c \notin old
          BY <2>2, <3>4, <4>2 DEF Counts, Counted
        <5>2. IsFiniteSet(old)
          BY ServerAssumption, SameCount, FS_Subset DEF Server!CrowAssumption
        <5>3. ld[v] = Cardinality(old)
          BY <3>1 DEF WorkerInv
        <5> HIDE DEF new, old
        <5>4. Cardinality(new) = Cardinality(old) + 1
          BY <5>1, <5>2, FS_AddElement
        <5> QED
          BY <2>6, <4>2, <5>3, <5>4
      <4> QED
        BY <4>1, <4>2
    <3> QED
      BY <3>2, <3>3, <3>5 DEF WorkerInv
  <2>10. ASSUME NEW d \in Conns
         PROVE  ConnInv(d, conn', tm, qs, accepting')
    <3>1. CASE d # c
      <4>1. ConnInv(d, cn, tm, qs, None)
        BY <2>3
      <4> QED
        BY <2>1, <2>2, <2>5, <3>1, <4>1 DEF ConnInv
    <3>2. CASE d = c
      <4>1. Coherent(k) /\ k.at # "threw"
        <5>1. MaxReads \in Nat /\ Len(<<>>) = 0 /\ DOMAIN << >> = {}
          BY ServerAssumption DEF Server!CrowAssumption
        <5> QED
          BY <2>4, <5>1 DEF Coherent, Idle
      <4>2. QueuedFor(c, k, qs[w]) /\ Pending(c, k, qs[w])
        BY <2>4, <2>7 DEF QueuedFor, Pending, Single, Asks, Lacks, Idle
      <4>3. Timed(c, k, tm[w])
        BY <2>4, <2>8 DEF Timed, Idle
      <4> QED
        BY <2>1, <2>4, <2>5, <3>2, <4>1, <4>2, <4>3 DEF ConnInv
    <3> QED
      BY <3>1, <3>2
  <2> QED
    BY <2>1, <2>2, <2>3, <2>5, <2>6, <2>9, <2>10 DEF InvOf
<1> QED
  BY <1>1, <1>2 DEF Server!DoAccept

LEMMA RunKeeps ==
  ASSUME ServerInv, Server!Run
  PROVE  ServerInv'
<1>1. accepting = None /\ Server!DoAccept(conn, load) /\ timer' = timer /\ jobs' = jobs
  BY DEF Server!Run
<1>2. InvOf(conn, timer, jobs, load, None)
  BY <1>1 DEF ServerInv
<1>3. InvOf(conn', timer, jobs, load', accepting')
  BY <1>1, <1>2, DoAcceptKeeps
<1> QED
  BY <1>1, <1>3 DEF ServerInv

LEMMA AcceptedKeeps ==
  ASSUME ServerInv, Server!Accepted
  PROVE  ServerInv'
<1> DEFINE c == accepting
           s == Server!World(c)
           w == conn[c].svc
           j == Server!Job("start", c, "ok", None)
           k == [s.k EXCEPT !.life = "posted", !.open = TRUE]
           q == Append(s.q, j)
           v == [s EXCEPT !.k = k]
           r == [v EXCEPT !.q = q]
           cn == [conn EXCEPT ![accepting].life = "posted", ![accepting].open = TRUE]
<1>1. /\ c # None /\ jobs' = [jobs EXCEPT ![w] = Append(@, j)] /\ Server!DoAccept(cn, load) /\ timer' = timer
  BY DEF Server!Accepted
<1>2. c \in Conns /\ None \notin Conns
  BY <1>1, ServerAssumption DEF ServerInv, InvOf, Server!CrowAssumption
<1>3. /\ Fits(s) /\ s.c = c /\ s.k = conn[c] /\ s.t = timer[w] /\ s.q = jobs[w] /\ s.n = load[w]
  BY <1>2, WorldFits
<1>4. s \in ServerWorlds /\ conn[c] \in Members /\ w \in Server!Workers /\ s.q \in Seq(Handlers)
  BY <1>3 DEF Fits, ServerWorlds, Members
<1>5. s.k.life = "accepting" /\ Idle(s.k)
  <2>1. s.k.life = "accepting"
    BY <1>2, <1>3 DEF ServerInv, InvOf, ConnInv
  <2> QED
    BY <1>3, <2>1 DEF Fits, Coherent
<1>6. cn = [conn EXCEPT ![c] = k] /\ jobs' = [jobs EXCEPT ![w] = q]
  BY <1>1, <1>3, <1>4 DEF ServerInv, InvOf
<1>7. j \in Handlers /\ j.c = c /\ j.op = "start" /\ j.what = "ok"
  BY <1>2 DEF Server!Job, Handlers
<1>8. /\ k \in Members /\ k.life = "posted" /\ k.reading = s.k.reading /\ k.reads = s.k.reads /\ k.part = s.k.part
      /\ k.asked = s.k.asked /\ k.writes = s.k.writes
      /\ k.is_reading = s.k.is_reading /\ k.is_writing = s.k.is_writing
      /\ k.need_read = s.k.need_read /\ k.at = s.k.at
      /\ k.task_id = s.k.task_id /\ k.completed = s.k.completed /\ k.hook = s.k.hook
      /\ k.users = s.k.users /\ k.sent = s.k.sent /\ k.svc = s.k.svc
  BY <1>3, <1>4 DEF Members
<1> HIDE DEF k, s, j, cn
<1>9. v \in ServerWorlds /\ v.c = s.c /\ v.k = k /\ v.q = s.q /\ v.t = s.t /\ v.n = s.n
  BY <1>4, <1>8, MemberSet
<1> HIDE DEF v
<1>10. r \in ServerWorlds /\ r.c = s.c /\ r.k = k /\ r.q = q /\ r.t = s.t /\ r.n = s.n
  BY <1>4, <1>7, <1>9 DEF ServerWorlds
<1> HIDE DEF r
<1>11. Single(c, s.q) /\ Lacks(c, s.q, "start") /\ Lacks(c, s.q, "read") /\ Lacks(c, s.q, "write")
  BY <1>3, <1>5 DEF Fits, QueuedFor
<1>12. /\ q \in Seq(Handlers) /\ Single(c, q) /\ Asks(c, k, q)
       /\ \A op : op # "start" => (Lacks(c, q, op) <=> Lacks(c, s.q, op))
  <2>1. Asks(c, k, s.q) /\ Unasked(c, s.q)
    BY <1>11, LacksAsks, LacksUnasked
  <2> QED
    BY <1>4, <1>7, <1>11, <2>1, OwnAppended
<1>13. Idle(k)
  BY <1>5, <1>8 DEF Idle
<1>14. Coherent(k)
  BY <1>3, <1>5, <1>8, <1>13 DEF Fits, Coherent
<1>15. QueuedFor(c, k, q) /\ Pending(c, k, q)
  <2> HIDE DEF q
  <2> QED
    BY <1>8, <1>11, <1>12, <1>13 DEF QueuedFor, Pending, Idle
<1>16. Timed(c, k, s.t)
  BY <1>3, <1>5, <1>8, <1>13 DEF Fits, Timed, Idle
<1>17. Tally(r)
  BY <1>3, <1>5, <1>8, <1>10, TallySame DEF Fits, Counted
<1>18. Apart(r)
  BY <1>3, <1>4, <1>7, <1>8, <1>10, ApartAppends DEF Fits
<1> HIDE DEF q
<1>19. Fits(r) /\ Pending(r.c, r.k, r.q)
  BY <1>3, <1>10, <1>14, <1>15, <1>16, <1>17, <1>18 DEF Fits
<1>20. InvOf(cn, timer, jobs', load, None)
  <2>1. r.k.svc = w /\ r.c = c /\ r.k = k /\ r.t = timer[w] /\ r.q = q /\ r.n = load[w]
    BY <1>3, <1>8, <1>10
  <2>2. /\ timer = [timer EXCEPT ![w] = timer[w]] /\ load = [load EXCEPT ![w] = load[w]]
    BY <1>4, LeftAlone
  <2>3. /\ cn = [conn EXCEPT ![r.c] = r.k] /\ timer = [timer EXCEPT ![r.k.svc] = r.t]
        /\ jobs' = [jobs EXCEPT ![r.k.svc] = r.q] /\ load = [load EXCEPT ![r.k.svc] = r.n]
    <3> HIDE DEF w
    <3> QED
      BY <1>6, <2>1, <2>2
  <2>4. r.k.svc = conn[r.c].svc /\ r.k.at # "threw" /\ (r.k.life = "accepting" <=> None = r.c)
    BY <1>1, <1>5, <1>8, <1>10, <2>1 DEF Idle
  <2>5. \A d \in Conns : d # r.c => (None = d <=> accepting = d)
    BY <1>2, <2>1
  <2> HIDE DEF c, w
  <2> QED
    BY <1>19, <2>3, <2>4, <2>5, FitsKeeps
<1>21. InvOf(conn', timer, jobs', load', accepting')
  BY <1>1, <1>20, DoAcceptKeeps
<1> QED
  BY <1>1, <1>21 DEF ServerInv

LEMMA AcceptFailsKeeps ==
  ASSUME ServerInv, Server!AcceptFails
  PROVE  ServerInv'
<1> DEFINE c == accepting
           s == Server!World(c)
           w == conn[c].svc
           r == Server!Delete(s)
           cn == [conn EXCEPT ![c] = r.k]
           ld == [load EXCEPT ![r.k.svc] = r.n]
<1>1. c # None /\ timer' = [timer EXCEPT ![r.k.svc] = r.t] /\ Server!DoAccept(cn, ld) /\ jobs' = jobs
  BY DEF Server!AcceptFails
<1>2. c \in Conns /\ None \notin Conns
  BY <1>1, ServerAssumption DEF ServerInv, InvOf, Server!CrowAssumption
<1>3. /\ Fits(s) /\ Pending(s.c, s.k, s.q) /\ s.c = c /\ s.k = conn[c] /\ s.q = jobs[w]
  BY <1>2, WorldFits
<1>4. s.k.life = "accepting" /\ Idle(s.k)
  <2>1. s.k.life = "accepting"
    BY <1>2, <1>3 DEF ServerInv, InvOf, ConnInv
  <2> QED
    BY <1>3, <2>1 DEF Fits, Coherent
<1> HIDE DEF s
<1>5. /\ Fits(r) /\ Pending(r.c, r.k, r.q) /\ r.c = c /\ r.q = jobs[w] /\ r.k.svc = w
      /\ r.k.life = "deleted" /\ r.k.at = "idle"
  BY <1>3, <1>4, DeleteFits DEF Idle
<1> HIDE DEF r
<1>6. InvOf(cn, timer', jobs, ld, None)
  <2>1. w \in Server!Workers
    BY <1>2 DEF ServerInv, InvOf, Members
  <2>2. jobs = [jobs EXCEPT ![w] = jobs[w]]
    BY <2>1, LeftAlone
  <2>3. jobs = [jobs EXCEPT ![r.k.svc] = r.q]
    BY <1>5, <2>2
  <2>4. r.k.svc = conn[r.c].svc /\ r.k.at # "threw" /\ (r.k.life = "accepting" <=> None = r.c)
    BY <1>1, <1>5
  <2>5. \A d \in Conns : d # r.c => (None = d <=> accepting = d)
    BY <1>2, <1>5
  <2>6. cn = [conn EXCEPT ![r.c] = r.k]
    BY <1>5
  <2> HIDE DEF cn
  <2> QED
    BY <1>1, <1>5, <2>3, <2>4, <2>5, <2>6, FitsKeeps
<1> HIDE DEF cn, ld
<1>7. InvOf(conn', timer', jobs, load', accepting')
  BY <1>1, <1>6, DoAcceptKeeps
<1> QED
  BY <1>1, <1>7 DEF ServerInv

-----------------------------------------------------------------------------
(* CrowServer is sound *)

LEMMA ServerStarts ==
  ASSUME Server!Init
  PROVE  ServerInv
<1>1. /\ conn = [c \in Conns |-> Server!Unborn]
      /\ timer = [w \in Server!Workers |-> [tasks |-> {}, highest |-> 0, robbed |-> {}]]
      /\ jobs = [w \in Server!Workers |-> <<>>] /\ load = [w \in Server!Workers |-> 0] /\ accepting = None
  BY DEF Server!Init
<1>2. /\ Server!Unborn \in Members /\ Idle(Server!Unborn) /\ Server!Unborn.life = "none"
  BY UnbornIs
<1>3. conn \in [Conns -> Members] /\ \A c \in Conns : conn[c] \in Members /\ Idle(conn[c]) /\ conn[c].life = "none"
  BY <1>1, <1>2
<1>4. /\ timer \in [Server!Workers -> Timers] /\ \A w \in Server!Workers : timer[w].tasks = {}
  BY <1>1 DEF Timers
<1>5. /\ jobs \in [Server!Workers -> Seq(Handlers)] /\ \A w \in Server!Workers : jobs[w] = <<>> /\ DOMAIN jobs[w] = {}
  BY <1>1
<1>6. load \in [Server!Workers -> Int] /\ \A w \in Server!Workers : load[w] = 0
  BY <1>1
<1>7. ASSUME NEW w \in Server!Workers
      PROVE  WorkerInv(w, conn, timer, jobs, load)
  <2>1. {d \in Conns : Counts(conn, d, w)} = {}
    BY <1>3 DEF Counts, Counted
  <2>2. Cardinality({}) = 0
    BY FS_EmptySet
  <2> QED
    BY <1>4, <1>5, <1>6, <2>1, <2>2 DEF WorkerInv
<1>8. ASSUME NEW c \in Conns
      PROVE  ConnInv(c, conn, timer, jobs, accepting)
  <2> DEFINE k == conn[c]
             w == k.svc
  <2>1. k \in Members /\ w \in Server!Workers /\ Idle(k) /\ k.life = "none"
    BY <1>3 DEF Members
  <2>2. jobs[w] = <<>> /\ DOMAIN jobs[w] = {} /\ timer[w].tasks = {}
    BY <1>4, <1>5, <2>1
  <2>3. Coherent(k) /\ k.at # "threw"
    <3>1. MaxReads \in Nat /\ Len(<<>>) = 0 /\ DOMAIN << >> = {}
      BY ServerAssumption DEF Server!CrowAssumption
    <3> HIDE DEF k
    <3> QED
      BY <2>1, <3>1 DEF Coherent, Idle
  <2>4. QueuedFor(c, k, jobs[w]) /\ Pending(c, k, jobs[w])
    <3> HIDE DEF k
    <3> QED
      BY <2>1, <2>2 DEF QueuedFor, Pending, Single, Asks, Lacks, Idle
  <2>5. Timed(c, k, timer[w])
    BY <2>1, <2>2 DEF Timed, Idle
  <2>6. accepting # c
    BY <1>1, ServerAssumption DEF Server!CrowAssumption
  <2> QED
    BY <2>1, <2>3, <2>4, <2>5, <2>6 DEF ConnInv
<1> QED
  BY <1>1, <1>3, <1>4, <1>5, <1>6, <1>7, <1>8 DEF ServerInv, InvOf

LEMMA ServerStepKeeps ==
  ASSUME ServerInv, ~Piped, \A k \in Kinds : k.expect # "hurry", [Server!Next]_Server!vars
  PROVE  ServerInv'
<1>1. CASE UNCHANGED Server!vars
  BY <1>1 DEF Server!vars, ServerInv
<1>2. CASE Server!Run
  BY <1>2, RunKeeps
<1>3. CASE Server!Accepted
  BY <1>3, AcceptedKeeps
<1>4. CASE Server!AcceptFails
  BY <1>4, AcceptFailsKeeps
<1>5. ASSUME NEW w \in Server!Workers, NEW fault \in Server!Faults, Server!RunRead(w, fault)
      PROVE  ServerInv'
  BY <1>5, ServerReadKeeps
<1>6. ASSUME NEW w \in Server!Workers, Server!RunWrite(w)
      PROVE  ServerInv'
  BY <1>6, ServerWriteKeeps
<1>7. ASSUME NEW w \in Server!Workers, NEW ok \in BOOLEAN, Server!RunStart(w, ok)
      PROVE  ServerInv'
  BY <1>7, RunStartKeeps
<1>8. ASSUME NEW w \in Server!Workers, Server!Elapse(w)
      PROVE  ServerInv'
  BY <1>8, ElapseKeeps
<1>9. ASSUME NEW w \in Server!Workers, NEW last \in 0 .. timer[w].highest, Server!RunTick(w, last)
      PROVE  ServerInv'
  BY <1>9, RunTickKeeps
<1>10. ASSUME NEW c \in Conns, Server!AfterFeed(c)
       PROVE  ServerInv'
  BY <1>10, AfterFeedKeeps
<1>11. ASSUME NEW c \in Conns, Server!WaitForUser(c)
       PROVE  ServerInv'
  BY <1>11, WaitForUserKeeps
<1>12. ASSUME NEW c \in Conns, NEW u \in conn[c].users, NEW fault \in {"none", "write"}, Server!UserEnds(c, u, fault)
       PROVE  ServerInv'
  BY <1>12, UserEndsKeeps
<1>13. ASSUME NEW c \in Conns, NEW what \in {"error", "piece"}, Server!Arrive(c, what, None)
       PROVE  ServerInv'
  BY <1>13, ArriveKeeps
<1>14. ASSUME NEW c \in Conns, NEW what \in Server!Parts, NEW req \in Kinds, Server!Arrive(c, what, req)
       PROVE  ServerInv'
  BY <1>14, ArriveKeeps
<1>15. ASSUME NEW c \in Conns, NEW what \in {"ok", "error"}, Server!Written(c, what)
       PROVE  ServerInv'
  BY <1>15, ServerWrittenKeeps
<1> QED
  BY <1>1, <1>2, <1>3, <1>4, <1>5, <1>6, <1>7, <1>8, <1>9, <1>10, <1>11, <1>12, <1>13, <1>14, <1>15 DEF Server!Next

LEMMA InvariantSound ==
  ASSUME ServerInv
  PROVE  ServerSound
<1>1. /\ conn \in [Conns -> Members] /\ timer \in [Server!Workers -> Timers]
      /\ jobs \in [Server!Workers -> Seq(Handlers)] /\ load \in [Server!Workers -> Int]
      /\ accepting \in Conns \cup {None}
      /\ \A v \in Server!Workers : WorkerInv(v, conn, timer, jobs, load)
      /\ \A c \in Conns : ConnInv(c, conn, timer, jobs, accepting)
  BY DEF ServerInv, InvOf
<1>2. ASSUME NEW c \in Conns
      PROVE  LET w == conn[c].svc
             IN  /\ conn[c] \in Members /\ w \in Server!Workers /\ Coherent(conn[c]) /\ conn[c].at # "threw"
                 /\ QueuedFor(c, conn[c], jobs[w]) /\ Timed(c, conn[c], timer[w])
  BY <1>1 DEF ConnInv, Members
<1>3. MaxReads \in Nat /\ IsFiniteSet(Conns) /\ Cardinality(Conns) \in Nat /\ None \notin Conns
  BY ServerAssumption, SameCount, FS_CardinalityType DEF Server!CrowAssumption
<1>4. ASSUME NEW w \in Server!Workers
      PROVE  /\ load[w] = Server!Cardinality({d \in Conns : Counts(conn, d, w)})
             /\ load[w] \in 0 .. Server!Cardinality(Conns)
  <2> DEFINE own == {d \in Conns : Counts(conn, d, w)}
  <2>1. IsFiniteSet(own) /\ Cardinality(own) \in Nat /\ Cardinality(own) <= Cardinality(Conns)
    BY <1>3, FS_Subset, FS_CardinalityType
  <2>2. load[w] = Cardinality(own)
    BY <1>1 DEF WorkerInv
  <2> HIDE DEF own
  <2>3. load[w] = Server!Cardinality(own) /\ load[w] \in 0 .. Server!Cardinality(Conns)
    BY <1>3, <2>1, <2>2, SameCount
  <2> QED
    BY <2>3 DEF own
<1>5. Server!TypeOK
  <2> DEFINE T == [life : {"none", "accepting", "posted", "live", "deleted"}, svc : Server!Workers,
                   open : BOOLEAN, reads : 0 .. MaxReads, asked : 0 .. MaxReads,
                   part : Kinds \cup {None}, is_reading : BOOLEAN, is_writing : BOOLEAN,
                   need_after : BOOLEAN, need_read : BOOLEAN, close : BOOLEAN, task_id : Nat,
                   completed : BOOLEAN, hook : BOOLEAN, body : 0 .. MaxReads, long : BOOLEAN,
                   reading : BOOLEAN, writes : 0 .. 2 * MaxReads,
                   at : {"idle", "fed", "tested"},
                   users : SUBSET [n : 1 .. MaxReads, long : BOOLEAN],
                   sent : Seq(0 .. MaxReads), lost : BOOLEAN]
  <2>1. ASSUME NEW c \in Conns
        PROVE  conn[c] \in T
    <3> DEFINE k == conn[c]
    <3>1. k \in Members /\ Coherent(k) /\ k.at # "threw"
      BY <1>2
    <3> HIDE DEF k
    <3>2. k.reads \in 0 .. MaxReads /\ k.asked \in 0 .. MaxReads
      BY <1>3, <3>1 DEF Coherent, Members
    <3>3. k.writes \in 0 .. 2 * MaxReads
      BY <1>3, <3>1, <3>2 DEF Coherent, Members
    <3>4. k.at \in {"idle", "fed", "tested"}
      BY <3>1 DEF Members
    <3>5. k \in T
      BY <3>1, <3>2, <3>3, <3>4 DEF Members
    <3> QED
      BY <3>5 DEF k
  <2>2. conn \in [Conns -> T]
    <3> HIDE DEF T
    <3> QED
      BY <1>1, <2>1
  <2>3. ASSUME NEW w \in Server!Workers
        PROVE  /\ timer[w].tasks \subseteq [id : 1 .. timer[w].highest, owner : Conns]
               /\ timer[w].robbed \subseteq Conns
    <3>1. \A x \in timer[w].tasks : x.id \in 1 .. timer[w].highest /\ x.owner \in Conns
                                    /\ x = [id |-> x.id, owner |-> x.owner]
      BY TasksAre
    <3>2. timer[w].robbed \subseteq Conns
      BY <1>1 DEF Timers
    <3> QED
      BY <3>1, <3>2
  <2>4. load \in [Server!Workers -> 0 .. Server!Cardinality(Conns)]
    BY <1>1, <1>4
  <2> QED
    BY <1>1, <2>2, <2>3, <2>4 DEF Server!TypeOK
<1>6. Server!HandlersOwned
  <2>1. SUFFICES ASSUME NEW c \in Conns, conn[c].life = "deleted"
                 PROVE  /\ ~conn[c].reading /\ conn[c].writes = 0 /\ conn[c].at = "idle"
                        /\ \A w \in Server!Workers : ~Server!Refers(w, c)
    BY DEF Server!HandlersOwned
  <2>2. ~conn[c].reading /\ conn[c].writes = 0 /\ conn[c].at = "idle"
    BY <1>2, <2>1 DEF Coherent
  <2>3. ASSUME NEW w \in Server!Workers, NEW i \in DOMAIN jobs[w], jobs[w][i].c = c
        PROVE  FALSE
    <3>1. c # None
      BY <1>3
    <3>2. conn[c].svc = w
      BY <1>1, <2>3, <3>1 DEF WorkerInv
    <3>3. Lacks(c, jobs[w], "start") /\ Lacks(c, jobs[w], "read") /\ Lacks(c, jobs[w], "write")
      BY <1>2, <2>1, <3>2 DEF QueuedFor
    <3>4. jobs[w][i] \in Handlers
      BY <1>1
    <3>5. jobs[w][i].op \in {"start", "read", "write"}
      BY <2>3, <3>1, <3>4 DEF Handlers
    <3> QED
      BY <2>3, <3>3, <3>5 DEF Lacks
  <2>4. \A w \in Server!Workers : \A x \in timer[w].tasks : x.owner # c
    BY <2>1, TasksAre
  <2> QED
    BY <2>2, <2>3, <2>4 DEF Server!Refers
<1>7. Server!LoadExact
  BY <1>4 DEF Server!LoadExact, Counts, Counted
<1>8. Server!DeadlineKept
  BY <1>2 DEF Server!DeadlineKept, Timed
<1>9. Server!OwnResponse
  BY <1>2 DEF Server!OwnResponse, Coherent
<1> QED
  BY <1>5, <1>6, <1>7, <1>8, <1>9 DEF ServerSound, Server!ConnectionsSound

\* Crow's server: connections, timers and counters agree, no handler, operation
\* or deadline is left for a connection that has deleted itself, and every
\* response is made for its request, in their order, with any number of
\* connections, workers and reads, when no client sends a request before the
\* last one is answered, or the body before it was told to continue.
THEOREM ServerIsSound ==
  ASSUME ~Piped, \A k \in Kinds : k.expect # "hurry"
  PROVE  Server!Spec => []ServerSound
<1>1. Server!Init => ServerInv
  BY ServerStarts
<1>2. ServerInv /\ [Server!Next]_Server!vars => ServerInv'
  BY ServerStepKeeps
<1>3. ServerInv => ServerSound
  BY InvariantSound
<1> QED
  BY <1>1, <1>2, <1>3, PTL DEF Server!Spec

=============================================================================
