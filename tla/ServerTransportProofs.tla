----------------------- MODULE ServerTransportProofs -----------------------
(***************************************************************************)
(* What the server's transport keeps for any number of connections,        *)
(* descriptors, requests and failures: nothing of a connection is left     *)
(* under its descriptor for the next connection that gets it; the bytes of *)
(* responses are in order and complete; and a fulfilled write is out.      *)
(***************************************************************************)
EXTENDS ServerTransport, FiniteSetTheorems, SequenceTheorems, TLAPS

States == {"none", "backlog", "open", "closed"}
Inputs == Seq({"request", "piece"})
Sockets ==
  [state : States, inbox : Inputs, eof : BOOLEAN, reset : BOOLEAN, asked : 0 .. NRequests,
   pieces : Nat, used : 0 .. Room, sent : Seq(Writes \X Int)]
Watches == [interest : SUBSET {"R", "W"}, armed : BOOLEAN]
Peers == [fd : Fds \cup {None}, idle : BOOLEAN, requests : 0 .. NRequests]
Events == [tag : Fds \cup {"writes", "peers"}, flags : SUBSET {"R", "W"}]
Places == {"poll", "tick", "handle", "writes", "peers", "read", "write", "crashed"}
Loops == [pc : Places, batch : SUBSET Events, fd : Fds \cup {None}, ticks : Nat]
Listeners ==
  [pc : {"idle", "dispatch", "emplace"}, conn : Conns \cup {None}, fd : Fds \cup {None}]
Answers == [conn : Conns, n : 1 .. NRequests, fd : Fds \cup {None}]
Fates == {"none", "pending", "fulfilled", "rejected"}

Shapes ==
  /\ sock \in [Conns -> Sockets] /\ open \in [Fds -> Conns \cup {None}]
  /\ epoll \in [Fds -> Watches] /\ peer \in [Conns -> Peers]
  /\ peers_ \in [Fds -> Conns \cup {None}] /\ toWrite \in [Fds -> Seq(Entries) \cup {None}]
  /\ writesQueue \in Seq(Entries) /\ peersQueue \in Seq(Conns)
  /\ io \in Loops /\ listener \in Listeners /\ app \subseteq Answers
  /\ promise \in [Writes -> Fates]

\* A descriptor is one connection's, and an open connection has one.
Owned ==
  /\ \A c \in Conns : peer[c].fd # None <=> sock[c].state = "open"
  /\ \A c \in Conns : peer[c].fd # None => open[peer[c].fd] = c
  /\ \A f \in Fds : open[f] # None => peer[open[f]].fd = f

\* Exactly the descriptors of peers_ are watched.
Watched == \A f \in Fds : epoll[f].interest # {} <=> peers_[f] # None

Registered(c) == peer[c].fd # None /\ peers_[peer[c].fd] = c
Waiting(c) == peer[c].fd # None /\ peers_[peer[c].fd] = None
Past(c) == sock[c].state = "closed" \/ Registered(c)

\* A peer in the queue, or about to be, has its descriptor and is there once:
\* nobody closes a connection before the reactor has registered it.
Queued ==
  /\ listener.pc = "dispatch" =>
       /\ listener.conn \in Conns /\ Waiting(listener.conn)
       /\ \A i \in DOMAIN peersQueue : peersQueue[i] # listener.conn
  /\ listener.pc = "emplace" => listener.conn \in Conns
  /\ \A i \in DOMAIN peersQueue : Waiting(peersQueue[i])
  /\ \A i, j \in DOMAIN peersQueue : peersQueue[i] = peersQueue[j] => i = j

\* An entry has bytes left, for a request that was read; a 408 is for a peer
\* that the reactor has registered.
Good(e) ==
  /\ Left(e) \in 1 .. Size
  /\ e.n <= peer[e.conn].requests
  /\ e.part = "408" => Past(e.conn)

GoodQueue == \A i \in DOMAIN writesQueue : Good(writesQueue[i])

GoodDeques ==
  \A f \in Fds : toWrite[f] # None =>
    \A i \in DOMAIN toWrite[f] : Good(toWrite[f][i]) /\ toWrite[f][i].fd = f

Numbered ==
  /\ \A a \in app : a.n <= peer[a.conn].requests
  /\ \A w \in Writes : promise[w] # "none" => w[2] <= peer[w[1]].requests

\* A client has at most one request on its way.
AskedOnce(c) ==
  /\ \A i, j \in DOMAIN sock[c].inbox :
       sock[c].inbox[i] = "request" /\ sock[c].inbox[j] = "request" => i = j
  /\ peer[c].requests <= sock[c].asked /\ sock[c].asked <= peer[c].requests + 1
  /\ sock[c].asked > peer[c].requests
       <=> \E i \in DOMAIN sock[c].inbox : sock[c].inbox[i] = "request"

Asked == \A c \in Conns : AskedOnce(c)

\* What the reactor is at.
Busy ==
  /\ io.pc = "read" => io.fd \in Fds /\ peers_[io.fd] # None
  /\ io.pc = "write" => /\ io.fd \in Fds /\ peers_[io.fd] # None
                        /\ toWrite[io.fd] # None /\ toWrite[io.fd] # <<>>
  /\ \A e \in io.batch : e.flags = {"W"} => e.tag \in Fds

IInv ==
  /\ Shapes /\ Owned /\ NothingInherited /\ Watched /\ Queued
  /\ GoodQueue /\ GoodDeques /\ Numbered /\ Asked /\ Busy

-----------------------------------------------------------------------------
\* What most steps leave alone, by the part of the state.
SameEnds ==
  /\ \A c \in Conns : peer'[c].fd = peer[c].fd /\ sock'[c].state = sock[c].state
  /\ open' = open /\ peers_' = peers_
SameWatch == \A f \in Fds : epoll'[f].interest = {} <=> epoll[f].interest = {}
SameRequests == \A c \in Conns : peer'[c].requests = peer[c].requests
SameInputs == \A c \in Conns : sock'[c].inbox = sock[c].inbox /\ sock'[c].asked = sock[c].asked
PastStays == \A c \in Conns : Past(c) => Past(c)'
RequestsStay == \A c \in Conns : peer[c].requests <= peer'[c].requests

LEMMA NumberTypes ==
  /\ NConns \in Nat /\ NRequests \in Nat /\ Size \in Nat /\ Size >= 1 /\ Room \in Nat
  /\ Conns \subseteq Nat /\ IsFiniteSet(Conns)
  /\ \A f \in Fds : f # None
  /\ \A c \in Conns : c # None
<1>1. Conns = 1 .. NConns /\ NConns \in Nat
  BY TransportAssumption DEF Conns
<1>2. IsFiniteSet(Conns)
  BY <1>1, FS_Interval
<1> QED
  BY <1>1, <1>2, TransportAssumption

LEMMA EndsKept ==
  ASSUME Shapes, Owned, SameEnds
  PROVE  /\ Owned' /\ PastStays
         /\ \A c \in Conns : Waiting(c) => Waiting(c)'
<1>1. \A f \in Fds : open[f] # None => open[f] \in Conns
  BY DEF Shapes
<1>2. Owned'
  BY <1>1 DEF Owned, SameEnds
<1>3. PastStays
  BY DEF PastStays, Past, Registered, SameEnds
<1>4. \A c \in Conns : Waiting(c) => Waiting(c)'
  BY DEF Waiting, SameEnds
<1> QED
  BY <1>2, <1>3, <1>4

LEMMA WatchKept ==
  ASSUME Shapes, NothingInherited, Watched, SameEnds, SameWatch,
         \A f \in Fds : toWrite'[f] # None => toWrite[f] # None \/ open[f] # None
  PROVE  NothingInherited' /\ Watched'
<1>1. \A f \in Fds : peers_[f] # None => peers_[f] \in Conns
  BY DEF Shapes
<1>2. Watched'
  BY DEF Watched, SameEnds, SameWatch
<1>3. NothingInherited'
  BY <1>1 DEF NothingInherited, SameEnds, SameWatch
<1> QED
  BY <1>2, <1>3

LEMMA QueuedKept ==
  ASSUME Shapes, Queued, \A c \in Conns : Waiting(c) => Waiting(c)',
         listener' = listener, peersQueue' = peersQueue
  PROVE  Queued'
<1>1. \A i \in DOMAIN peersQueue : peersQueue[i] \in Conns
  BY DEF Shapes
<1> QED
  BY <1>1 DEF Queued

LEMMA GoodStays ==
  ASSUME Shapes, Shapes', PastStays, RequestsStay, NEW e \in Entries, Good(e)
  PROVE  Good(e)'
<1>1. e.conn \in Conns /\ e.n \in Nat
  BY NumberTypes DEF Entries
<1>2. peer[e.conn].requests \in Nat /\ peer'[e.conn].requests \in Nat
  <2>1. peer \in [Conns -> Peers] /\ peer' \in [Conns -> Peers]
    BY DEF Shapes
  <2>2. peer[e.conn] \in Peers /\ peer'[e.conn] \in Peers
    BY <1>1, <2>1
  <2> QED
    BY <2>2, NumberTypes DEF Peers
<1>3. e.n <= peer'[e.conn].requests
  BY <1>1, <1>2 DEF Good, RequestsStay
<1>4. e.part = "408" => Past(e.conn)'
  BY <1>1 DEF Good, PastStays
<1> QED
  BY <1>3, <1>4 DEF Good

LEMMA QueueKept ==
  ASSUME Shapes, Shapes', PastStays, RequestsStay, GoodQueue, writesQueue' = writesQueue
  PROVE  GoodQueue'
<1>1. \A i \in DOMAIN writesQueue : writesQueue[i] \in Entries
  BY DEF Shapes
<1> QED
  BY <1>1, GoodStays DEF GoodQueue

LEMMA DequesKept ==
  ASSUME Shapes, Shapes', PastStays, RequestsStay, GoodDeques,
         \A f \in Fds : toWrite'[f] \in {toWrite[f], None, <<>>}
  PROVE  GoodDeques'
<1> SUFFICES ASSUME NEW f \in Fds, toWrite'[f] # None, NEW i \in DOMAIN toWrite'[f]
             PROVE  (Good(toWrite[f][i]) /\ toWrite[f][i].fd = f)'
  BY DEF GoodDeques
<1>1. toWrite'[f] = toWrite[f] /\ toWrite[f] # None
  OBVIOUS
<1>2. toWrite[f] \in Seq(Entries)
  BY <1>1 DEF Shapes
<1>3. toWrite[f][i] \in Entries /\ Good(toWrite[f][i]) /\ toWrite[f][i].fd = f
  BY <1>1, <1>2 DEF GoodDeques
<1>4. PICK e \in Entries : e = toWrite[f][i] /\ e = toWrite'[f][i]
  BY <1>1, <1>3
<1>5. Good(e)'
  BY <1>3, <1>4, GoodStays
<1> QED
  BY <1>1, <1>3, <1>4, <1>5 DEF Good, Past, Registered

LEMMA NumberedKept ==
  ASSUME Shapes, Shapes', RequestsStay, Numbered,
         \A a \in app' : a \in Answers /\ \E b \in app : a.n = b.n /\ a.conn = b.conn,
         \A w \in Writes : promise'[w] # "none" =>
           promise[w] # "none" \/ w[2] <= peer'[w[1]].requests
  PROVE  Numbered'
<1>1. \A a \in app : a.conn \in Conns /\ a.n \in Nat /\ a.n <= peer[a.conn].requests
  BY NumberTypes DEF Numbered, Shapes, Answers
<1>2. \A c \in Conns : peer[c].requests \in Nat /\ peer'[c].requests \in Nat
                       /\ peer[c].requests <= peer'[c].requests
  BY NumberTypes DEF Shapes, Peers, RequestsStay
<1>3. \A a \in app' : a.n <= peer'[a.conn].requests
  BY <1>1, <1>2
<1>4. \A w \in Writes : w[1] \in Conns /\ w[2] \in Nat
  BY NumberTypes DEF Writes
<1>5. \A w \in Writes : promise'[w] # "none" => w[2] <= peer'[w[1]].requests
  BY <1>2, <1>4 DEF Numbered
<1> QED
  BY <1>3, <1>5 DEF Numbered

LEMMA AskedKept ==
  ASSUME Asked, SameRequests, SameInputs
  PROVE  Asked'
BY DEF Asked, AskedOnce, SameRequests, SameInputs

LEMMA AskedStep ==
  ASSUME Asked, NEW c \in Conns, AskedOnce(c)',
         \A d \in Conns : d # c => sock'[d] = sock[d] /\ peer'[d] = peer[d]
  PROVE  Asked'
<1> SUFFICES ASSUME NEW d \in Conns PROVE AskedOnce(d)'
  BY DEF Asked
<1>1. CASE d = c
  BY <1>1
<1>2. CASE d # c
  BY <1>2 DEF Asked, AskedOnce
<1> QED
  BY <1>1, <1>2

LEMMA RequestsKept ==
  ASSUME Shapes, SameRequests
  PROVE  RequestsStay
BY NumberTypes DEF Shapes, Peers, SameRequests, RequestsStay

\* A step that leaves descriptors, interests and deques alone.
LEMMA Quiet ==
  ASSUME IInv, Shapes', SameEnds, SameWatch, toWrite' = toWrite,
         listener' = listener, peersQueue' = peersQueue
  PROVE  /\ Owned' /\ NothingInherited' /\ Watched' /\ Queued' /\ PastStays
         /\ RequestsStay => GoodDeques'
<1>1. Shapes /\ Owned /\ NothingInherited /\ Watched /\ Queued /\ GoodDeques
  BY DEF IInv
<1>2. Owned' /\ PastStays /\ (\A c \in Conns : Waiting(c) => Waiting(c)')
  BY <1>1, EndsKept
<1>3. NothingInherited' /\ Watched'
  BY <1>1, WatchKept
<1>4. Queued'
  BY <1>1, <1>2, QueuedKept
<1>5. RequestsStay => GoodDeques'
  BY <1>1, <1>2, DequesKept
<1> QED
  BY <1>2, <1>3, <1>4, <1>5

LEMMA InitEstablishes == Init => IInv
<1> SUFFICES ASSUME Init PROVE IInv
  OBVIOUS
<1>1. sock \in [Conns -> Sockets]
  <2>1. [state |-> "none", inbox |-> <<>>, eof |-> FALSE, reset |-> FALSE, asked |-> 0,
         pieces |-> 0, used |-> 0, sent |-> <<>>] \in Sockets
    BY NumberTypes DEF Sockets, States, Inputs
  <2> QED
    BY <2>1 DEF Init
<1>2. peer \in [Conns -> Peers] /\ epoll \in [Fds -> Watches]
  BY NumberTypes DEF Init, Peers, Watches
<1>3. io \in Loops /\ listener \in Listeners
  BY DEF Init, Loops, Listeners, Places
<1>4. promise \in [Writes -> Fates] /\ app \subseteq Answers
  BY DEF Init, Fates
<1>5. writesQueue \in Seq(Entries) /\ peersQueue \in Seq(Conns)
  BY DEF Init
<1>6. Shapes
  BY <1>1, <1>2, <1>3, <1>4, <1>5 DEF Init, Shapes
<1>7. Owned /\ NothingInherited /\ Watched
  BY DEF Init, Owned, NothingInherited, Watched
<1>8. Queued /\ GoodQueue /\ GoodDeques
  BY DEF Init, Queued, GoodQueue, GoodDeques
<1>9. Numbered /\ Busy
  BY DEF Init, Numbered, Busy
<1>10. Asked
  BY DEF Init, Asked, AskedOnce
<1> QED
  BY <1>6, <1>7, <1>8, <1>9, <1>10 DEF IInv

-----------------------------------------------------------------------------
LEMMA WakeTypes ==
  ASSUME Shapes, NEW c, NEW x, Wake(c, x)
  PROVE  epoll' \in [Fds -> Watches] /\ SameWatch
<1>1. epoll \in [Fds -> Watches]
  BY DEF Shapes
<1>2. \A f \in Fds : [epoll[f] EXCEPT !.armed = TRUE] \in Watches
                     /\ [epoll[f] EXCEPT !.armed = TRUE].interest = epoll[f].interest
  BY <1>1 DEF Watches
<1> QED
  BY <1>1, <1>2 DEF Wake, SameWatch

\* The client's end of connection c changes, and epoll may have news.
LEMMA SocketStep ==
  ASSUME IInv, NEW c \in Conns, NEW s \in Sockets, NEW x,
         sock' = [sock EXCEPT ![c] = s], s.state = sock[c].state, Wake(c, x),
         UNCHANGED <<open, peer, peers_, queues, io, listener, app, promise>>
  PROVE  Asked' => IInv'
<1>1. Shapes /\ Owned /\ NothingInherited /\ Watched /\ Queued /\ GoodQueue /\ GoodDeques
      /\ Numbered /\ Busy
  BY DEF IInv
<1>2. epoll' \in [Fds -> Watches] /\ SameWatch
  BY <1>1, WakeTypes
<1>3. sock' \in [Conns -> Sockets] /\ SameEnds
  BY <1>1 DEF Shapes, SameEnds
<1>4. Shapes'
  BY <1>1, <1>2, <1>3 DEF Shapes, queues
<1>5. SameRequests /\ RequestsStay
  BY <1>1, RequestsKept DEF SameRequests
<1>6. Owned' /\ NothingInherited' /\ Watched' /\ Queued' /\ PastStays /\ GoodDeques'
  BY <1>2, <1>3, <1>4, <1>5, Quiet DEF queues
<1>7. GoodQueue'
  BY <1>1, <1>4, <1>5, <1>6, QueueKept DEF queues
<1>8. Numbered'
  BY <1>1 DEF Numbered
<1>9. Busy'
  BY <1>1 DEF Busy, queues
<1> QED
  BY <1>4, <1>6, <1>7, <1>8, <1>9 DEF IInv

LEMMA ConnectKeeps == ASSUME IInv, NEW c \in Conns, Connect(c) PROVE IInv'
<1>1. Shapes /\ Owned /\ NothingInherited /\ Watched /\ Queued /\ GoodQueue /\ GoodDeques
      /\ Numbered /\ Asked /\ Busy
  BY DEF IInv
<1> DEFINE s == [sock[c] EXCEPT !.state = "backlog"]
<1>2. /\ sock[c].state = "none" /\ sock' = [sock EXCEPT ![c] = s]
      /\ UNCHANGED <<open, epoll, peer, peers_, toWrite, writesQueue, peersQueue, io, listener, app, promise>>
  BY DEF Connect, queues
<1>3. sock[c] \in Sockets
  BY <1>1 DEF Shapes
<1>4. s \in Sockets /\ s.state = "backlog" /\ s.inbox = sock[c].inbox /\ s.asked = sock[c].asked
  BY <1>3 DEF Sockets, States
<1> HIDE DEF s
<1>5. sock' \in [Conns -> Sockets]
  BY <1>1, <1>2, <1>4 DEF Shapes
<1>6. Shapes'
  BY <1>1, <1>2, <1>5 DEF Shapes
<1>7. /\ sock'[c].state = "backlog" /\ sock[c].state = "none" /\ SameInputs
      /\ \A d \in Conns : d # c => sock'[d].state = sock[d].state
  BY <1>1, <1>2, <1>4 DEF Shapes, SameInputs
<1>8. Owned'
  BY <1>1, <1>2, <1>7 DEF Owned
<1>9. NothingInherited' /\ Watched'
  BY <1>1, <1>2 DEF NothingInherited, Watched
<1>10. PastStays /\ \A d \in Conns : Waiting(d) => Waiting(d)'
  BY <1>2, <1>7 DEF PastStays, Past, Registered, Waiting
<1>11. Queued'
  BY <1>1, <1>2, <1>10, QueuedKept
<1>12. SameRequests /\ RequestsStay
  BY <1>1, <1>2, RequestsKept DEF SameRequests
<1>13. GoodQueue' /\ GoodDeques'
  BY <1>1, <1>2, <1>6, <1>10, <1>12, QueueKept, DequesKept
<1>14. Numbered' /\ Busy'
  BY <1>1, <1>2 DEF Numbered, Busy
<1>15. Asked'
  BY <1>1, <1>7, <1>12, AskedKept
<1> QED
  BY <1>6, <1>8, <1>9, <1>11, <1>13, <1>14, <1>15 DEF IInv

\* A client that sends a request has read the response to the last, so none is
\* in its inbox.
LEMMA RequestKeeps == ASSUME IInv, NEW c \in Conns, Request(c) PROVE IInv'
<1>1. Shapes /\ Numbered /\ Asked
  BY DEF IInv
<1> DEFINE q == Append(sock[c].inbox, "request")
           s == [sock[c] EXCEPT !.inbox = q, !.asked = @ + 1]
<1>2. sock[c] \in Sockets
  BY <1>1 DEF Shapes
<1>3. /\ sock[c].asked < NRequests /\ Wake(c, "R") /\ sock' = [sock EXCEPT ![c] = s]
      /\ UNCHANGED <<open, peer, peers_, queues, io, listener, app, promise>>
      /\ \A n \in 1 .. sock[c].asked : \E part \in {"raw", "body"} : promise[<<c, n, part>>] = "fulfilled"
  BY DEF Request
<1>4. sock[c].asked \in 0 .. NRequests /\ sock[c].inbox \in Inputs /\ q \in Inputs
  BY <1>2 DEF Sockets, Inputs
<1>5. s \in Sockets /\ s.state = sock[c].state /\ s.inbox = q /\ s.asked = sock[c].asked + 1
  <2>1. sock[c].asked + 1 \in 0 .. NRequests
    BY <1>3, <1>4, NumberTypes
  <2> HIDE DEF q
  <2> QED
    BY <1>2, <1>4, <2>1 DEF Sockets
<1>6. peer[c].requests \in Nat /\ peer[c].requests <= sock[c].asked /\ sock[c].asked \in Nat
  BY <1>1, <1>4, NumberTypes DEF Shapes, Peers, Asked, AskedOnce
<1>7. peer[c].requests = sock[c].asked
  <2>1. CASE sock[c].asked = 0
    BY <2>1, <1>6
  <2>2. CASE sock[c].asked # 0
    <3>1. PICK part \in {"raw", "body"} : promise[<<c, sock[c].asked, part>>] = "fulfilled"
      BY <2>2, <1>3, <1>6
    <3>2. <<c, sock[c].asked, part>> \in Writes
      BY <1>4 DEF Writes, Parts
    <3>3. sock[c].asked <= peer[c].requests
      BY <3>1, <3>2, <1>1 DEF Numbered
    <3> QED
      BY <3>3, <1>6
  <2> QED
    BY <2>1, <2>2
<1>8. \A i \in DOMAIN sock[c].inbox : sock[c].inbox[i] # "request"
  BY <1>1, <1>6, <1>7 DEF Asked, AskedOnce
<1>9. /\ DOMAIN q = 1 .. Len(sock[c].inbox) + 1 /\ q[Len(sock[c].inbox) + 1] = "request"
      /\ Len(sock[c].inbox) \in Nat
      /\ \A i \in 1 .. Len(sock[c].inbox) : q[i] = sock[c].inbox[i] /\ i \in DOMAIN sock[c].inbox
  BY <1>4 DEF Inputs
<1>10. /\ \A i, j \in DOMAIN q : q[i] = "request" /\ q[j] = "request" => i = j
       /\ \E i \in DOMAIN q : q[i] = "request"
  <2> HIDE DEF q
  <2>1. \A i \in DOMAIN q : q[i] = "request" => i = Len(sock[c].inbox) + 1
    BY <1>8, <1>9
  <2> QED
    BY <1>9, <2>1
<1> HIDE DEF q, s
<1>11. Asked'
  <2>1. sock'[c] = s /\ \A d \in Conns : d # c => sock'[d] = sock[d]
    BY <1>1, <1>3 DEF Shapes
  <2>2. peer' = peer
    BY <1>3
  <2> QED
    BY <1>1, <1>5, <1>6, <1>7, <1>10, <2>1, <2>2 DEF Asked, AskedOnce
<1> QED
  BY <1>3, <1>5, <1>11, SocketStep

LEMMA PieceKeeps == ASSUME IInv, NEW c \in Conns, Piece(c) PROVE IInv'
<1>1. Shapes /\ Asked
  BY DEF IInv
<1> DEFINE q == Append(sock[c].inbox, "piece")
           s == [sock[c] EXCEPT !.inbox = q, !.pieces = @ + 1]
<1>2. sock[c] \in Sockets
  BY <1>1 DEF Shapes
<1>3. /\ Wake(c, "R") /\ sock' = [sock EXCEPT ![c] = s]
      /\ UNCHANGED <<open, peer, peers_, queues, io, listener, app, promise>>
  BY DEF Piece
<1>4. sock[c].inbox \in Inputs /\ q \in Inputs
  BY <1>2 DEF Sockets, Inputs
<1>5. s \in Sockets /\ s.state = sock[c].state /\ s.inbox = q /\ s.asked = sock[c].asked
  <2>1. sock[c].pieces + 1 \in Nat
    BY <1>2 DEF Sockets
  <2> HIDE DEF q
  <2> QED
    BY <1>2, <1>4, <2>1 DEF Sockets
<1>6. /\ DOMAIN q = 1 .. Len(sock[c].inbox) + 1 /\ q[Len(sock[c].inbox) + 1] = "piece"
      /\ DOMAIN sock[c].inbox = 1 .. Len(sock[c].inbox) /\ Len(sock[c].inbox) \in Nat
      /\ \A i \in 1 .. Len(sock[c].inbox) : q[i] = sock[c].inbox[i]
  BY <1>4 DEF Inputs
<1> HIDE DEF q, s
<1>7. /\ \A i \in DOMAIN q : q[i] = "request" => i \in DOMAIN sock[c].inbox /\ sock[c].inbox[i] = "request"
      /\ \A i \in DOMAIN sock[c].inbox : i \in DOMAIN q /\ q[i] = sock[c].inbox[i]
  BY <1>6
<1>8. Asked'
  <2>1. sock'[c] = s /\ \A d \in Conns : d # c => sock'[d] = sock[d]
    BY <1>1, <1>3 DEF Shapes
  <2>2. peer' = peer
    BY <1>3
  <2> QED
    BY <1>1, <1>5, <1>7, <2>1, <2>2 DEF Asked, AskedOnce
<1> QED
  BY <1>3, <1>5, <1>8, SocketStep

LEMMA ReadKeeps == ASSUME IInv, NEW c \in Conns, Read(c) PROVE IInv'
<1>1. Shapes /\ Asked
  BY DEF IInv
<1> DEFINE s == [sock[c] EXCEPT !.used = 0]
<1>2. sock[c] \in Sockets
  BY <1>1 DEF Shapes
<1>3. /\ Wake(c, "W") /\ sock' = [sock EXCEPT ![c] = s]
      /\ UNCHANGED <<open, peer, peers_, queues, io, listener, app, promise>>
  BY DEF Read
<1>4. s \in Sockets /\ s.state = sock[c].state /\ s.inbox = sock[c].inbox /\ s.asked = sock[c].asked
  <2>1. 0 \in 0 .. Room
    BY NumberTypes
  <2> QED
    BY <1>2, <2>1 DEF Sockets
<1> HIDE DEF s
<1>5. SameInputs /\ SameRequests
  BY <1>1, <1>3, <1>4 DEF Shapes, SameInputs, SameRequests
<1>6. Asked'
  BY <1>1, <1>5, AskedKept
<1> QED
  BY <1>3, <1>4, <1>6, SocketStep

LEMMA CloseKeeps == ASSUME IInv, NEW c \in Conns, Close(c) PROVE IInv'
<1>1. Shapes /\ Asked
  BY DEF IInv
<1>2. sock[c] \in Sockets
  BY <1>1 DEF Shapes
<1>3. /\ Wake(c, "R")
      /\ UNCHANGED <<open, peer, peers_, queues, io, listener, app, promise>>
  BY DEF Close
<1>4. PICK s : /\ s \in {[sock[c] EXCEPT !.eof = TRUE], [sock[c] EXCEPT !.reset = TRUE]}
               /\ sock' = [sock EXCEPT ![c] = s]
  BY DEF Close
<1>5. s \in Sockets /\ s.state = sock[c].state /\ s.inbox = sock[c].inbox /\ s.asked = sock[c].asked
  BY <1>2, <1>4 DEF Sockets
<1>6. sock' = [sock EXCEPT ![c] = s]
  BY <1>4
<1>7. SameInputs /\ SameRequests
  BY <1>1, <1>3, <1>5, <1>6 DEF Shapes, SameInputs, SameRequests
<1>8. Asked'
  BY <1>1, <1>7, AskedKept
<1> QED
  BY <1>3, <1>5, <1>6, <1>8, SocketStep

-----------------------------------------------------------------------------
\* A descriptor that is nobody's has nothing, and a new connection none.
LEMMA AcceptKeeps == ASSUME IInv, NEW c \in Conns, NEW f \in Fds, Accept(c, f) PROVE IInv'
<1>1. Shapes /\ Owned /\ NothingInherited /\ Watched /\ Queued /\ GoodQueue /\ GoodDeques
      /\ Numbered /\ Asked /\ Busy
  BY DEF IInv
<1> DEFINE s == [sock[c] EXCEPT !.state = "open"]
           p == [peer[c] EXCEPT !.fd = f]
<1>2. /\ sock[c].state = "backlog" /\ open[f] = None
      /\ sock' = [sock EXCEPT ![c] = s] /\ peer' = [peer EXCEPT ![c] = p]
      /\ open' = [open EXCEPT ![f] = c] /\ listener' = [pc |-> "dispatch", conn |-> c, fd |-> f]
      /\ UNCHANGED <<epoll, peers_, toWrite, writesQueue, peersQueue, io, app, promise>>
  BY DEF Accept, queues
<1>3. sock[c] \in Sockets /\ peer[c] \in Peers
  BY <1>1 DEF Shapes
<1>4. s \in Sockets /\ s.state = "open" /\ s.inbox = sock[c].inbox /\ s.asked = sock[c].asked
  BY <1>3 DEF Sockets, States
<1>5. p \in Peers /\ p.fd = f /\ p.requests = peer[c].requests
  BY <1>3 DEF Peers
<1> HIDE DEF s, p
<1>6. Shapes'
  <2>1. sock' \in [Conns -> Sockets] /\ peer' \in [Conns -> Peers] /\ open' \in [Fds -> Conns \cup {None}]
    BY <1>1, <1>2, <1>4, <1>5 DEF Shapes
  <2>2. listener' \in Listeners
    BY <1>2 DEF Listeners
  <2> QED
    BY <1>1, <1>2, <2>1, <2>2 DEF Shapes
<1>7. /\ sock'[c].state = "open" /\ \A d \in Conns : d # c => sock'[d] = sock[d]
      /\ peer'[c].fd = f /\ \A d \in Conns : d # c => peer'[d] = peer[d]
      /\ open'[f] = c /\ \A g \in Fds : g # f => open'[g] = open[g]
  BY <1>1, <1>2, <1>4, <1>5 DEF Shapes
<1>8. peer[c].fd = None
  BY <1>1, <1>2 DEF Owned
<1>9. \A d \in Conns : peer[d].fd # f
  BY <1>1, <1>2, NumberTypes DEF Owned
<1>10. peers_[f] = None /\ toWrite[f] = None
  <2>1. peers_[f] # None => peers_[f] \in Conns /\ open[f] = peers_[f]
    BY <1>1 DEF Shapes, NothingInherited
  <2> QED
    BY <1>1, <1>2, <2>1, NumberTypes DEF NothingInherited
<1>11. Owned'
  <2>1. \A g \in Fds : open[g] # None => open[g] \in Conns
    BY <1>1 DEF Shapes
  <2>2. \A d \in Conns : peer[d].fd # None => peer[d].fd \in Fds
    BY <1>1 DEF Shapes, Peers
  <2>3. \A d \in Conns : peer'[d].fd # None <=> sock'[d].state = "open"
    BY <1>1, <1>7, NumberTypes DEF Owned
  <2>4. \A d \in Conns : peer'[d].fd # None => open'[peer'[d].fd] = d
    BY <1>1, <1>7, <1>9, <2>2 DEF Owned
  <2>5. \A g \in Fds : open'[g] # None => peer'[open'[g]].fd = g
    <3> SUFFICES ASSUME NEW g \in Fds, open'[g] # None PROVE peer'[open'[g]].fd = g
      OBVIOUS
    <3>1. CASE g = f
      BY <3>1, <1>7
    <3>2. CASE g # f
      <4>1. open'[g] = open[g] /\ open[g] \in Conns /\ peer[open[g]].fd = g
        BY <3>2, <1>1, <1>7, <2>1 DEF Owned
      <4>2. open[g] # c
        BY <4>1, <1>8, NumberTypes
      <4> QED
        BY <4>1, <4>2, <1>7
    <3> QED
      BY <3>1, <3>2
  <2> QED
    BY <2>3, <2>4, <2>5 DEF Owned
<1>12. NothingInherited' /\ Watched'
  <2>1. \A g \in Fds : peers_[g] # None => peers_[g] \in Conns
    BY <1>1 DEF Shapes
  <2>2. \A g \in Fds : peers_[g] # None => peers_[g] # c /\ g # f
    BY <1>1, <1>8, <1>10, <2>1, NumberTypes DEF NothingInherited
  <2>3. NothingInherited'
    BY <1>1, <1>2, <1>7, <1>10, <2>1, <2>2 DEF NothingInherited
  <2> QED
    BY <1>1, <1>2, <2>3 DEF Watched
<1>13. PastStays /\ \A d \in Conns : Waiting(d) => d # c /\ Waiting(d)'
  BY <1>2, <1>7, <1>8, NumberTypes DEF PastStays, Past, Registered, Waiting
<1>14. Queued'
  <2>1. \A i \in DOMAIN peersQueue : peersQueue[i] \in Conns
    BY <1>1 DEF Shapes
  <2>2. Waiting(c)'
    BY <1>2, <1>7, <1>10, NumberTypes DEF Waiting
  <2>3. \A i \in DOMAIN peersQueue : Waiting(peersQueue[i])' /\ peersQueue[i] # c
    BY <1>1, <1>2, <1>13, <2>1 DEF Queued
  <2>4. listener'.pc = "dispatch" /\ listener'.conn = c /\ peersQueue' = peersQueue
    BY <1>2
  <2> QED
    BY <1>1, <2>2, <2>3, <2>4 DEF Queued, Waiting
<1>15. SameRequests /\ RequestsStay /\ SameInputs
  <2>1. SameRequests /\ SameInputs
    BY <1>1, <1>2, <1>4, <1>5 DEF Shapes, SameRequests, SameInputs
  <2> QED
    BY <1>1, <2>1, RequestsKept
<1>16. GoodQueue' /\ GoodDeques'
  BY <1>1, <1>2, <1>6, <1>13, <1>15, QueueKept, DequesKept
<1>17. Numbered'
  <2>1. /\ \A a \in app' : a \in Answers /\ \E b \in app : a.n = b.n /\ a.conn = b.conn
        /\ promise' = promise
    BY <1>1, <1>2 DEF Shapes
  <2> QED
    BY <1>1, <1>6, <1>15, <2>1, NumberedKept
<1>18. Asked' /\ Busy'
  BY <1>1, <1>2, <1>15, AskedKept DEF Busy
<1> QED
  BY <1>6, <1>11, <1>12, <1>14, <1>16, <1>17, <1>18 DEF IInv

LEMMA HandleNewPeerKeeps == ASSUME IInv, HandleNewPeer PROVE IInv'
<1>1. Shapes /\ Owned /\ NothingInherited /\ Watched /\ Queued /\ GoodQueue /\ GoodDeques
      /\ Numbered /\ Asked /\ Busy
  BY DEF IInv
<1>2. /\ listener.pc = "dispatch" /\ peersQueue' = Append(peersQueue, listener.conn)
      /\ listener' = [listener EXCEPT !.pc = "emplace"]
      /\ UNCHANGED <<sock, open, epoll, peer, peers_, toWrite, writesQueue, io, app, promise>>
  BY DEF HandleNewPeer
<1>3. listener.conn \in Conns /\ Waiting(listener.conn) /\ listener \in Listeners
      /\ \A i \in DOMAIN peersQueue : peersQueue[i] # listener.conn
  BY <1>1, <1>2 DEF Queued, Shapes
<1>4. listener' \in Listeners /\ listener'.pc = "emplace" /\ listener'.conn = listener.conn
  BY <1>2, <1>3 DEF Listeners
<1>5. peersQueue \in Seq(Conns) /\ peersQueue' \in Seq(Conns)
  BY <1>1, <1>2, <1>3 DEF Shapes
<1>6. Shapes'
  BY <1>1, <1>2, <1>4, <1>5 DEF Shapes
<1>7. Owned' /\ NothingInherited' /\ Watched' /\ Asked' /\ Busy' /\ Numbered'
  BY <1>1, <1>2 DEF Owned, NothingInherited, Watched, Asked, AskedOnce, Busy, Numbered
<1>8. GoodQueue' /\ GoodDeques'
  BY <1>1, <1>2 DEF GoodQueue, GoodDeques, Good, Past, Registered
<1>9. Queued'
  <2>1. /\ DOMAIN peersQueue' = 1 .. Len(peersQueue) + 1 /\ Len(peersQueue) \in Nat
        /\ \A i \in 1 .. Len(peersQueue) : peersQueue'[i] = peersQueue[i] /\ i \in DOMAIN peersQueue
        /\ peersQueue'[Len(peersQueue) + 1] = listener.conn
    BY <1>2, <1>3, <1>5
  <2>2. \A i \in DOMAIN peersQueue' : Waiting(peersQueue'[i])
    BY <1>1, <1>3, <2>1 DEF Queued
  <2>3. \A i, j \in DOMAIN peersQueue' : peersQueue'[i] = peersQueue'[j] => i = j
    BY <1>1, <1>3, <2>1 DEF Queued
  <2> QED
    BY <1>2, <1>3, <1>4, <2>2, <2>3 DEF Queued, Waiting
<1> QED
  BY <1>6, <1>7, <1>8, <1>9 DEF IInv

LEMMA EmplaceKeeps == ASSUME IInv, Emplace PROVE IInv'
<1>1. Shapes /\ Owned /\ NothingInherited /\ Watched /\ Queued /\ GoodQueue /\ GoodDeques
      /\ Numbered /\ Asked /\ Busy
  BY DEF IInv
<1> DEFINE f == peer[listener.conn].fd
<1>2. /\ listener.pc = "emplace"
      /\ toWrite' = IF f = None \/ toWrite[f] # None THEN toWrite ELSE [toWrite EXCEPT ![f] = <<>>]
      /\ listener' = [pc |-> "idle", conn |-> None, fd |-> None]
      /\ UNCHANGED <<sock, open, epoll, peer, peers_, writesQueue, peersQueue, io, app, promise>>
  BY DEF Emplace
<1>3. listener.conn \in Conns
  BY <1>1, <1>2 DEF Queued
<1>4. f \in Fds \cup {None} /\ (f # None => open[f] = listener.conn)
  BY <1>1, <1>3 DEF Shapes, Peers, Owned
<1>5. /\ toWrite' \in [Fds -> Seq(Entries) \cup {None}]
      /\ \A g \in Fds : \/ toWrite'[g] = toWrite[g]
                        \/ toWrite[g] = None /\ toWrite'[g] = <<>> /\ open[g] # None
  BY <1>1, <1>2, <1>3, <1>4, NumberTypes DEF Shapes
<1> HIDE DEF f
<1>6. Shapes'
  <2>1. listener' \in Listeners
    BY <1>2 DEF Listeners
  <2> QED
    BY <1>1, <1>2, <1>5, <2>1 DEF Shapes
<1>7. Owned' /\ Watched' /\ Asked' /\ Numbered'
  BY <1>1, <1>2 DEF Owned, Watched, Asked, AskedOnce, Numbered
<1>8. NothingInherited'
  BY <1>1, <1>2, <1>5 DEF NothingInherited
<1>9. Queued'
  <2>1. listener'.pc = "idle" /\ peersQueue' = peersQueue
    BY <1>2
  <2>2. \A i \in DOMAIN peersQueue : Waiting(peersQueue[i])'
    BY <1>1, <1>2 DEF Queued, Waiting
  <2> QED
    BY <1>1, <2>1, <2>2 DEF Queued, Waiting
<1>10. PastStays /\ SameRequests /\ RequestsStay
  <2>1. PastStays /\ SameRequests
    BY <1>2 DEF PastStays, Past, Registered, SameRequests
  <2> QED
    BY <1>1, <2>1, RequestsKept
<1>11. GoodQueue' /\ GoodDeques'
  BY <1>1, <1>2, <1>5, <1>6, <1>10, QueueKept, DequesKept
<1>12. Busy'
  BY <1>1, <1>2, <1>5 DEF Busy
<1> QED
  BY <1>6, <1>7, <1>8, <1>9, <1>11, <1>12 DEF IInv

-----------------------------------------------------------------------------
LEMMA EntryTypes ==
  ASSUME NEW c \in Conns, NEW n \in 0 .. NRequests, NEW part \in Parts, NEW f \in Fds
  PROVE  /\ Entry(c, n, part, f) \in Entries /\ Left(Entry(c, n, part, f)) \in 1 .. Size
         /\ Entry(c, n, part, f).conn = c /\ Entry(c, n, part, f).n = n
         /\ Entry(c, n, part, f).part = part /\ Entry(c, n, part, f).fd = f
BY NumberTypes DEF Entry, Entries, Left

LEMMA PushTypes ==
  ASSUME Shapes, NEW e \in Entries, Push(e)
  PROVE  /\ writesQueue' \in Seq(Entries) /\ promise' \in [Writes -> Fates]
         /\ \A w \in Writes : promise'[w] # "none" => promise[w] # "none" \/ w = WriteOf(e)
<1>1. writesQueue' = Append(writesQueue, e) /\ promise' = [promise EXCEPT ![WriteOf(e)] = "pending"]
  BY DEF Push
<1>2. writesQueue \in Seq(Entries) /\ promise \in [Writes -> Fates]
  BY DEF Shapes
<1>3. writesQueue' \in Seq(Entries)
  BY <1>1, <1>2
<1>4. "pending" \in Fates
  BY DEF Fates
<1>5. promise' \in [Writes -> Fates]
  BY <1>1, <1>2, <1>4
<1>6. \A w \in Writes : promise'[w] # "none" => promise[w] # "none" \/ w = WriteOf(e)
  BY <1>1, <1>2
<1> QED
  BY <1>3, <1>5, <1>6

LEMMA PushGood ==
  ASSUME Shapes, Shapes', PastStays, RequestsStay, GoodQueue, NEW e \in Entries, Good(e)',
         writesQueue' = Append(writesQueue, e)
  PROVE  GoodQueue'
<1>1. writesQueue \in Seq(Entries)
  BY DEF Shapes
<1>2. \A i \in DOMAIN writesQueue' :
        \/ i \in DOMAIN writesQueue /\ writesQueue'[i] = writesQueue[i]
        \/ writesQueue'[i] = e
  BY <1>1
<1> SUFFICES ASSUME NEW i \in DOMAIN writesQueue' PROVE Good(writesQueue[i])'
  BY DEF GoodQueue
<1>3. PICK d \in Entries : d = writesQueue'[i] /\ Good(d)'
  <2>1. CASE writesQueue'[i] = e
    BY <2>1
  <2>2. CASE i \in DOMAIN writesQueue /\ writesQueue'[i] = writesQueue[i]
    <3>1. PICK d \in Entries : d = writesQueue[i]
      BY <1>1, <2>2
    <3>2. Good(d)
      BY <2>2, <3>1 DEF GoodQueue
    <3>3. Good(d)'
      BY <3>2, GoodStays
    <3> QED
      BY <2>2, <3>1, <3>3
  <2> QED
    BY <1>2, <2>1, <2>2
<1> QED
  BY <1>3 DEF Good, Past, Registered

LEMMA AppFdKeeps == ASSUME IInv, NEW a \in app, AppFd(a) PROVE IInv'
<1>1. Shapes /\ Owned /\ NothingInherited /\ Watched /\ Queued /\ GoodQueue /\ GoodDeques
      /\ Numbered /\ Asked /\ Busy
  BY DEF IInv
<1> DEFINE p == [peer[a.conn] EXCEPT !.idle = TRUE]
           b == [a EXCEPT !.fd = peer[a.conn].fd]
<1>2. /\ app' \subseteq app \cup {b} /\ peer' = [peer EXCEPT ![a.conn] = p]
      /\ UNCHANGED <<sock, open, epoll, peers_, toWrite, writesQueue, peersQueue, io, listener, promise>>
  BY DEF AppFd, queues
<1>3. a \in Answers /\ a.conn \in Conns
  BY <1>1 DEF Shapes, Answers
<1>4. peer[a.conn] \in Peers
  BY <1>1, <1>3 DEF Shapes
<1>5. p \in Peers /\ p.fd = peer[a.conn].fd /\ p.requests = peer[a.conn].requests
  BY <1>4 DEF Peers
<1>6. b \in Answers /\ b.n = a.n /\ b.conn = a.conn
  BY <1>3, <1>4 DEF Answers, Peers
<1> HIDE DEF p, b
<1>7. Shapes'
  <2>1. peer' \in [Conns -> Peers] /\ app' \subseteq Answers
    BY <1>1, <1>2, <1>3, <1>5, <1>6 DEF Shapes
  <2> QED
    BY <1>1, <1>2, <2>1 DEF Shapes
<1>8. SameEnds /\ SameRequests /\ SameInputs /\ SameWatch
  BY <1>1, <1>2, <1>3, <1>5 DEF Shapes, SameEnds, SameRequests, SameInputs, SameWatch
<1>9. RequestsStay
  BY <1>1, <1>8, RequestsKept
<1>10. Owned' /\ NothingInherited' /\ Watched' /\ Queued' /\ PastStays /\ GoodDeques'
  BY <1>2, <1>7, <1>8, <1>9, Quiet
<1>11. GoodQueue'
  BY <1>1, <1>2, <1>7, <1>9, <1>10, QueueKept
<1>12. Numbered'
  <2>1. \A d \in app' : d \in Answers /\ \E g \in app : d.n = g.n /\ d.conn = g.conn
    BY <1>1, <1>2, <1>6 DEF Shapes
  <2>2. promise' = promise
    BY <1>2
  <2> QED
    BY <1>1, <1>7, <1>9, <2>1, <2>2, NumberedKept
<1>13. Asked' /\ Busy'
  BY <1>1, <1>2, <1>8, AskedKept DEF Busy
<1> QED
  BY <1>7, <1>10, <1>11, <1>12, <1>13 DEF IInv

LEMMA AppPushKeeps == ASSUME IInv, NEW a \in app, AppPush(a) PROVE IInv'
<1>1. Shapes /\ Owned /\ NothingInherited /\ Watched /\ Queued /\ GoodQueue /\ GoodDeques
      /\ Numbered /\ Asked /\ Busy
  BY DEF IInv
<1>2. /\ a.fd # None /\ app' = app \ {a} /\ Push(Entry(a.conn, a.n, "raw", a.fd))
      /\ UNCHANGED <<sock, open, epoll, peer, peers_, toWrite, peersQueue, io, listener>>
  BY DEF AppPush
<1>3. a.conn \in Conns /\ a.n \in 0 .. NRequests /\ a.fd \in Fds /\ a.n <= peer[a.conn].requests
  BY <1>1, <1>2, NumberTypes DEF Shapes, Answers, Numbered
<1>4. PICK e \in Entries : /\ e = Entry(a.conn, a.n, "raw", a.fd) /\ Left(e) \in 1 .. Size
                           /\ e.conn = a.conn /\ e.n = a.n /\ e.part = "raw"
  BY <1>3, EntryTypes DEF Parts
<1>5. Push(e) /\ writesQueue' = Append(writesQueue, e)
  BY <1>2, <1>4 DEF Push
<1>6. /\ writesQueue' \in Seq(Entries) /\ promise' \in [Writes -> Fates]
      /\ \A w \in Writes : promise'[w] # "none" => promise[w] # "none" \/ w = WriteOf(e)
  BY <1>1, <1>5, PushTypes
<1>7. Shapes'
  BY <1>1, <1>2, <1>6 DEF Shapes
<1>8. SameEnds /\ SameRequests /\ SameInputs /\ SameWatch
  BY <1>2 DEF SameEnds, SameRequests, SameInputs, SameWatch
<1>9. RequestsStay
  BY <1>1, <1>8, RequestsKept
<1>10. Owned' /\ NothingInherited' /\ Watched' /\ Queued' /\ PastStays /\ GoodDeques'
  BY <1>2, <1>7, <1>8, <1>9, Quiet
<1>11. Good(e)'
  BY <1>2, <1>3, <1>4 DEF Good
<1>12. GoodQueue'
  BY <1>1, <1>5, <1>7, <1>9, <1>10, <1>11, PushGood
<1>13. Numbered'
  <2>1. \A d \in app' : d \in Answers /\ \E g \in app : d.n = g.n /\ d.conn = g.conn
    BY <1>1, <1>2 DEF Shapes
  <2>2. \A w \in Writes : w = WriteOf(e) => w[2] <= peer'[w[1]].requests
    BY <1>2, <1>3, <1>4 DEF WriteOf
  <2> QED
    BY <1>1, <1>6, <1>7, <1>9, <2>1, <2>2, NumberedKept
<1>14. Asked' /\ Busy'
  BY <1>1, <1>2, <1>8, AskedKept DEF Busy
<1> QED
  BY <1>7, <1>10, <1>12, <1>13, <1>14 DEF IInv

-----------------------------------------------------------------------------
\* What the transport reads of a descriptor that is registered.
LEMMA Held ==
  ASSUME IInv, NEW f \in Fds, peers_[f] # None
  PROVE  /\ peers_[f] \in Conns /\ open[f] = peers_[f] /\ peer[peers_[f]].fd = f
         /\ Registered(peers_[f]) /\ sock[peers_[f]] \in Sockets /\ sock[open[f]] \in Sockets
         /\ epoll[f].interest # {}
<1>1. Shapes /\ NothingInherited
  BY DEF IInv
<1>2. peers_[f] \in Conns
  BY <1>1 DEF Shapes
<1>3. sock[peers_[f]] \in Sockets
  BY <1>1, <1>2 DEF Shapes
<1>4. open[f] = peers_[f] /\ peer[peers_[f]].fd = f /\ epoll[f].interest # {}
  BY <1>1 DEF NothingInherited
<1> QED
  BY <1>2, <1>3, <1>4, NumberTypes DEF Registered

LEMMA WatchTypes ==
  ASSUME Shapes, NEW f \in Fds, NEW interest, interest \subseteq {"R", "W"}, NEW s \in Sockets,
         epoll' = Watch(f, interest, s)
  PROVE  /\ epoll' \in [Fds -> Watches] /\ epoll'[f].interest = interest
         /\ \A g \in Fds : g # f => epoll'[g] = epoll[g]
<1>1. epoll \in [Fds -> Watches] /\ epoll[f].armed \in BOOLEAN
  BY DEF Shapes, Watches
<1>2. Readable(s) \in BOOLEAN /\ Writable(s) \in BOOLEAN
  BY DEF Readable, Writable
<1> DEFINE armed == epoll[f].armed \/ ("R" \in interest /\ Readable(s)) \/ ("W" \in interest /\ Writable(s))
<1>3. armed \in BOOLEAN
  OBVIOUS
<1>4. Watch(f, interest, s) = [epoll EXCEPT ![f] = [interest |-> interest, armed |-> armed]]
  BY DEF Watch
<1> HIDE DEF armed
<1>5. [interest |-> interest, armed |-> armed] \in Watches
  BY <1>3 DEF Watches
<1> QED
  BY <1>1, <1>4, <1>5

\* A step of the reactor that moves only itself and what is watched for.
LEMMA IoQuiet ==
  ASSUME IInv, io' \in Loops, epoll' \in [Fds -> Watches], SameWatch, Busy',
         UNCHANGED <<sock, open, peer, peers_, queues, listener, app, promise>>
  PROVE  IInv'
<1>1. Shapes /\ GoodQueue /\ Numbered /\ Asked
  BY DEF IInv
<1>2. Shapes'
  BY <1>1 DEF Shapes, queues
<1>3. SameEnds /\ SameRequests /\ SameInputs
  BY DEF SameEnds, SameRequests, SameInputs
<1>4. RequestsStay
  BY <1>1, <1>3, RequestsKept
<1>5. Owned' /\ NothingInherited' /\ Watched' /\ Queued' /\ PastStays /\ GoodDeques'
  BY <1>2, <1>3, <1>4, Quiet DEF queues
<1>6. GoodQueue'
  BY <1>1, <1>2, <1>4, <1>5, QueueKept DEF queues
<1>7. Numbered' /\ Asked'
  BY <1>1, <1>3, AskedKept DEF Numbered
<1> QED
  BY <1>2, <1>5, <1>6, <1>7 DEF IInv

LEMMA PollKeeps == ASSUME IInv, Poll PROVE IInv'
<1>1. Shapes
  BY DEF IInv
<1> DEFINE ready == {f \in Fds : epoll[f].armed /\ open[f] # None /\ Flags(f) # {}}
           events == {[tag |-> f, flags |-> Flags(f)] : f \in ready}
                     \cup {[tag |-> q, flags |-> {"R"}] : q \in {x \in {"writes", "peers"} :
                             IF x = "writes" THEN writesQueue # <<>> ELSE peersQueue # <<>>}}
<1>2. /\ \/ io' = [io EXCEPT !.pc = "handle", !.batch = events]
         \/ io' = [io EXCEPT !.pc = "tick", !.batch = events, !.ticks = @ + 1]
      /\ epoll' = [f \in Fds |-> [epoll[f] EXCEPT !.armed = FALSE]]
      /\ UNCHANGED <<sock, open, peer, peers_, queues, listener, app, promise>>
  BY DEF Poll
<1>3. io \in Loops /\ io.ticks + 1 \in Nat /\ epoll \in [Fds -> Watches]
  BY <1>1 DEF Shapes, Loops
<1>4. \A f \in Fds : Flags(f) \in SUBSET {"R", "W"}
  BY <1>3 DEF Flags, Watches
<1>5. events \in SUBSET Events /\ \A e \in events : e.flags = {"W"} => e.tag \in Fds
  BY <1>4 DEF Events
<1> HIDE DEF events
<1>6. io' \in Loops /\ io'.pc \in {"handle", "tick"} /\ io'.batch = events
  <2>1. CASE io' = [io EXCEPT !.pc = "handle", !.batch = events]
    BY <2>1, <1>3, <1>5 DEF Loops, Places
  <2>2. CASE io' = [io EXCEPT !.pc = "tick", !.batch = events, !.ticks = @ + 1]
    BY <2>2, <1>3, <1>5 DEF Loops, Places
  <2> QED
    BY <1>2, <2>1, <2>2
<1>7. epoll' \in [Fds -> Watches] /\ SameWatch
  <2>1. epoll' = [f \in Fds |-> [epoll[f] EXCEPT !.armed = FALSE]]
    BY <1>2
  <2>2. ASSUME NEW f \in Fds
        PROVE  /\ [epoll[f] EXCEPT !.armed = FALSE] \in Watches
               /\ [epoll[f] EXCEPT !.armed = FALSE].interest = epoll[f].interest
    BY <1>3 DEF Watches
  <2> QED
    BY <2>1, <2>2 DEF SameWatch
<1>8. Busy'
  BY <1>5, <1>6 DEF Busy
<1> QED
  BY <1>2, <1>6, <1>7, <1>8, IoQuiet

LEMMA OnReadyKeeps == ASSUME IInv, NEW e \in io.batch, OnReady(e) PROVE IInv'
<1>1. Shapes /\ Busy /\ Watched
  BY DEF IInv
<1> DEFINE f == e.tag
           rest == io.batch \ {e}
<1>2. io \in Loops /\ io.batch \in SUBSET Events /\ e \in Events /\ epoll \in [Fds -> Watches]
  BY <1>1 DEF Shapes, Loops
<1>3. UNCHANGED <<sock, open, peer, peers_, queues, listener, app, promise>> /\ io.pc = "handle"
  BY DEF OnReady
<1>4. rest \in SUBSET Events /\ \A d \in rest : d.flags = {"W"} => d.tag \in Fds
  BY <1>1, <1>2 DEF Busy
<1> HIDE DEF rest
<1>5. CASE /\ f \in {"writes", "peers"}
           /\ io' = [io EXCEPT !.pc = f, !.batch = rest] /\ UNCHANGED epoll
  <2>1. io' \in Loops /\ io'.batch = rest /\ io'.pc \in {"writes", "peers"}
    BY <1>2, <1>4, <1>5 DEF Loops, Places
  <2>2. Busy'
    BY <1>4, <2>1 DEF Busy
  <2>3. SameWatch
    BY <1>5 DEF SameWatch
  <2> QED
    BY <1>2, <1>3, <1>5, <2>1, <2>2, <2>3, IoQuiet
<1>6. CASE /\ f \in Fds /\ UNCHANGED epoll
           /\ io' = [io EXCEPT !.pc = IF peers_[f] = None THEN "handle" ELSE "read",
                               !.batch = rest, !.fd = f]
  <2>1. io' \in Loops /\ io'.batch = rest /\ io'.fd = f /\ io'.pc \in {"handle", "read"}
        /\ (io'.pc = "read" => peers_[f] # None)
    BY <1>2, <1>4, <1>6 DEF Loops, Places
  <2>2. Busy'
    BY <1>3, <1>4, <1>6, <2>1 DEF Busy
  <2>3. SameWatch
    BY <1>6 DEF SameWatch
  <2> QED
    BY <1>2, <1>3, <1>6, <2>1, <2>2, <2>3, IoQuiet
<1>7. CASE io' = [io EXCEPT !.pc = "crashed"] /\ UNCHANGED epoll
  <2>1. io' \in Loops /\ io'.batch = io.batch /\ io'.pc = "crashed"
    BY <1>2, <1>7 DEF Loops, Places
  <2>2. Busy'
    BY <1>1, <2>1 DEF Busy
  <2>3. SameWatch
    BY <1>7 DEF SameWatch
  <2> QED
    BY <1>2, <1>3, <1>7, <2>1, <2>2, <2>3, IoQuiet
<1>8. CASE /\ e.flags = {"W"} /\ epoll[f].interest # {}
           /\ io' = [io EXCEPT !.pc = IF toWrite[f] \in {None, <<>>} THEN "handle" ELSE "write",
                               !.batch = rest, !.fd = f]
           /\ epoll' = Watch(f, {"R"}, sock[open[f]])
  <2>1. f \in Fds
    BY <1>1, <1>8 DEF Busy
  <2>2. peers_[f] # None
    BY <1>1, <1>8, <2>1 DEF Watched
  <2>3. sock[open[f]] \in Sockets
    BY <2>1, <2>2, Held
  <2>4. epoll' \in [Fds -> Watches] /\ SameWatch
    <3>1. /\ epoll' \in [Fds -> Watches] /\ epoll'[f].interest = {"R"}
          /\ \A g \in Fds : g # f => epoll'[g] = epoll[g]
      BY <1>1, <1>8, <2>1, <2>3, WatchTypes
    <3> QED
      BY <1>8, <3>1 DEF SameWatch
  <2>5. io' \in Loops /\ io'.batch = rest /\ io'.fd = f /\ io'.pc \in {"handle", "write"}
        /\ (io'.pc = "write" => toWrite[f] # None /\ toWrite[f] # <<>>)
    BY <1>2, <1>4, <1>8, <2>1 DEF Loops, Places
  <2>6. Busy'
    BY <1>3, <1>4, <2>1, <2>2, <2>5 DEF Busy, queues
  <2> QED
    BY <1>3, <2>4, <2>5, <2>6, IoQuiet
<1> QED
  BY <1>5, <1>6, <1>7, <1>8 DEF OnReady, rest

\* The reactor goes back to its loop.
LEMMA LoopKeeps ==
  ASSUME IInv, NEW pc \in {"poll", "handle"}, NEW fd \in Fds \cup {None},
         io' = [io EXCEPT !.pc = pc, !.fd = fd],
         UNCHANGED <<sock, open, epoll, peer, peers_, queues, listener, app, promise>>
  PROVE  IInv'
<1>1. Shapes /\ Busy
  BY DEF IInv
<1>2. io' \in Loops /\ io'.batch = io.batch /\ io'.pc \in {"poll", "handle"}
  BY <1>1 DEF Shapes, Loops, Places
<1>3. Busy'
  BY <1>1, <1>2 DEF Busy
<1>4. epoll' \in [Fds -> Watches] /\ SameWatch
  BY <1>1 DEF Shapes, SameWatch
<1> QED
  BY <1>2, <1>3, <1>4, IoQuiet

LEMMA LoopsKeep == ASSUME IInv, BatchDone \/ NobodyIdle \/ ReceiveAgain PROVE IInv'
<1>1. io \in Loops /\ io.fd \in Fds \cup {None}
  BY DEF IInv, Shapes, Loops
<1>2. UNCHANGED <<sock, open, epoll, peer, peers_, queues, listener, app, promise>>
  BY DEF BatchDone, NobodyIdle, ReceiveAgain
<1>3. CASE BatchDone
  <2>1. io' = [io EXCEPT !.pc = "poll", !.fd = None]
    BY <1>3 DEF BatchDone
  <2> QED
    BY <1>2, <2>1, LoopKeeps
<1>4. CASE NobodyIdle \/ ReceiveAgain
  <2>1. io' = [io EXCEPT !.pc = "handle", !.fd = io.fd]
    BY <1>1, <1>4 DEF NobodyIdle, ReceiveAgain, Loops
  <2> QED
    BY <1>1, <1>2, <2>1, LoopKeeps
<1> QED
  BY <1>3, <1>4

-----------------------------------------------------------------------------
\* A peer comes off the queue: it has had its descriptor to itself since it was
\* accepted.
LEMMA HandlePeerKeeps == ASSUME IInv, HandlePeer PROVE IInv'
<1>1. Shapes /\ Owned /\ NothingInherited /\ Watched /\ Queued /\ GoodQueue /\ GoodDeques
      /\ Numbered /\ Asked /\ Busy
  BY DEF IInv
<1>2. /\ io.pc = "peers"
      /\ UNCHANGED <<sock, open, peer, toWrite, writesQueue, listener, app, promise>>
  BY DEF HandlePeer
<1>3. CASE peersQueue = <<>>
  <2>1. io' = [io EXCEPT !.pc = "handle", !.fd = io.fd] /\ io.fd \in Fds \cup {None}
    BY <1>1, <1>3 DEF HandlePeer, Shapes, Loops
  <2>2. UNCHANGED <<epoll, peers_, queues>>
    BY <1>2, <1>3 DEF HandlePeer, queues
  <2> QED
    BY <1>2, <2>1, <2>2, LoopKeeps
<1>4. CASE peersQueue # <<>>
  <2>0. PICK t : t = Tail(peersQueue)
    OBVIOUS
  <2>1. PICK c : c = Head(peersQueue)
    OBVIOUS
  <2>2. PICK f : f = peer[c].fd
    OBVIOUS
  <2>3. /\ peersQueue' = t /\ peers_' = [peers_ EXCEPT ![f] = c]
        /\ epoll' = Watch(f, {"R"}, sock[c]) /\ io' = io
    BY <1>4, <2>0, <2>1, <2>2 DEF HandlePeer
  <2>4. /\ peersQueue \in Seq(Conns) /\ c \in Conns /\ t \in Seq(Conns)
        /\ 1 \in DOMAIN peersQueue /\ peersQueue[1] = c
        /\ \A i \in DOMAIN t : i + 1 \in DOMAIN peersQueue /\ t[i] = peersQueue[i + 1] /\ i \in Nat /\ i >= 1
    BY <1>1, <1>4, <2>0, <2>1 DEF Shapes
  <2>5. f \in Fds /\ peers_[f] = None /\ open[f] = c /\ c # None /\ f # None
    <3>1. Waiting(c)
      BY <1>1, <2>4 DEF Queued
    <3>2. peer[c].fd # None /\ peers_[f] = None
      BY <2>2, <3>1 DEF Waiting
    <3>3. peer[c].fd \in Fds \cup {None}
      BY <1>1, <2>4 DEF Shapes, Peers
    <3> QED
      BY <1>1, <2>2, <2>4, <3>2, <3>3, NumberTypes DEF Owned
  <2>6. sock[c] \in Sockets
    BY <1>1, <2>4 DEF Shapes
  <2>7. /\ epoll' \in [Fds -> Watches] /\ epoll'[f].interest = {"R"}
        /\ \A g \in Fds : g # f => epoll'[g] = epoll[g]
    BY <1>1, <2>3, <2>5, <2>6, WatchTypes
  <2>8. /\ peers_' \in [Fds -> Conns \cup {None}] /\ peers_'[f] = c
        /\ \A g \in Fds : g # f => peers_'[g] = peers_[g]
    BY <1>1, <2>3, <2>4, <2>5 DEF Shapes
  <2>9. Shapes'
    BY <1>1, <1>2, <2>3, <2>4, <2>7, <2>8 DEF Shapes
  <2>10. Owned'
    BY <1>1, <1>2 DEF Owned
  <2>11. NothingInherited' /\ Watched'
    <3>1. \A g \in Fds : peers_'[g] # None => /\ open[g] = peers_'[g] /\ peer[peers_'[g]].fd = g
                                              /\ epoll'[g].interest # {}
      BY <1>1, <2>2, <2>5, <2>7, <2>8 DEF NothingInherited
    <3>2. NothingInherited'
      BY <1>1, <1>2, <3>1 DEF NothingInherited
    <3>3. Watched'
      BY <1>1, <2>5, <2>7, <2>8 DEF Watched
    <3> QED
      BY <3>2, <3>3
  <2>12. PastStays /\ \A d \in Conns : d # c /\ Waiting(d) => Waiting(d)'
    <3>1. \A d \in Conns : d # c /\ peer[d].fd # None => peer[d].fd # f /\ peer[d].fd \in Fds
      BY <1>1, <2>2, <2>5 DEF Owned, Shapes, Peers
    <3>2. \A d \in Conns : d # c /\ Waiting(d) => Waiting(d)'
      BY <1>2, <2>8, <3>1 DEF Waiting
    <3>3. \A d \in Conns : Registered(d) => Registered(d)'
      BY <1>2, <2>2, <2>5, <2>8, <3>1 DEF Registered
    <3> QED
      BY <1>2, <3>2, <3>3 DEF PastStays, Past
  <2>13. Queued'
    <3>1. \A i \in DOMAIN t : t[i] \in Conns /\ t[i] # c /\ Waiting(t[i])
      <4>1. \A i \in DOMAIN t : t[i] # c
        BY <1>1, <2>4 DEF Queued
      <4> QED
        BY <1>1, <2>4, <4>1 DEF Queued
    <3>2. \A i \in DOMAIN t : Waiting(t[i])'
      BY <2>12, <3>1
    <3>3. listener.pc = "dispatch" => /\ listener.conn \in Conns /\ Waiting(listener.conn)'
                                      /\ \A i \in DOMAIN t : t[i] # listener.conn
      <4> SUFFICES ASSUME listener.pc = "dispatch"
                   PROVE  /\ listener.conn \in Conns /\ Waiting(listener.conn)'
                          /\ \A i \in DOMAIN t : t[i] # listener.conn
        OBVIOUS
      <4>1. PICK d : d = listener.conn
        OBVIOUS
      <4>2. d \in Conns /\ d # c /\ Waiting(d) /\ \A i \in DOMAIN t : t[i] # d
        BY <1>1, <2>4, <4>1 DEF Queued
      <4>3. Waiting(d)'
        BY <2>12, <4>2
      <4> QED
        BY <1>2, <4>1, <4>2, <4>3 DEF Waiting
    <3>4. \A i, j \in DOMAIN t : t[i] = t[j] => i = j
      <4> SUFFICES ASSUME NEW i \in DOMAIN t, NEW j \in DOMAIN t, t[i] = t[j] PROVE i = j
        OBVIOUS
      <4>1. i + 1 = j + 1
        BY <1>1, <2>4 DEF Queued
      <4> QED
        BY <2>4, <4>1
    <3> QED
      BY <1>1, <1>2, <2>3, <3>2, <3>3, <3>4 DEF Queued, Waiting
  <2>14. SameRequests /\ SameInputs /\ RequestsStay
    <3>1. SameRequests /\ SameInputs
      BY <1>2 DEF SameRequests, SameInputs
    <3> QED
      BY <1>1, <3>1, RequestsKept
  <2>15. GoodQueue' /\ GoodDeques'
    BY <1>1, <1>2, <2>9, <2>12, <2>14, QueueKept, DequesKept
  <2>16. Numbered' /\ Asked'
    BY <1>1, <1>2, <2>14, AskedKept DEF Numbered
  <2>17. Busy'
    BY <1>1, <1>2, <2>3 DEF Busy
  <2> QED
    BY <2>9, <2>10, <2>11, <2>13, <2>15, <2>16, <2>17 DEF IInv
<1> QED
  BY <1>3, <1>4

LEMMA HandleWriteQueueKeeps == ASSUME IInv, HandleWriteQueue PROVE IInv'
<1>1. Shapes /\ Owned /\ NothingInherited /\ Watched /\ Queued /\ GoodQueue /\ GoodDeques
      /\ Numbered /\ Asked /\ Busy
  BY DEF IInv
<1>2. /\ io.pc = "writes"
      /\ UNCHANGED <<sock, open, peer, peers_, peersQueue, listener, app, promise>>
  BY DEF HandleWriteQueue
<1>3. CASE writesQueue = <<>>
  <2>1. io' = [io EXCEPT !.pc = "handle", !.fd = io.fd] /\ io.fd \in Fds \cup {None}
    BY <1>1, <1>3 DEF HandleWriteQueue, Shapes, Loops
  <2>2. UNCHANGED <<epoll, queues>>
    BY <1>2, <1>3 DEF HandleWriteQueue, queues
  <2> QED
    BY <1>2, <2>1, <2>2, LoopKeeps
<1>4. CASE writesQueue # <<>>
  <2>0. PICK t : t = Tail(writesQueue)
    OBVIOUS
  <2>1. PICK e : e = Head(writesQueue)
    OBVIOUS
  <2>2. PICK f : f = e.fd
    OBVIOUS
  <2>3. /\ writesQueue' = t /\ io' = io
        /\ \/ peers_[f] = None /\ epoll' = epoll /\ toWrite' = toWrite
           \/ /\ peers_[f] # None
              /\ toWrite' = [toWrite EXCEPT ![f] = Append(IF @ = None THEN <<>> ELSE @, e)]
              /\ epoll' = Watch(f, {"R", "W"}, sock[open[f]])
    BY <1>4, <2>0, <2>1, <2>2 DEF HandleWriteQueue
  <2>4. /\ writesQueue \in Seq(Entries) /\ e \in Entries /\ t \in Seq(Entries)
        /\ 1 \in DOMAIN writesQueue /\ writesQueue[1] = e
        /\ \A i \in DOMAIN t : i + 1 \in DOMAIN writesQueue /\ t[i] = writesQueue[i + 1]
    BY <1>1, <1>4, <2>0, <2>1 DEF Shapes
  <2>5. f \in Fds /\ Good(e)
    BY <1>1, <2>2, <2>4 DEF GoodQueue, Entries
  <2>6. \A i \in DOMAIN t : Good(t[i])
    BY <1>1, <2>4 DEF GoodQueue
  <2>7. /\ epoll' \in [Fds -> Watches] /\ SameWatch
        /\ toWrite' \in [Fds -> Seq(Entries) \cup {None}]
        /\ \A g \in Fds : toWrite'[g] # None => toWrite[g] # None \/ open[g] # None
        /\ \A g \in Fds : toWrite'[g] # None =>
             \A i \in DOMAIN toWrite'[g] : Good(toWrite'[g][i]) /\ toWrite'[g][i].fd = g
    <3>1. CASE peers_[f] = None /\ epoll' = epoll /\ toWrite' = toWrite
      BY <1>1, <3>1 DEF Shapes, SameWatch, GoodDeques
    <3>2. CASE /\ peers_[f] # None
               /\ toWrite' = [toWrite EXCEPT ![f] = Append(IF @ = None THEN <<>> ELSE @, e)]
               /\ epoll' = Watch(f, {"R", "W"}, sock[open[f]])
      <4>1. sock[open[f]] \in Sockets /\ open[f] # None /\ epoll[f].interest # {}
        BY <2>5, <3>2, Held, NumberTypes
      <4>2. /\ epoll' \in [Fds -> Watches] /\ epoll'[f].interest = {"R", "W"}
            /\ \A g \in Fds : g # f => epoll'[g] = epoll[g]
        BY <1>1, <2>5, <3>2, <4>1, WatchTypes
      <4>3. SameWatch
        BY <4>1, <4>2 DEF SameWatch
      <4>4. PICK q : q = IF toWrite[f] = None THEN <<>> ELSE toWrite[f]
        OBVIOUS
      <4>5. q \in Seq(Entries) /\ \A i \in DOMAIN q : Good(q[i]) /\ q[i].fd = f
        BY <1>1, <2>5, <4>4 DEF Shapes, GoodDeques
      <4>6. Append(q, e) \in Seq(Entries)
            /\ \A i \in DOMAIN Append(q, e) : (i \in DOMAIN q /\ Append(q, e)[i] = q[i]) \/ Append(q, e)[i] = e
        BY <2>4, <4>5
      <4>7. \A i \in DOMAIN Append(q, e) : Good(Append(q, e)[i]) /\ Append(q, e)[i].fd = f
        BY <2>2, <2>5, <4>5, <4>6
      <4>8. toWrite' = [toWrite EXCEPT ![f] = Append(q, e)]
        BY <3>2, <4>4
      <4>9. /\ toWrite' \in [Fds -> Seq(Entries) \cup {None}] /\ toWrite'[f] = Append(q, e)
            /\ \A g \in Fds : g # f => toWrite'[g] = toWrite[g]
        BY <1>1, <2>5, <4>6, <4>8 DEF Shapes
      <4> QED
        BY <1>1, <4>1, <4>2, <4>3, <4>7, <4>9 DEF GoodDeques
    <3> QED
      BY <2>3, <3>1, <3>2
  <2>8. Shapes'
    BY <1>1, <1>2, <2>3, <2>4, <2>7 DEF Shapes
  <2>9. SameEnds /\ SameRequests /\ SameInputs
    BY <1>2 DEF SameEnds, SameRequests, SameInputs
  <2>10. Owned' /\ PastStays /\ \A c \in Conns : Waiting(c) => Waiting(c)'
    BY <1>1, <2>9, EndsKept
  <2>11. NothingInherited' /\ Watched'
    BY <1>1, <2>7, <2>9, WatchKept
  <2>12. Queued'
    BY <1>1, <1>2, <2>10, QueuedKept
  <2>13. GoodQueue' /\ GoodDeques'
    BY <1>2, <2>3, <2>6, <2>7 DEF GoodQueue, GoodDeques, Good, Past, Registered
  <2>14. Numbered' /\ Asked'
    BY <1>1, <1>2, <2>9, AskedKept DEF Numbered
  <2>15. Busy'
    BY <1>1, <1>2, <2>3 DEF Busy
  <2> QED
    BY <2>8, <2>10, <2>11, <2>12, <2>13, <2>14, <2>15 DEF IInv
<1> QED
  BY <1>3, <1>4

-----------------------------------------------------------------------------
\* The parser takes a request out of the inbox in the step that counts it.
LEMMA ReceiveKeeps == ASSUME IInv, NEW kind \in Kinds, Receive(kind) PROVE IInv'
<1>1. Shapes /\ Owned /\ NothingInherited /\ Watched /\ Queued /\ GoodQueue /\ GoodDeques
      /\ Numbered /\ Asked /\ Busy
  BY DEF IInv
<1>2. PICK f : f = io.fd
  OBVIOUS
<1>3. PICK c : c = peers_[f]
  OBVIOUS
<1>4. PICK q : q = sock[c].inbox
  OBVIOUS
<1>5. PICK n : n = peer[c].requests + 1
  OBVIOUS
<1>6. /\ io.pc = "read" /\ q # <<>> /\ sock' = [sock EXCEPT ![c].inbox = Tail(@)]
      /\ UNCHANGED <<open, epoll, peers_, toWrite, peersQueue, io, listener>>
      /\ \/ /\ Head(q) = "piece"
            /\ UNCHANGED <<peer, writesQueue, app, promise>>
         \/ /\ Head(q) = "request"
            /\ peer' = [peer EXCEPT ![c].requests = n, ![c].idle = kind = "raw"]
            /\ \/ /\ app' = app \cup {[conn |-> c, n |-> n, fd |-> None]}
                  /\ UNCHANGED <<writesQueue, promise>>
               \/ /\ Push(Entry(c, n, IF kind = "raw" THEN "raw" ELSE "head", f))
                  /\ UNCHANGED app
  BY <1>2, <1>3, <1>4, <1>5 DEF Receive
<1>7. f \in Fds /\ c \in Conns /\ sock[c] \in Sockets
  <2>1. f \in Fds /\ peers_[f] # None
    BY <1>1, <1>2, <1>6 DEF Busy
  <2> QED
    BY <1>3, <2>1, Held
<1>8. /\ q \in Inputs /\ Tail(q) \in Inputs /\ 1 \in DOMAIN q /\ q[1] = Head(q)
      /\ \A i \in DOMAIN Tail(q) : i \in Nat /\ i >= 1 /\ i + 1 \in DOMAIN q /\ Tail(q)[i] = q[i + 1]
      /\ \A i \in DOMAIN q : i # 1 => i \in Nat /\ i - 1 \in DOMAIN Tail(q) /\ Tail(q)[i - 1] = q[i]
  <2>1. q \in Inputs
    BY <1>4, <1>7 DEF Sockets
  <2> QED
    BY <1>6, <2>1 DEF Inputs
<1>9. PICK s : s = [sock[c] EXCEPT !.inbox = Tail(q)]
  OBVIOUS
<1>10. s \in Sockets /\ s.state = sock[c].state /\ s.inbox = Tail(q) /\ s.asked = sock[c].asked
  BY <1>7, <1>8, <1>9 DEF Sockets
<1>11. sock' \in [Conns -> Sockets] /\ sock'[c] = s /\ \A d \in Conns : d # c => sock'[d] = sock[d]
  BY <1>1, <1>4, <1>6, <1>7, <1>9, <1>10 DEF Shapes
<1>12. /\ peer[c].requests \in Nat /\ sock[c].asked \in 0 .. NRequests
       /\ sock[c].asked \in Nat /\ peer[c].requests <= sock[c].asked
       /\ sock[c].asked <= peer[c].requests + 1
  BY <1>1, <1>7, NumberTypes DEF Shapes, Peers, Sockets, Asked, AskedOnce
<1>13. (sock[c].asked > peer[c].requests) <=> (\E i \in DOMAIN q : q[i] = "request")
  BY <1>1, <1>4, <1>7 DEF Asked, AskedOnce
<1>14. \A i, j \in DOMAIN q : q[i] = "request" /\ q[j] = "request" => i = j
  BY <1>1, <1>4, <1>7 DEF Asked, AskedOnce
<1>15. \A i, j \in DOMAIN Tail(q) : Tail(q)[i] = "request" /\ Tail(q)[j] = "request" => i = j
  <2> SUFFICES ASSUME NEW i \in DOMAIN Tail(q), NEW j \in DOMAIN Tail(q),
                      Tail(q)[i] = "request", Tail(q)[j] = "request"
               PROVE  i = j
    OBVIOUS
  <2>1. i + 1 = j + 1
    BY <1>8, <1>14
  <2> QED
    BY <1>8, <2>1
<1>16. SameWatch
  BY <1>6 DEF SameWatch
<1>17. CASE Head(q) = "piece" /\ UNCHANGED <<peer, writesQueue, app, promise>>
  <2>1. Shapes'
    BY <1>1, <1>6, <1>11, <1>17 DEF Shapes
  <2>2. SameEnds /\ SameRequests
    BY <1>6, <1>10, <1>11, <1>17 DEF SameEnds, SameRequests
  <2>3. RequestsStay
    BY <1>1, <2>2, RequestsKept
  <2>4. Owned' /\ NothingInherited' /\ Watched' /\ Queued' /\ PastStays /\ GoodDeques'
    BY <1>6, <1>16, <2>1, <2>2, <2>3, Quiet
  <2>5. GoodQueue' /\ Numbered' /\ Busy'
    <3>1. writesQueue' = writesQueue
      BY <1>17
    <3>2. GoodQueue'
      BY <1>1, <2>1, <2>3, <2>4, <3>1, QueueKept
    <3>3. Numbered' /\ Busy'
      BY <1>1, <1>6, <1>17 DEF Numbered, Busy
    <3> QED
      BY <3>2, <3>3
  <2>6. (\E i \in DOMAIN q : q[i] = "request") <=> (\E i \in DOMAIN Tail(q) : Tail(q)[i] = "request")
    BY <1>8, <1>17
  <2>7. Asked'
    <3>1. AskedOnce(c)'
      BY <1>10, <1>11, <1>12, <1>13, <1>15, <1>17, <2>6 DEF AskedOnce
    <3> QED
      BY <1>1, <1>7, <1>11, <1>17, <3>1, AskedStep
  <2> QED
    BY <2>1, <2>4, <2>5, <2>7 DEF IInv
<1>18. CASE Head(q) = "request" /\ peer' = [peer EXCEPT ![c].requests = n, ![c].idle = kind = "raw"]
  <2>1. sock[c].asked = n /\ n \in 1 .. NRequests /\ n \in Nat
    BY <1>5, <1>8, <1>12, <1>13, <1>18, NumberTypes
  <2>2. \A i \in DOMAIN Tail(q) : Tail(q)[i] # "request"
    <3> SUFFICES ASSUME NEW i \in DOMAIN Tail(q), Tail(q)[i] = "request" PROVE FALSE
      OBVIOUS
    <3>1. i + 1 = 1
      BY <1>8, <1>14, <1>18
    <3> QED
      BY <1>8, <3>1
  <2>3. PICK r : r = [peer[c] EXCEPT !.requests = n, !.idle = kind = "raw"]
    OBVIOUS
  <2>4. r \in Peers /\ r.fd = peer[c].fd /\ r.requests = n
    <3>1. peer[c] \in Peers /\ n \in 0 .. NRequests /\ (kind = "raw") \in BOOLEAN
      BY <1>1, <1>7, <2>1 DEF Shapes
    <3> QED
      BY <2>3, <3>1 DEF Peers
  <2>5. peer' \in [Conns -> Peers] /\ peer'[c] = r /\ \A d \in Conns : d # c => peer'[d] = peer[d]
    BY <1>1, <1>7, <1>18, <2>3, <2>4 DEF Shapes
  <2>6. SameEnds
    BY <1>6, <1>10, <1>11, <2>4, <2>5 DEF SameEnds
  <2>7. RequestsStay
    <3>1. \A d \in Conns : peer[d].requests \in Nat
      BY <1>1, NumberTypes DEF Shapes, Peers
    <3> QED
      BY <1>5, <2>4, <2>5, <3>1 DEF RequestsStay
  <2>8. Asked'
    <3>1. peer'[c].requests = n /\ sock'[c].asked = n /\ sock'[c].inbox = Tail(q)
      BY <1>10, <1>11, <2>1, <2>4, <2>5
    <3>2. AskedOnce(c)'
      BY <1>15, <2>1, <2>2, <3>1 DEF AskedOnce
    <3> QED
      BY <1>1, <1>7, <1>11, <2>5, <3>2, AskedStep
  <2>9. CASE app' = app \cup {[conn |-> c, n |-> n, fd |-> None]} /\ UNCHANGED <<writesQueue, promise>>
    <3>1. PICK a : a = [conn |-> c, n |-> n, fd |-> None]
      OBVIOUS
    <3>2. a \in Answers /\ a.conn = c /\ a.n = n
      BY <1>7, <2>1, <3>1 DEF Answers
    <3>3. Shapes'
      BY <1>1, <1>6, <1>11, <2>5, <2>9, <3>1, <3>2 DEF Shapes
    <3>4. Owned' /\ NothingInherited' /\ Watched' /\ Queued' /\ PastStays /\ GoodDeques'
      BY <1>6, <1>16, <2>6, <2>7, <3>3, Quiet
    <3>5. GoodQueue'
      BY <1>1, <2>7, <2>9, <3>3, <3>4, QueueKept
    <3>6. Numbered'
      <4>1. \A b \in app : b.conn \in Conns /\ b.n \in Nat /\ b.n <= peer[b.conn].requests
        BY <1>1, NumberTypes DEF Shapes, Answers, Numbered
      <4>2. \A d \in Conns : /\ peer[d].requests \in Nat /\ peer'[d].requests \in Nat
                             /\ peer[d].requests <= peer'[d].requests
        BY <1>1, <3>3, <2>7, NumberTypes DEF Shapes, Peers, RequestsStay
      <4>3. \A b \in app' : b.n <= peer'[b.conn].requests
        BY <2>1, <2>4, <2>5, <2>9, <3>1, <3>2, <4>1, <4>2
      <4>4. \A w \in Writes : w[1] \in Conns /\ w[2] \in Nat
        BY NumberTypes DEF Writes
      <4>5. \A w \in Writes : promise[w] # "none" => w[2] <= peer'[w[1]].requests
        BY <1>1, <4>2, <4>4 DEF Numbered
      <4> QED
        BY <2>9, <4>3, <4>5 DEF Numbered
    <3>7. Busy'
      BY <1>1, <1>6 DEF Busy
    <3> QED
      BY <2>8, <3>3, <3>4, <3>5, <3>6, <3>7 DEF IInv
  <2>10. CASE Push(Entry(c, n, IF kind = "raw" THEN "raw" ELSE "head", f)) /\ UNCHANGED app
    <3>1. PICK part \in {"raw", "head"} : part = IF kind = "raw" THEN "raw" ELSE "head"
      OBVIOUS
    <3>2. PICK e \in Entries : /\ e = Entry(c, n, part, f) /\ Left(e) \in 1 .. Size
                               /\ e.conn = c /\ e.n = n /\ e.part = part
      <4>1. n \in 0 .. NRequests /\ part \in Parts
        BY <2>1, <3>1 DEF Parts
      <4> QED
        BY <1>7, <4>1, EntryTypes
    <3>3. Push(e) /\ writesQueue' = Append(writesQueue, e)
      BY <2>10, <3>1, <3>2 DEF Push
    <3>4. /\ writesQueue' \in Seq(Entries) /\ promise' \in [Writes -> Fates]
          /\ \A w \in Writes : promise'[w] # "none" => promise[w] # "none" \/ w = WriteOf(e)
      BY <1>1, <3>3, PushTypes
    <3>5. Shapes'
      BY <1>1, <1>6, <1>11, <2>5, <2>10, <3>4 DEF Shapes
    <3>6. Owned' /\ NothingInherited' /\ Watched' /\ Queued' /\ PastStays /\ GoodDeques'
      BY <1>6, <1>16, <2>6, <2>7, <3>5, Quiet
    <3>7. Good(e)'
      BY <2>1, <2>4, <2>5, <3>1, <3>2 DEF Good
    <3>8. GoodQueue'
      BY <1>1, <2>7, <3>3, <3>5, <3>6, <3>7, PushGood
    <3>9. Numbered'
      <4>1. \A d \in app' : d \in Answers /\ \E g \in app : d.n = g.n /\ d.conn = g.conn
        BY <1>1, <2>10 DEF Shapes
      <4>2. \A w \in Writes : w = WriteOf(e) => w[2] <= peer'[w[1]].requests
        BY <2>1, <2>4, <2>5, <3>2 DEF WriteOf
      <4> QED
        BY <1>1, <2>7, <3>4, <3>5, <4>1, <4>2, NumberedKept
    <3>10. Busy'
      BY <1>1, <1>6 DEF Busy
    <3> QED
      BY <2>8, <3>5, <3>6, <3>8, <3>9, <3>10 DEF IInv
  <2> QED
    BY <1>6, <1>18, <2>9, <2>10
<1> QED
  BY <1>6, <1>17, <1>18

-----------------------------------------------------------------------------
\* Peers that have a descriptor and are registered are removed: whatever was
\* under their descriptors is gone, and no other connection is touched.
LEMMA RemoveKeeps ==
  ASSUME IInv, NEW C \in SUBSET Conns, NEW s \in [Conns -> Sockets], NEW idle,
         RemovePeers(C, s, idle),
         \A d \in Conns : s[d].state = sock[d].state /\ s[d].inbox = sock[d].inbox
                          /\ s[d].asked = sock[d].asked,
         \A c \in C : peer[c].fd # None => Registered(c),
         listener' = listener, peersQueue' = peersQueue
  PROVE  /\ sock' \in [Conns -> Sockets] /\ open' \in [Fds -> Conns \cup {None}]
         /\ epoll' \in [Fds -> Watches] /\ peer' \in [Conns -> Peers]
         /\ peers_' \in [Fds -> Conns \cup {None}]
         /\ toWrite' \in [Fds -> Seq(Entries) \cup {None}]
         /\ Owned' /\ NothingInherited' /\ Watched' /\ Queued' /\ PastStays
         /\ SameRequests /\ RequestsStay /\ Asked'
         /\ \A f \in Fds : toWrite'[f] \in {toWrite[f], None, <<>>}
<1>1. Shapes /\ Owned /\ NothingInherited /\ Watched /\ Queued /\ Asked
  BY DEF IInv
<1> DEFINE fds == {peer[c].fd : c \in C}
<1>2. \A f \in Fds : f \in fds <=> open[f] \in C
  <2> SUFFICES ASSUME NEW f \in Fds PROVE f \in fds <=> open[f] \in C
    OBVIOUS
  <2>1. ASSUME NEW c \in C, peer[c].fd = f PROVE open[f] \in C
    BY <1>1, <2>1, NumberTypes DEF Owned
  <2>2. ASSUME open[f] \in C PROVE peer[open[f]].fd = f
    BY <1>1, <2>2, NumberTypes DEF Owned
  <2>3. f \in fds <=> \E c \in C : peer[c].fd = f
    OBVIOUS
  <2> HIDE DEF fds
  <2> QED
    BY <2>1, <2>2, <2>3
<1>3. /\ peers_' = [f \in Fds |-> IF f \in fds THEN None ELSE peers_[f]]
      /\ epoll' = [f \in Fds |-> IF f \in fds THEN [interest |-> {}, armed |-> FALSE] ELSE epoll[f]]
      /\ toWrite' = [f \in Fds |-> IF f \in fds THEN None ELSE toWrite[f]]
      /\ open' = [f \in Fds |-> IF f \in fds THEN None ELSE open[f]]
      /\ peer' = [c \in Conns |-> [peer[c] EXCEPT !.fd = IF c \in C THEN None ELSE @, !.idle = @ \/ c \in idle]]
      /\ sock' = [c \in Conns |-> IF c \in C /\ peer[c].fd # None THEN [s[c] EXCEPT !.state = "closed"] ELSE s[c]]
  BY DEF RemovePeers
<1> HIDE DEF fds
<1>4. /\ open' \in [Fds -> Conns \cup {None}] /\ peers_' \in [Fds -> Conns \cup {None}]
      /\ toWrite' \in [Fds -> Seq(Entries) \cup {None}]
      /\ \A f \in Fds : /\ open'[f] = IF f \in fds THEN None ELSE open[f]
                        /\ peers_'[f] = IF f \in fds THEN None ELSE peers_[f]
                        /\ toWrite'[f] = IF f \in fds THEN None ELSE toWrite[f]
  BY <1>1, <1>3 DEF Shapes
<1>5. /\ epoll' \in [Fds -> Watches]
      /\ \A f \in Fds : epoll'[f].interest = IF f \in fds THEN {} ELSE epoll[f].interest
  <2>1. [interest |-> {}, armed |-> FALSE] \in Watches
    BY DEF Watches
  <2> QED
    BY <1>1, <1>3, <2>1 DEF Shapes
<1>6. /\ peer' \in [Conns -> Peers]
      /\ \A c \in Conns : /\ peer'[c].fd = IF c \in C THEN None ELSE peer[c].fd
                          /\ peer'[c].requests = peer[c].requests
  <2> SUFFICES ASSUME NEW c \in Conns
               PROVE  /\ peer'[c] \in Peers
                      /\ peer'[c].fd = IF c \in C THEN None ELSE peer[c].fd
                      /\ peer'[c].requests = peer[c].requests
    BY <1>3
  <2>1. peer[c] \in Peers
    BY <1>1 DEF Shapes
  <2>2. PICK k \in BOOLEAN : k = (peer[c].idle \/ c \in idle)
    OBVIOUS
  <2>3. PICK g : g = IF c \in C THEN None ELSE peer[c].fd
    OBVIOUS
  <2>4. peer'[c] = [peer[c] EXCEPT !.fd = g, !.idle = k]
    BY <1>3, <2>2, <2>3
  <2>5. g \in Fds \cup {None}
    BY <2>1, <2>3 DEF Peers
  <2> QED
    BY <2>1, <2>3, <2>4, <2>5 DEF Peers
<1>7. /\ sock' \in [Conns -> Sockets]
      /\ \A c \in Conns : /\ sock'[c].state = IF c \in C /\ peer[c].fd # None THEN "closed" ELSE sock[c].state
                          /\ sock'[c].inbox = sock[c].inbox /\ sock'[c].asked = sock[c].asked
  <2> SUFFICES ASSUME NEW c \in Conns
               PROVE  /\ sock'[c] \in Sockets
                      /\ sock'[c].state = IF c \in C /\ peer[c].fd # None THEN "closed" ELSE sock[c].state
                      /\ sock'[c].inbox = sock[c].inbox /\ sock'[c].asked = sock[c].asked
    BY <1>3
  <2>1. s[c] \in Sockets
    OBVIOUS
  <2>2. CASE c \in C /\ peer[c].fd # None
    <3>1. sock'[c] = [s[c] EXCEPT !.state = "closed"]
      BY <1>3, <2>2
    <3> QED
      BY <2>1, <2>2, <3>1 DEF Sockets, States
  <2>3. CASE ~(c \in C /\ peer[c].fd # None)
    <3>1. sock'[c] = s[c]
      BY <1>3, <2>3
    <3> QED
      BY <2>1, <2>3, <3>1
  <2> QED
    BY <2>2, <2>3
<1>8. \A c \in Conns : peer[c].fd \in Fds \cup {None}
  BY <1>1 DEF Shapes, Peers
<1>9. \A f \in Fds : /\ open[f] # None => open[f] \in Conns
                     /\ peers_[f] # None => peers_[f] \in Conns /\ open[f] = peers_[f]
  BY <1>1 DEF Shapes, NothingInherited
<1>10. \A c \in Conns : c \notin C /\ peer[c].fd # None => peer[c].fd \in Fds /\ peer[c].fd \notin fds
  BY <1>1, <1>2, <1>8 DEF Owned
<1>11. Owned'
  <2>1. \A c \in Conns : peer'[c].fd # None <=> sock'[c].state = "open"
    BY <1>1, <1>6, <1>7 DEF Owned
  <2>2. \A c \in Conns : peer'[c].fd # None => open'[peer'[c].fd] = c
    BY <1>1, <1>4, <1>6, <1>10 DEF Owned
  <2>3. \A f \in Fds : open'[f] # None => peer'[open'[f]].fd = f
    BY <1>1, <1>2, <1>4, <1>6, <1>9 DEF Owned
  <2> QED
    BY <2>1, <2>2, <2>3 DEF Owned
<1>12. NothingInherited' /\ Watched'
  <2>1. Watched'
    BY <1>1, <1>4, <1>5 DEF Watched
  <2>2. \A f \in Fds : peers_'[f] # None =>
          open'[f] = peers_'[f] /\ peer'[peers_'[f]].fd = f /\ epoll'[f].interest # {}
    BY <1>1, <1>2, <1>4, <1>5, <1>6, <1>9 DEF NothingInherited
  <2>3. \A f \in Fds : toWrite'[f] # None => open'[f] # None
    BY <1>1, <1>4 DEF NothingInherited
  <2> QED
    BY <2>1, <2>2, <2>3 DEF NothingInherited
<1>13. PastStays
  <2> SUFFICES ASSUME NEW c \in Conns, Past(c) PROVE Past(c)'
    BY DEF PastStays
  <2>1. CASE sock[c].state = "closed"
    BY <2>1, <1>7 DEF Past
  <2>2. CASE Registered(c) /\ c \in C
    BY <2>2, <1>7 DEF Past, Registered
  <2>3. CASE Registered(c) /\ c \notin C
    BY <2>3, <1>4, <1>6, <1>10 DEF Past, Registered
  <2> QED
    BY <2>1, <2>2, <2>3 DEF Past
<1>14. \A c \in Conns : Waiting(c) => Waiting(c)'
  <2> SUFFICES ASSUME NEW c \in Conns, Waiting(c) PROVE Waiting(c)'
    OBVIOUS
  <2>1. c \notin C
    BY NumberTypes DEF Waiting, Registered
  <2> QED
    BY <1>4, <1>6, <1>10, <2>1 DEF Waiting
<1>15. Queued'
  BY <1>1, <1>14, QueuedKept
<1>16. SameRequests /\ SameInputs
  BY <1>6, <1>7 DEF SameRequests, SameInputs
<1>17. RequestsStay /\ Asked'
  BY <1>1, <1>16, RequestsKept, AskedKept
<1>18. \A f \in Fds : toWrite'[f] \in {toWrite[f], None, <<>>}
  BY <1>4
<1> QED
  BY <1>4, <1>5, <1>6, <1>7, <1>11, <1>12, <1>13, <1>15, <1>16, <1>17, <1>18

LEMMA DisconnectionKeeps == ASSUME IInv, Disconnection PROVE IInv'
<1>1. Shapes /\ GoodQueue /\ GoodDeques /\ Numbered /\ Busy
  BY DEF IInv
<1>2. PICK c : c = peers_[io.fd]
  OBVIOUS
<1>3. /\ io.pc = "read" /\ RemovePeers({c}, sock, {}) /\ io' = [io EXCEPT !.pc = "handle"]
      /\ UNCHANGED <<writesQueue, peersQueue, listener, app, promise>>
  BY <1>2 DEF Disconnection
<1>4. c \in Conns /\ Registered(c)
  <2>1. io.fd \in Fds /\ peers_[io.fd] # None
    BY <1>1, <1>3 DEF Busy
  <2> QED
    BY <1>2, <2>1, Held
<1>5. /\ sock' \in [Conns -> Sockets] /\ open' \in [Fds -> Conns \cup {None}]
      /\ epoll' \in [Fds -> Watches] /\ peer' \in [Conns -> Peers]
      /\ peers_' \in [Fds -> Conns \cup {None}]
      /\ toWrite' \in [Fds -> Seq(Entries) \cup {None}]
      /\ Owned' /\ NothingInherited' /\ Watched' /\ Queued' /\ PastStays
      /\ SameRequests /\ RequestsStay /\ Asked'
      /\ \A f \in Fds : toWrite'[f] \in {toWrite[f], None, <<>>}
  <2>1. {c} \in SUBSET Conns /\ sock \in [Conns -> Sockets]
    BY <1>1, <1>4 DEF Shapes
  <2> QED
    BY <1>3, <1>4, <2>1, RemoveKeeps
<1>6. io' \in Loops /\ io'.pc = "handle" /\ io'.batch = io.batch
  BY <1>1, <1>3 DEF Shapes, Loops, Places
<1>7. Shapes'
  BY <1>1, <1>3, <1>5, <1>6 DEF Shapes
<1>8. GoodQueue' /\ GoodDeques'
  BY <1>1, <1>3, <1>5, <1>7, QueueKept, DequesKept
<1>9. Numbered'
  <2>1. /\ \A a \in app' : a \in Answers /\ \E b \in app : a.n = b.n /\ a.conn = b.conn
        /\ promise' = promise
    BY <1>1, <1>3 DEF Shapes
  <2> QED
    BY <1>1, <1>5, <1>7, <2>1, NumberedKept
<1>10. Busy'
  BY <1>1, <1>6 DEF Busy
<1> QED
  BY <1>5, <1>7, <1>8, <1>9, <1>10 DEF IInv

\* The order in which checkIdlePeers answers late peers: each once.
LEMMA LateOnce ==
  ASSUME NEW S \in SUBSET Conns, NEW late, late = SetToSeq(S)
  PROVE  /\ late \in Seq(S) /\ \A i, j \in DOMAIN late : late[i] = late[j] => i = j
         /\ \A c \in S : \E i \in DOMAIN late : late[i] = c
<1>1. IsFiniteSet(S)
  BY NumberTypes, FS_Subset
<1>2. PICK n \in Nat : n = Cardinality(S)
  BY <1>1, FS_CardinalityType
<1>3. \E g \in [1 .. n -> S] : IsInjective(g)
  <2>1. PICK g : g \in Bijection(1 .. n, S)
    BY <1>1, <1>2, FS_CardinalityType DEF ExistsBijection
  <2> QED
    BY <2>1 DEF Bijection, Injection, IsInjective
<1>4. late \in [1 .. n -> S] /\ IsInjective(late)
  BY <1>2, <1>3 DEF SetToSeq
<1>5. late \in Injection(1 .. n, S)
  BY <1>4 DEF Injection, IsInjective
<1>6. Cardinality(1 .. n) = n
  BY FS_Interval
<1>7. late \in Surjection(1 .. n, S)
  BY <1>1, <1>2, <1>5, <1>6, FS_Injection
<1>8. DOMAIN late = 1 .. n
  BY <1>4
<1>9. \A c \in S : \E i \in DOMAIN late : late[i] = c
  BY <1>7, <1>8 DEF Surjection
<1>10. late \in Seq(S)
  BY <1>4
<1> QED
  BY <1>4, <1>9, <1>10 DEF IsInjective

LEMMA CheckIdlePeersKeeps == ASSUME IInv, NEW C \in SUBSET Conns, CheckIdlePeers(C) PROVE IInv'
<1>1. Shapes /\ GoodQueue /\ GoodDeques /\ Numbered /\ Busy
  BY DEF IInv
<1>2. PICK idle : idle = {c \in C : peer[c].idle}
  OBVIOUS
<1>3. PICK late : late = SetToSeq(C \ idle)
  OBVIOUS
<1>4. PICK writes : writes = [i \in DOMAIN late |-> Entry(late[i], 0, "408", peer[late[i]].fd)]
  OBVIOUS
<1>5. PICK ids : ids = {WriteOf(writes[i]) : i \in DOMAIN writes}
  OBVIOUS
<1>6. /\ io.pc = "tick" /\ C \subseteq {peers_[f] : f \in Fds} \ {None}
      /\ RemovePeers(idle, sock, C) /\ writesQueue' = writesQueue \o writes
      /\ promise' = [w \in Writes |-> IF w \in ids THEN "pending" ELSE promise[w]]
      /\ io' = [io EXCEPT !.pc = "handle"]
      /\ UNCHANGED <<peersQueue, listener, app>>
  BY <1>2, <1>3, <1>4, <1>5 DEF CheckIdlePeers
<1>7. \A c \in C : c \in Conns /\ Registered(c) /\ peer[c].fd \in Fds
  <2> SUFFICES ASSUME NEW c \in C PROVE c \in Conns /\ Registered(c) /\ peer[c].fd \in Fds
    OBVIOUS
  <2>1. PICK f \in Fds : c = peers_[f] /\ peers_[f] # None
    BY <1>6
  <2> QED
    BY <2>1, Held
<1>8. /\ sock' \in [Conns -> Sockets] /\ open' \in [Fds -> Conns \cup {None}]
      /\ epoll' \in [Fds -> Watches] /\ peer' \in [Conns -> Peers]
      /\ peers_' \in [Fds -> Conns \cup {None}]
      /\ toWrite' \in [Fds -> Seq(Entries) \cup {None}]
      /\ Owned' /\ NothingInherited' /\ Watched' /\ Queued' /\ PastStays
      /\ SameRequests /\ RequestsStay /\ Asked'
      /\ \A f \in Fds : toWrite'[f] \in {toWrite[f], None, <<>>}
  <2>1. idle \in SUBSET Conns /\ sock \in [Conns -> Sockets] /\ \A c \in idle : Registered(c)
    BY <1>1, <1>2, <1>7 DEF Shapes
  <2> QED
    BY <1>6, <2>1, RemoveKeeps
<1>9. late \in Seq(C \ idle)
  BY <1>3, LateOnce
<1>10. \A i \in DOMAIN late : late[i] \in C
  BY <1>9
<1>11. \A i \in DOMAIN late : /\ writes[i] \in Entries /\ Left(writes[i]) \in 1 .. Size
                              /\ writes[i].n = 0 /\ writes[i].conn = late[i]
  <2> SUFFICES ASSUME NEW i \in DOMAIN late
               PROVE  /\ writes[i] \in Entries /\ Left(writes[i]) \in 1 .. Size
                      /\ writes[i].n = 0 /\ writes[i].conn = late[i]
    OBVIOUS
  <2>1. PICK c \in Conns : c = late[i] /\ peer[c].fd \in Fds
    BY <1>7, <1>10
  <2>2. writes[i] = Entry(c, 0, "408", peer[c].fd)
    BY <1>4, <2>1
  <2>3. 0 \in 0 .. NRequests /\ "408" \in Parts
    BY NumberTypes DEF Parts
  <2> QED
    BY <2>1, <2>2, <2>3, EntryTypes
<1>12. writes \in Seq(Entries) /\ DOMAIN writes = DOMAIN late
  <2>1. DOMAIN writes = DOMAIN late
    BY <1>4
  <2>2. Len(late) \in Nat /\ DOMAIN late = 1 .. Len(late)
    BY <1>9
  <2>3. writes \in [1 .. Len(late) -> Entries]
    BY <1>4, <1>11, <2>2
  <2> QED
    BY <2>1, <2>2, <2>3
<1>13. writesQueue' \in Seq(Entries) /\ writesQueue \in Seq(Entries)
  BY <1>1, <1>6, <1>12, ConcatProperties DEF Shapes
<1>14. promise' \in [Writes -> Fates]
  BY <1>1, <1>6 DEF Shapes, Fates
<1>15. io' \in Loops /\ io'.pc = "handle" /\ io'.batch = io.batch
  BY <1>1, <1>6 DEF Shapes, Loops, Places
<1>16. Shapes'
  BY <1>1, <1>6, <1>8, <1>13, <1>14, <1>15 DEF Shapes
<1>17. \A e \in Entries : (\E i \in DOMAIN writes : e = writes[i]) => Good(e)'
  <2> SUFFICES ASSUME NEW e \in Entries, NEW i \in DOMAIN writes, e = writes[i] PROVE Good(e)'
    OBVIOUS
  <2>1. Left(e) \in 1 .. Size /\ e.n = 0 /\ e.conn \in C
    BY <1>10, <1>11, <1>12
  <2>2. Past(e.conn)'
    <3>1. e.conn \in Conns /\ Past(e.conn)
      BY <1>7, <2>1 DEF Past
    <3> QED
      BY <1>8, <3>1 DEF PastStays
  <2>3. 0 <= peer'[e.conn].requests
    <3>1. \A c \in Conns : peer'[c].requests \in Nat
      BY <1>8, NumberTypes DEF Peers
    <3>2. e.conn \in Conns
      BY <2>1
    <3> QED
      BY <3>1, <3>2
  <2> QED
    BY <2>1, <2>2, <2>3 DEF Good
<1>18. GoodQueue'
  <2> SUFFICES ASSUME NEW i \in DOMAIN writesQueue' PROVE Good(writesQueue[i])'
    BY DEF GoodQueue
  <2>1. \/ i \in DOMAIN writesQueue /\ writesQueue'[i] = writesQueue[i]
        \/ \E j \in DOMAIN writes : writesQueue'[i] = writes[j]
    <3>1. /\ Len(writesQueue) \in Nat /\ Len(writes) \in Nat
          /\ DOMAIN writesQueue = 1 .. Len(writesQueue) /\ DOMAIN writes = 1 .. Len(writes)
      BY <1>12, <1>13
    <3>2. /\ Len(writesQueue') = Len(writesQueue) + Len(writes)
          /\ \A k \in 1 .. Len(writesQueue) + Len(writes) : writesQueue'[k] =
               IF k <= Len(writesQueue) THEN writesQueue[k] ELSE writes[k - Len(writesQueue)]
      BY <1>6, <1>12, <1>13, ConcatProperties
    <3>3. i \in 1 .. Len(writesQueue) + Len(writes)
      BY <1>13, <3>2
    <3>4. CASE i <= Len(writesQueue)
      BY <3>1, <3>2, <3>3, <3>4
    <3>5. CASE ~(i <= Len(writesQueue))
      <4>1. i - Len(writesQueue) \in DOMAIN writes
        BY <3>1, <3>3, <3>5
      <4> QED
        BY <3>2, <3>3, <3>5, <4>1
    <3> QED
      BY <3>4, <3>5
  <2>2. PICK e \in Entries : e = writesQueue'[i] /\ Good(e)'
    <3>1. CASE i \in DOMAIN writesQueue /\ writesQueue'[i] = writesQueue[i]
      <4>1. PICK e \in Entries : e = writesQueue[i] /\ Good(e)
        BY <1>1, <1>13, <3>1 DEF GoodQueue
      <4> QED
        BY <1>1, <1>8, <1>16, <3>1, <4>1, GoodStays
    <3>2. CASE \E j \in DOMAIN writes : writesQueue'[i] = writes[j]
      BY <1>11, <1>12, <1>17, <3>2
    <3> QED
      BY <2>1, <3>1, <3>2
  <2> QED
    BY <2>2 DEF Good, Past, Registered
<1>19. GoodDeques'
  BY <1>1, <1>8, <1>16, DequesKept
<1>20. Numbered'
  <2>1. \A a \in app' : a \in Answers /\ \E b \in app : a.n = b.n /\ a.conn = b.conn
    BY <1>1, <1>6 DEF Shapes
  <2>2. ASSUME NEW w \in Writes, promise'[w] # "none"
        PROVE  promise[w] # "none" \/ w[2] <= peer'[w[1]].requests
    <3>1. CASE w \in ids
      <4>1. PICK i \in DOMAIN writes : w = WriteOf(writes[i])
        BY <1>5, <3>1
      <4>2. w[2] = 0 /\ w[1] \in Conns
        BY <1>7, <1>10, <1>11, <1>12, <4>1 DEF WriteOf
      <4>3. \A c \in Conns : peer'[c].requests \in Nat
        BY <1>8, NumberTypes DEF Peers
      <4> QED
        BY <4>2, <4>3
    <3>2. CASE w \notin ids
      BY <1>6, <2>2, <3>2
    <3> QED
      BY <3>1, <3>2
  <2> QED
    BY <1>1, <1>8, <1>16, <2>1, <2>2, NumberedKept
<1>21. Busy'
  BY <1>1, <1>15 DEF Busy
<1> QED
  BY <1>8, <1>16, <1>18, <1>19, <1>20, <1>21 DEF IInv

-----------------------------------------------------------------------------
\* The entry at hand belongs to the connection that has the descriptor, and
\* fits what is left of its buffer.
LEMMA AtHand ==
  ASSUME IInv, WriteStep, NEW f, f = io.fd, NEW e, e = Head(toWrite[f])
  PROVE  /\ f \in Fds /\ peers_[f] # None /\ epoll[f].interest # {}
         /\ open[f] \in Conns /\ sock[open[f]] \in Sockets
         /\ toWrite[f] \in Seq(Entries) /\ toWrite[f] # <<>> /\ toWrite[f] # None
         /\ Tail(toWrite[f]) \in Seq(Entries)
         /\ \A i \in DOMAIN Tail(toWrite[f]) : Good(Tail(toWrite[f])[i]) /\ Tail(toWrite[f])[i].fd = f
         /\ e \in Entries /\ Good(e) /\ e.fd = f
         /\ Left(e) \in 1 .. Size /\ Taken(e) \in 0 .. Left(e)
         /\ sock[open[f]].used + Taken(e) \in 0 .. Room
<1>1. Shapes /\ GoodDeques /\ Busy
  BY DEF IInv
<1>2. f \in Fds /\ peers_[f] # None /\ toWrite[f] # None /\ toWrite[f] # <<>>
  BY <1>1 DEF Busy, WriteStep
<1>3. open[f] \in Conns /\ sock[open[f]] \in Sockets /\ epoll[f].interest # {}
  BY <1>2, Held
<1>4. toWrite[f] \in Seq(Entries)
  BY <1>1, <1>2 DEF Shapes
<1>5. /\ e \in Entries /\ Tail(toWrite[f]) \in Seq(Entries)
      /\ 1 \in DOMAIN toWrite[f] /\ toWrite[f][1] = e
      /\ \A i \in DOMAIN Tail(toWrite[f]) : i + 1 \in DOMAIN toWrite[f]
                                            /\ Tail(toWrite[f])[i] = toWrite[f][i + 1]
  BY <1>2, <1>4
<1>6. Good(e) /\ e.fd = f
  BY <1>1, <1>2, <1>5 DEF GoodDeques
<1>7. \A i \in DOMAIN Tail(toWrite[f]) : Good(Tail(toWrite[f])[i]) /\ Tail(toWrite[f])[i].fd = f
  BY <1>1, <1>2, <1>5 DEF GoodDeques
<1>8. Left(e) \in 1 .. Size
  BY <1>6 DEF Good
<1>9. Taken(e) \in 0 .. Left(e) /\ sock[open[f]].used + Taken(e) \in 0 .. Room
  <2>1. PICK u : u = sock[open[f]].used
    OBVIOUS
  <2>2. u \in 0 .. Room /\ Taken(e) = IF Room - u < Left(e) THEN Room - u ELSE Left(e)
    BY <1>3, <1>6, <2>1 DEF Taken, Sockets
  <2>3. Left(e) \in Nat /\ Left(e) >= 1 /\ Room \in Nat /\ u \in Nat /\ u <= Room
    BY <1>8, <2>2, NumberTypes
  <2> QED
    BY <2>1, <2>2, <2>3
<1> QED
  BY <1>2, <1>3, <1>4, <1>5, <1>6, <1>7, <1>8, <1>9

LEMMA SentTypes ==
  ASSUME Shapes, NEW c \in Conns, NEW e \in Entries, NEW k \in Nat,
         sock[c].used + k \in 0 .. Room
  PROVE  /\ Sent(c, e, k) \in [Conns -> Sockets]
         /\ \A d \in Conns : /\ Sent(c, e, k)[d].state = sock[d].state
                             /\ Sent(c, e, k)[d].inbox = sock[d].inbox
                             /\ Sent(c, e, k)[d].asked = sock[d].asked
<1>1. sock \in [Conns -> Sockets] /\ sock[c] \in Sockets
  BY DEF Shapes
<1>2. PICK b : b = [i \in 1 .. k |-> <<WriteOf(e), e.base + e.offset + i>>]
  OBVIOUS
<1>3. b \in Seq(Writes \X Int)
  <2>1. WriteOf(e) \in Writes
    BY DEF WriteOf, Writes, Entries
  <2>2. \A i \in 1 .. k : e.base + e.offset + i \in Int
    BY DEF Entries
  <2>3. b \in [1 .. k -> Writes \X Int]
    BY <1>2, <2>1, <2>2
  <2> QED
    BY <2>3
<1>4. sock[c].sent \o b \in Seq(Writes \X Int)
  BY <1>1, <1>3, ConcatProperties DEF Sockets
<1>5. PICK n : n = [sock[c] EXCEPT !.used = @ + k, !.sent = @ \o b]
  OBVIOUS
<1>6. n \in Sockets /\ n.state = sock[c].state /\ n.inbox = sock[c].inbox /\ n.asked = sock[c].asked
  BY <1>1, <1>4, <1>5 DEF Sockets
<1>7. Sent(c, e, k) = [sock EXCEPT ![c] = n]
  BY <1>1, <1>2, <1>5 DEF Sent
<1> QED
  BY <1>1, <1>6, <1>7

\* cleanUp() with the socket as the send left it.
LEMMA CleanUpKeeps ==
  ASSUME IInv, WriteStep, NEW f, f = io.fd, NEW s \in Sockets, CleanUp(f, s), peers_' = peers_
  PROVE  /\ toWrite' \in [Fds -> Seq(Entries) \cup {None}] /\ epoll' \in [Fds -> Watches]
         /\ io' \in Loops /\ SameWatch /\ Busy'
         /\ \A g \in Fds : toWrite'[g] # None =>
              /\ toWrite[g] # None
              /\ \A i \in DOMAIN toWrite'[g] : Good(toWrite'[g][i]) /\ toWrite'[g][i].fd = g
<1>1. Shapes /\ GoodDeques /\ Busy
  BY DEF IInv
<1>2. PICK e : e = Head(toWrite[f])
  OBVIOUS
<1>3. PICK rest : rest = Tail(toWrite[f])
  OBVIOUS
<1>4. /\ f \in Fds /\ peers_[f] # None /\ epoll[f].interest # {} /\ toWrite[f] # None
      /\ rest \in Seq(Entries) /\ \A i \in DOMAIN rest : Good(rest[i]) /\ rest[i].fd = f
  BY <1>2, <1>3, AtHand
<1>5. /\ toWrite' = [toWrite EXCEPT ![f] = IF rest = <<>> THEN None ELSE rest]
      /\ epoll' = IF rest = <<>> THEN Watch(f, {"R"}, s) ELSE epoll
      /\ io' = IF rest = <<>> THEN [io EXCEPT !.pc = "handle"] ELSE io
  BY <1>3 DEF CleanUp
<1>6. rest # None
  BY <1>4, NoneAssumption
<1>7. /\ toWrite' \in [Fds -> Seq(Entries) \cup {None}]
      /\ toWrite'[f] = IF rest = <<>> THEN None ELSE rest
      /\ \A g \in Fds : g # f => toWrite'[g] = toWrite[g]
  BY <1>1, <1>4, <1>5 DEF Shapes
<1>8. epoll' \in [Fds -> Watches] /\ SameWatch
  <2>1. CASE rest = <<>>
    <3>1. /\ epoll' \in [Fds -> Watches] /\ epoll'[f].interest = {"R"}
          /\ \A g \in Fds : g # f => epoll'[g] = epoll[g]
      BY <1>1, <1>4, <1>5, <2>1, WatchTypes
    <3> QED
      BY <1>4, <3>1 DEF SameWatch
  <2>2. CASE rest # <<>>
    BY <1>1, <1>5, <2>2 DEF Shapes, SameWatch
  <2> QED
    BY <2>1, <2>2
<1>9. io' \in Loops /\ Busy'
  <2>1. CASE rest = <<>>
    <3>1. io' \in Loops /\ io'.pc = "handle" /\ io'.batch = io.batch
      BY <1>1, <1>5, <2>1 DEF Shapes, Loops, Places
    <3> QED
      BY <1>1, <3>1 DEF Busy
  <2>2. CASE rest # <<>>
    <3>1. io' = io /\ toWrite'[f] = rest
      BY <1>5, <1>7, <2>2
    <3> QED
      BY <1>1, <1>4, <1>6, <2>2, <3>1 DEF Busy, WriteStep, Shapes
  <2> QED
    BY <2>1, <2>2
<1>10. \A g \in Fds : toWrite'[g] # None =>
         /\ toWrite[g] # None
         /\ \A i \in DOMAIN toWrite'[g] : Good(toWrite'[g][i]) /\ toWrite'[g][i].fd = g
  BY <1>1, <1>4, <1>7 DEF GoodDeques
<1> QED
  BY <1>7, <1>8, <1>9, <1>10

\* What a write does to the rest: nothing, as long as no peer is removed.
LEMMA WriteRest ==
  ASSUME IInv, Shapes', SameEnds, SameWatch, SameRequests, SameInputs,
         \A g \in Fds : toWrite'[g] # None =>
           /\ toWrite[g] # None
           /\ \A i \in DOMAIN toWrite'[g] : Good(toWrite'[g][i]) /\ toWrite'[g][i].fd = g,
         listener' = listener, peersQueue' = peersQueue
  PROVE  /\ Owned' /\ NothingInherited' /\ Watched' /\ Queued' /\ GoodDeques' /\ Asked'
         /\ PastStays /\ RequestsStay
<1>1. Shapes /\ Owned /\ NothingInherited /\ Watched /\ Queued /\ Asked
  BY DEF IInv
<1>2. Owned' /\ PastStays /\ (\A c \in Conns : Waiting(c) => Waiting(c)') /\ RequestsStay
  BY <1>1, EndsKept, RequestsKept
<1>3. NothingInherited' /\ Watched' /\ Queued' /\ Asked'
  BY <1>1, <1>2, WatchKept, QueuedKept, AskedKept
<1>4. GoodDeques'
  <2> SUFFICES ASSUME NEW f \in Fds, toWrite'[f] # None, NEW i \in DOMAIN toWrite'[f]
               PROVE  (Good(toWrite[f][i]) /\ toWrite[f][i].fd = f)'
    BY DEF GoodDeques
  <2>1. toWrite'[f] \in Seq(Entries)
    BY DEF Shapes
  <2>2. PICK e \in Entries : e = toWrite'[f][i] /\ Good(e) /\ e.fd = f
    BY <2>1
  <2>3. Good(e)'
    BY <1>1, <1>2, <2>2, GoodStays
  <2> QED
    BY <2>2, <2>3 DEF Good, Past, Registered
<1> QED
  BY <1>2, <1>3, <1>4

\* The promise of an entry is settled: it was for a request that was read.
LEMMA SettledNumbered ==
  ASSUME Shapes, Shapes', Numbered, RequestsStay, NEW e \in Entries, Good(e), app' = app,
         \A w \in Writes : promise'[w] # "none" =>
           promise[w] # "none" \/ (w[1] = e.conn /\ w[2] = e.n)
  PROVE  Numbered'
<1>1. e.n <= peer'[e.conn].requests
  <2>1. e.conn \in Conns /\ e.n \in Nat
    BY NumberTypes DEF Entries
  <2>2. \A c \in Conns : peer[c].requests \in Nat /\ peer'[c].requests \in Nat
                         /\ peer[c].requests <= peer'[c].requests
    BY NumberTypes DEF Shapes, Peers, RequestsStay
  <2> QED
    BY <2>1, <2>2 DEF Good
<1>2. \A w \in Writes : promise'[w] # "none" => promise[w] # "none" \/ w[2] <= peer'[w[1]].requests
  BY <1>1
<1>3. \A a \in app' : a \in Answers /\ \E b \in app : a.n = b.n /\ a.conn = b.conn
  BY DEF Shapes
<1> QED
  BY <1>2, <1>3, NumberedKept

LEMMA WriteBrokenKeeps == ASSUME IInv, WriteBroken PROVE IInv'
<1>1. Shapes /\ GoodQueue /\ GoodDeques /\ Numbered /\ Busy
  BY DEF IInv
<1>2. PICK f : f = io.fd
  OBVIOUS
<1>3. /\ WriteStep /\ toWrite' = [toWrite EXCEPT ![f] = None] /\ io' = [io EXCEPT !.pc = "handle"]
      /\ UNCHANGED <<sock, open, epoll, peer, peers_, writesQueue, peersQueue, listener, app, promise>>
  BY <1>2 DEF WriteBroken
<1>4. f \in Fds
  BY <1>1, <1>2, <1>3 DEF Busy, WriteStep
<1>5. /\ toWrite' \in [Fds -> Seq(Entries) \cup {None}]
      /\ \A g \in Fds : toWrite'[g] # None => toWrite'[g] = toWrite[g]
  BY <1>1, <1>3, <1>4 DEF Shapes
<1>6. io' \in Loops /\ io'.pc = "handle" /\ io'.batch = io.batch
  BY <1>1, <1>3 DEF Shapes, Loops, Places
<1>7. Shapes'
  BY <1>1, <1>3, <1>5, <1>6 DEF Shapes
<1>8. SameEnds /\ SameWatch /\ SameRequests /\ SameInputs
  BY <1>3 DEF SameEnds, SameWatch, SameRequests, SameInputs
<1>9. \A g \in Fds : toWrite'[g] # None =>
        /\ toWrite[g] # None
        /\ \A i \in DOMAIN toWrite'[g] : Good(toWrite'[g][i]) /\ toWrite'[g][i].fd = g
  BY <1>1, <1>5 DEF GoodDeques
<1>10. /\ Owned' /\ NothingInherited' /\ Watched' /\ Queued' /\ GoodDeques' /\ Asked'
       /\ PastStays /\ RequestsStay
  BY <1>3, <1>7, <1>8, <1>9, WriteRest
<1>11. GoodQueue'
  BY <1>1, <1>3, <1>7, <1>10, QueueKept
<1>12. Numbered' /\ Busy'
  BY <1>1, <1>3, <1>6 DEF Numbered, Busy
<1> QED
  BY <1>7, <1>10, <1>11, <1>12 DEF IInv

\* The rest of an entry keeps what it was written for.
LEMMA WriteAgainKeeps == ASSUME IInv, WriteAgain PROVE IInv'
<1>1. Shapes /\ GoodQueue /\ GoodDeques /\ Numbered /\ Busy
  BY DEF IInv
<1>2. PICK f : f = io.fd
  OBVIOUS
<1>3. PICK e : e = Head(toWrite[f])
  OBVIOUS
<1>4. PICK k : k = Taken(e)
  OBVIOUS
<1>5. PICK rest : rest = IF e.part = "body" THEN [e EXCEPT !.offset = e.offset + k]
                         ELSE [e EXCEPT !.base = @ + (e.offset + k), !.size = @ - (e.offset + k), !.offset = 0]
  OBVIOUS
<1>6. /\ WriteStep /\ k < Left(e) /\ sock' = Sent(open[f], e, k)
      /\ toWrite' = [toWrite EXCEPT ![f] = <<rest>> \o Tail(@)]
      /\ epoll' = Watch(f, {"R", "W"}, sock'[open[f]])
      /\ io' = [io EXCEPT !.pc = "handle"]
      /\ UNCHANGED <<open, peer, peers_, writesQueue, peersQueue, listener, app, promise>>
  BY <1>2, <1>3, <1>4, <1>5 DEF WriteAgain
<1>7. /\ f \in Fds /\ peers_[f] # None /\ epoll[f].interest # {}
      /\ open[f] \in Conns /\ toWrite[f] # None
      /\ Tail(toWrite[f]) \in Seq(Entries)
      /\ \A i \in DOMAIN Tail(toWrite[f]) : Good(Tail(toWrite[f])[i]) /\ Tail(toWrite[f])[i].fd = f
      /\ e \in Entries /\ Good(e) /\ e.fd = f
      /\ Left(e) \in 1 .. Size /\ k \in 0 .. Left(e)
      /\ sock[open[f]].used + k \in 0 .. Room
  BY <1>2, <1>3, <1>4, <1>6, AtHand
<1>8. k \in Nat /\ e.size \in Nat /\ e.offset \in Nat /\ e.base \in Nat
      /\ e.size - e.offset \in 1 .. Size /\ k < e.size - e.offset /\ Size \in Nat
  BY <1>6, <1>7, NumberTypes DEF Left, Entries
<1>9. /\ rest \in Entries /\ rest.conn = e.conn /\ rest.n = e.n /\ rest.part = e.part
      /\ rest.fd = f /\ Left(rest) \in 1 .. Size
  <2>1. CASE e.part = "body"
    <3>1. e.offset + k \in Nat /\ e.size - (e.offset + k) \in 1 .. Size
      BY <1>8
    <3>2. rest = [e EXCEPT !.offset = e.offset + k]
      BY <1>5, <2>1
    <3> QED
      BY <1>7, <3>1, <3>2 DEF Entries, Left
  <2>2. CASE e.part # "body"
    <3>1. e.base + (e.offset + k) \in Nat /\ e.size - (e.offset + k) \in Nat
          /\ (e.size - (e.offset + k)) - 0 \in 1 .. Size
      BY <1>8
    <3>2. rest = [e EXCEPT !.base = @ + (e.offset + k), !.size = @ - (e.offset + k), !.offset = 0]
      BY <1>5, <2>2
    <3> QED
      BY <1>7, <3>1, <3>2 DEF Entries, Left
  <2> QED
    BY <2>1, <2>2
<1>10. Good(rest)
  BY <1>7, <1>9 DEF Good
<1>11. PICK q : q = <<rest>> \o Tail(toWrite[f])
  OBVIOUS
<1>12. q \in Seq(Entries) /\ \A i \in DOMAIN q : Good(q[i]) /\ q[i].fd = f
  <2>1. <<rest>> \in Seq(Entries) /\ Len(<<rest>>) = 1 /\ <<rest>>[1] = rest
    BY <1>9
  <2>2. /\ q \in Seq(Entries) /\ Len(q) = 1 + Len(Tail(toWrite[f]))
        /\ \A i \in 1 .. 1 + Len(Tail(toWrite[f])) : q[i] =
             IF i <= 1 THEN <<rest>>[i] ELSE Tail(toWrite[f])[i - 1]
    BY <1>7, <1>11, <2>1, ConcatProperties
  <2> SUFFICES ASSUME NEW i \in DOMAIN q PROVE Good(q[i]) /\ q[i].fd = f
    BY <2>2
  <2>3. i \in 1 .. 1 + Len(Tail(toWrite[f])) /\ Len(Tail(toWrite[f])) \in Nat
    BY <1>7, <2>2
  <2>4. CASE i = 1
    BY <1>9, <1>10, <2>1, <2>2, <2>3, <2>4
  <2>5. CASE i # 1
    <3>1. i - 1 \in DOMAIN Tail(toWrite[f]) /\ q[i] = Tail(toWrite[f])[i - 1]
      BY <1>7, <2>2, <2>3, <2>5
    <3> QED
      BY <1>7, <3>1
  <2> QED
    BY <2>4, <2>5
<1>13. /\ toWrite' \in [Fds -> Seq(Entries) \cup {None}] /\ toWrite'[f] = q
       /\ \A g \in Fds : g # f => toWrite'[g] = toWrite[g]
  BY <1>1, <1>6, <1>7, <1>11, <1>12 DEF Shapes
<1>14. /\ sock' \in [Conns -> Sockets]
       /\ \A d \in Conns : /\ sock'[d].state = sock[d].state /\ sock'[d].inbox = sock[d].inbox
                           /\ sock'[d].asked = sock[d].asked
  BY <1>1, <1>6, <1>7, <1>8, SentTypes
<1>15. /\ epoll' \in [Fds -> Watches] /\ epoll'[f].interest = {"R", "W"}
       /\ \A g \in Fds : g # f => epoll'[g] = epoll[g]
  <2>1. sock'[open[f]] \in Sockets
    BY <1>7, <1>14
  <2> QED
    BY <1>1, <1>6, <1>7, <2>1, WatchTypes
<1>16. io' \in Loops /\ io'.pc = "handle" /\ io'.batch = io.batch
  BY <1>1, <1>6 DEF Shapes, Loops, Places
<1>17. Shapes'
  BY <1>1, <1>6, <1>13, <1>14, <1>15, <1>16 DEF Shapes
<1>18. SameEnds /\ SameWatch /\ SameRequests /\ SameInputs
  BY <1>6, <1>7, <1>14, <1>15 DEF SameEnds, SameWatch, SameRequests, SameInputs
<1>19. \A g \in Fds : toWrite'[g] # None =>
         /\ toWrite[g] # None
         /\ \A i \in DOMAIN toWrite'[g] : Good(toWrite'[g][i]) /\ toWrite'[g][i].fd = g
  BY <1>1, <1>7, <1>12, <1>13 DEF GoodDeques
<1>20. /\ Owned' /\ NothingInherited' /\ Watched' /\ Queued' /\ GoodDeques' /\ Asked'
       /\ PastStays /\ RequestsStay
  BY <1>6, <1>17, <1>18, <1>19, WriteRest
<1>21. GoodQueue'
  BY <1>1, <1>6, <1>17, <1>20, QueueKept
<1>22. Numbered' /\ Busy'
  BY <1>1, <1>6, <1>16 DEF Numbered, Busy
<1> QED
  BY <1>17, <1>20, <1>21, <1>22 DEF IInv

\* The peer that was answered 408 is removed with its descriptor.
LEMMA ClosePeerKeeps ==
  ASSUME IInv, WriteStep, NEW f, f = io.fd, NEW e, e = Head(toWrite[f]), e.part = "408",
         NEW s \in [Conns -> Sockets], RemovePeers({e.conn}, s, {}),
         \A d \in Conns : s[d].state = sock[d].state /\ s[d].inbox = sock[d].inbox
                          /\ s[d].asked = sock[d].asked,
         io' = [io EXCEPT !.pc = "handle"], NEW fate \in Fates,
         promise' = [promise EXCEPT ![WriteOf(e)] = fate],
         UNCHANGED <<writesQueue, peersQueue, listener, app>>
  PROVE  IInv'
<1>1. Shapes /\ Owned /\ GoodQueue /\ GoodDeques /\ Numbered /\ Busy
  BY DEF IInv
<1>2. e \in Entries /\ Good(e)
  BY AtHand
<1>3. PICK c : c = e.conn
  OBVIOUS
<1>4. c \in Conns /\ (peer[c].fd # None => Registered(c))
  BY <1>1, <1>2, <1>3 DEF Good, Past, Entries, Owned
<1>5. /\ sock' \in [Conns -> Sockets] /\ open' \in [Fds -> Conns \cup {None}]
      /\ epoll' \in [Fds -> Watches] /\ peer' \in [Conns -> Peers]
      /\ peers_' \in [Fds -> Conns \cup {None}]
      /\ toWrite' \in [Fds -> Seq(Entries) \cup {None}]
      /\ Owned' /\ NothingInherited' /\ Watched' /\ Queued' /\ PastStays
      /\ SameRequests /\ RequestsStay /\ Asked'
      /\ \A g \in Fds : toWrite'[g] \in {toWrite[g], None, <<>>}
  <2>1. {c} \in SUBSET Conns /\ RemovePeers({c}, s, {})
    BY <1>3, <1>4
  <2> QED
    BY <1>4, <2>1, RemoveKeeps
<1>6. io' \in Loops /\ io'.pc = "handle" /\ io'.batch = io.batch
  BY <1>1 DEF Shapes, Loops, Places
<1>7. promise' \in [Writes -> Fates]
  BY <1>1 DEF Shapes
<1>8. Shapes'
  BY <1>1, <1>5, <1>6, <1>7 DEF Shapes
<1>9. GoodQueue' /\ GoodDeques'
  BY <1>1, <1>5, <1>8, QueueKept, DequesKept
<1>10. Numbered'
  <2>1. \A w \in Writes : promise'[w] # "none" => promise[w] # "none" \/ (w[1] = e.conn /\ w[2] = e.n)
    BY <1>1 DEF Shapes, WriteOf
  <2> QED
    BY <1>1, <1>2, <1>5, <1>8, <2>1, SettledNumbered
<1>11. Busy'
  BY <1>1, <1>6 DEF Busy
<1> QED
  BY <1>5, <1>8, <1>9, <1>10, <1>11 DEF IInv

LEMMA SettleTypes ==
  ASSUME Shapes, NEW e, NEW fate \in Fates, promise' = [promise EXCEPT ![WriteOf(e)] = fate]
  PROVE  /\ promise' \in [Writes -> Fates]
         /\ \A w \in Writes : promise'[w] # "none" =>
              promise[w] # "none" \/ (w[1] = e.conn /\ w[2] = e.n)
<1>1. promise \in [Writes -> Fates]
  BY DEF Shapes
<1>2. promise' \in [Writes -> Fates] /\ \A w \in Writes : w # WriteOf(e) => promise'[w] = promise[w]
  BY <1>1
<1>3. WriteOf(e)[1] = e.conn /\ WriteOf(e)[2] = e.n
  BY DEF WriteOf
<1> QED
  BY <1>2, <1>3

\* An entry leaves its deque, its promise settled, and perhaps another follows.
LEMMA EntryGone ==
  ASSUME IInv, WriteStep, NEW f, f = io.fd, NEW e, e = Head(toWrite[f]),
         sock' \in [Conns -> Sockets],
         \A d \in Conns : sock'[d].state = sock[d].state /\ sock'[d].inbox = sock[d].inbox
                          /\ sock'[d].asked = sock[d].asked,
         NEW s \in Sockets, CleanUp(f, s),
         promise' \in [Writes -> Fates],
         \A w \in Writes : promise'[w] # "none" =>
           promise[w] # "none" \/ (w[1] = e.conn /\ w[2] = e.n),
         NEW part \in Parts, part # "408",
         writesQueue' = writesQueue \/ writesQueue' = Append(writesQueue, Entry(e.conn, e.n, part, e.fd)),
         UNCHANGED <<open, peer, peers_, peersQueue, listener, app>>
  PROVE  IInv'
<1>1. Shapes /\ GoodQueue /\ GoodDeques /\ Numbered /\ Busy
  BY DEF IInv
<1>2. e \in Entries /\ Good(e)
  BY AtHand
<1>3. /\ toWrite' \in [Fds -> Seq(Entries) \cup {None}] /\ epoll' \in [Fds -> Watches]
      /\ io' \in Loops /\ SameWatch /\ Busy'
      /\ \A g \in Fds : toWrite'[g] # None =>
           /\ toWrite[g] # None
           /\ \A i \in DOMAIN toWrite'[g] : Good(toWrite'[g][i]) /\ toWrite'[g][i].fd = g
  BY CleanUpKeeps
<1>4. PICK d \in Entries : /\ d = Entry(e.conn, e.n, part, e.fd) /\ Left(d) \in 1 .. Size
                           /\ d.conn = e.conn /\ d.n = e.n /\ d.part = part
  BY <1>2, EntryTypes DEF Entries
<1>5. writesQueue' \in Seq(Entries)
  <2>1. writesQueue \in Seq(Entries) /\ Append(writesQueue, d) \in Seq(Entries)
    BY <1>1 DEF Shapes
  <2> QED
    BY <1>4, <2>1
<1>6. Shapes'
  BY <1>1, <1>3, <1>5 DEF Shapes
<1>7. SameEnds /\ SameRequests /\ SameInputs
  BY DEF SameEnds, SameRequests, SameInputs
<1>8. /\ Owned' /\ NothingInherited' /\ Watched' /\ Queued' /\ GoodDeques' /\ Asked'
      /\ PastStays /\ RequestsStay
  BY <1>3, <1>6, <1>7, WriteRest
<1>9. Good(d)'
  <2>1. Good(d)
    BY <1>2, <1>4 DEF Good
  <2> QED
    BY <1>1, <1>6, <1>8, <2>1, GoodStays
<1>10. GoodQueue'
  <2>1. CASE writesQueue' = writesQueue
    BY <2>1, <1>1, <1>6, <1>8, QueueKept
  <2>2. CASE writesQueue' = Append(writesQueue, d)
    BY <2>2, <1>1, <1>6, <1>8, <1>9, PushGood
  <2> QED
    BY <1>4, <2>1, <2>2
<1>11. Numbered'
  BY <1>1, <1>2, <1>6, <1>8, SettledNumbered
<1> QED
  BY <1>3, <1>6, <1>8, <1>10, <1>11 DEF IInv

\* What serveFile does when the head e is out: the body is written.
Follows(e) ==
  /\ e.part = "head"
  /\ writesQueue' = Append(writesQueue, Entry(e.conn, e.n, "body", e.fd))
  /\ promise' = [promise EXCEPT ![WriteOf(e)] = "fulfilled", ![<<e.conn, e.n, "body">>] = "pending"]
  /\ log' = [log EXCEPT ![e.conn] = Append(@, <<e.conn, e.n, "body">>)]

LEMMA WriteDoneKeeps == ASSUME IInv, WriteDone PROVE IInv'
<1>1. Shapes
  BY DEF IInv
<1>2. PICK f : f = io.fd
  OBVIOUS
<1>3. PICK e : e = Head(toWrite[f])
  OBVIOUS
<1>4. PICK c : c = open[f]
  OBVIOUS
<1>5. PICK s : s = Sent(c, e, Left(e))
  BY Zenon
<1>6. /\ WriteStep /\ Taken(e) = Left(e) /\ UNCHANGED <<peersQueue, listener, app>>
      /\ \/ /\ e.part \in {"raw", "body"} /\ sock' = s /\ CleanUp(f, s[c])
            /\ promise' = [promise EXCEPT ![WriteOf(e)] = "fulfilled"]
            /\ UNCHANGED <<open, peer, peers_, writesQueue>>
         \/ /\ Follows(e) /\ sock' = s /\ CleanUp(f, s[c])
            /\ UNCHANGED <<open, peer, peers_>>
         \/ /\ e.part = "408" /\ RemovePeers({e.conn}, s, {})
            /\ promise' = [promise EXCEPT ![WriteOf(e)] = "fulfilled"]
            /\ io' = [io EXCEPT !.pc = "handle"] /\ UNCHANGED writesQueue
         \/ /\ e.part = "408" /\ sock' = s /\ CleanUp(f, s[c])
            /\ promise' = [promise EXCEPT ![WriteOf(e)] = "fulfilled"]
            /\ UNCHANGED <<open, peer, peers_, writesQueue>>
  BY <1>2, <1>3, <1>4, <1>5 DEF WriteDone, Follows
<1>7. /\ c \in Conns /\ e \in Entries /\ Left(e) \in Nat
      /\ sock[c].used + Left(e) \in 0 .. Room
  BY <1>2, <1>3, <1>4, <1>6, NumberTypes, AtHand
<1>8. /\ s \in [Conns -> Sockets] /\ s[c] \in Sockets
      /\ \A d \in Conns : s[d].state = sock[d].state /\ s[d].inbox = sock[d].inbox
                          /\ s[d].asked = sock[d].asked
  BY <1>1, <1>5, <1>7, SentTypes
<1>9. "body" \in Parts /\ "body" # "408" /\ "fulfilled" \in Fates /\ "pending" \in Fates
  BY DEF Parts, Fates
<1>10. ASSUME promise' = [promise EXCEPT ![WriteOf(e)] = "fulfilled"]
       PROVE  /\ promise' \in [Writes -> Fates]
              /\ \A w \in Writes : promise'[w] # "none" =>
                   promise[w] # "none" \/ (w[1] = e.conn /\ w[2] = e.n)
  BY <1>1, <1>9, <1>10, SettleTypes
<1>11. CASE /\ sock' = s /\ CleanUp(f, s[c])
            /\ promise' = [promise EXCEPT ![WriteOf(e)] = "fulfilled"]
            /\ UNCHANGED <<open, peer, peers_, writesQueue>>
  BY <1>2, <1>3, <1>6, <1>8, <1>9, <1>10, <1>11, EntryGone
<1>12. CASE Follows(e) /\ sock' = s /\ CleanUp(f, s[c]) /\ UNCHANGED <<open, peer, peers_>>
  <2>1. /\ promise' \in [Writes -> Fates]
        /\ \A w \in Writes : promise'[w] # "none" =>
             promise[w] # "none" \/ (w[1] = e.conn /\ w[2] = e.n)
    <3>1. promise \in [Writes -> Fates]
      BY <1>1 DEF Shapes
    <3>2. PICK b : b = <<e.conn, e.n, "body">>
      OBVIOUS
    <3>3. promise' = [promise EXCEPT ![WriteOf(e)] = "fulfilled", ![b] = "pending"]
      BY <1>12, <3>2 DEF Follows
    <3>4. /\ promise' \in [Writes -> Fates]
          /\ \A w \in Writes : w # WriteOf(e) /\ w # b => promise'[w] = promise[w]
      BY <1>9, <3>1, <3>3
    <3>5. WriteOf(e)[1] = e.conn /\ WriteOf(e)[2] = e.n /\ b[1] = e.conn /\ b[2] = e.n
      BY <3>2 DEF WriteOf
    <3> QED
      BY <3>4, <3>5
  <2>2. UNCHANGED <<open, peer, peers_, peersQueue, listener, app>>
    BY <1>6, <1>12
  <2>3. PICK part \in Parts : part = "body" /\ part # "408"
    BY <1>9
  <2>4. writesQueue' = Append(writesQueue, Entry(e.conn, e.n, part, e.fd))
    BY <1>12, <2>3 DEF Follows
  <2>5. PICK k \in Sockets : CleanUp(f, k)
    BY <1>8, <1>12
  <2>6. /\ sock' \in [Conns -> Sockets]
        /\ \A d \in Conns : sock'[d].state = sock[d].state /\ sock'[d].inbox = sock[d].inbox
                            /\ sock'[d].asked = sock[d].asked
    BY <1>8, <1>12
  <2>7. WriteStep
    BY <1>6
  <2> QED
    BY <1>2, <1>3, <2>1, <2>2, <2>3, <2>4, <2>5, <2>6, <2>7, EntryGone
<1>13. CASE /\ e.part = "408" /\ RemovePeers({e.conn}, s, {})
            /\ promise' = [promise EXCEPT ![WriteOf(e)] = "fulfilled"]
            /\ io' = [io EXCEPT !.pc = "handle"] /\ UNCHANGED writesQueue
  BY <1>2, <1>3, <1>6, <1>8, <1>9, <1>13, ClosePeerKeeps
<1> QED
  BY <1>6, <1>11, <1>12, <1>13

LEMMA WriteFailsKeeps == ASSUME IInv, WriteFails PROVE IInv'
<1>1. Shapes
  BY DEF IInv
<1>2. PICK f : f = io.fd
  OBVIOUS
<1>3. PICK e : e = Head(toWrite[f])
  OBVIOUS
<1>4. /\ WriteStep /\ promise' = [promise EXCEPT ![WriteOf(e)] = "rejected"]
      /\ UNCHANGED <<writesQueue, peersQueue, listener, app>>
      /\ CleanUp(f, sock[open[f]]) /\ UNCHANGED <<sock, open, peer, peers_>>
  BY <1>2, <1>3 DEF WriteFails
<1>5. sock[open[f]] \in Sockets
  BY <1>2, <1>3, <1>4, AtHand
<1>6. sock \in [Conns -> Sockets]
  BY <1>1 DEF Shapes
<1>7. "rejected" \in Fates /\ "body" \in Parts /\ "body" # "408"
  BY DEF Fates, Parts
<1>8. /\ promise' \in [Writes -> Fates]
      /\ \A w \in Writes : promise'[w] # "none" =>
           promise[w] # "none" \/ (w[1] = e.conn /\ w[2] = e.n)
  BY <1>1, <1>4, <1>7, SettleTypes
<1> QED
  BY <1>2, <1>3, <1>4, <1>5, <1>6, <1>7, <1>8, EntryGone

-----------------------------------------------------------------------------
LEMMA StutterKeeps == ASSUME IInv, UNCHANGED vars PROVE IInv'
<1>1. io \in Loops /\ epoll \in [Fds -> Watches] /\ Busy
  BY DEF IInv, Shapes
<1>2. /\ io' = io /\ epoll' = epoll /\ toWrite' = toWrite
      /\ UNCHANGED <<sock, open, peer, peers_, queues, listener, app, promise>>
  BY DEF vars, queues
<1>3. SameWatch /\ Busy'
  BY <1>1, <1>2 DEF SameWatch, Busy
<1> QED
  BY <1>1, <1>2, <1>3, IoQuiet

LEMMA NextKeeps == ASSUME IInv, [Next]_vars PROVE IInv'
<1>1. CASE ListenerStep
  BY <1>1, AcceptKeeps, HandleNewPeerKeeps, EmplaceKeeps DEF ListenerStep
<1>2. CASE AppStep
  BY <1>2, AppFdKeeps, AppPushKeeps DEF AppStep
<1>3. CASE IoStep
  BY <1>3, PollKeeps, OnReadyKeeps, LoopsKeep, HandlePeerKeeps, HandleWriteQueueKeeps,
     CheckIdlePeersKeeps, ReceiveKeeps, DisconnectionKeeps, WriteDoneKeeps, WriteAgainKeeps,
     WriteBrokenKeeps, WriteFailsKeeps DEF IoStep
<1>4. CASE ClientStep
  BY <1>4, ConnectKeeps, RequestKeeps, PieceKeeps, ReadKeeps, CloseKeeps DEF ClientStep
<1>5. CASE UNCHANGED vars
  BY <1>5, StutterKeeps
<1> QED
  BY <1>1, <1>2, <1>3, <1>4, <1>5 DEF Next

LEMMA Sound == ASSUME IInv PROVE TransportSound
<1>1. Shapes /\ NothingInherited /\ GoodDeques
  BY DEF IInv
<1>2. \A c \in Conns : /\ sock[c].state \in {"none", "backlog", "open", "closed"}
                       /\ sock[c].used \in 0 .. Room
                       /\ peer[c].fd \in Fds \cup {None}
                       /\ peer[c].requests \in 0 .. NRequests
  BY <1>1 DEF Shapes, Sockets, States, Peers
<1>3. \A f \in Fds : epoll[f].interest \subseteq {"R", "W"}
  BY <1>1 DEF Shapes, Watches
<1>4. \A f \in Fds : toWrite[f] = None \/ \A i \in DOMAIN toWrite[f] : Left(toWrite[f][i]) \in 1 .. Size
  BY <1>1 DEF GoodDeques, Good
<1>5. TypeOK
  BY <1>1, <1>2, <1>3, <1>4 DEF TypeOK, Shapes, Loops, Places, Fates
<1> QED
  BY <1>1, <1>5 DEF TransportSound

\* For any number of connections, descriptors, requests and failures, and in any
\* order of the three kinds of threads: whatever closes a connection leaves
\* nothing under its descriptor for the next connection that gets it.
THEOREM TransportIsSound == Spec => []TransportSound
<1>1. IInv /\ [Next]_vars => IInv'
  BY NextKeeps
<1>2. IInv => TransportSound
  BY Sound
<1> QED
  BY <1>1, <1>2, InitEstablishes, PTL DEF Spec

-----------------------------------------------------------------------------
(* What is on the wire: InOrder and FulfilledIsSent. *)

\* No byte of write w was sent to anybody.
Untouched(w) == \A c \in Conns : \A x \in DOMAIN sock[c].sent : sock[c].sent[x][1] # w

\* The log of a connection names its writes once each, and only peers that the
\* reactor has registered are written to.
Logged ==
  /\ log \in [Conns -> Seq(Writes)]
  /\ \A c \in Conns :
       /\ log[c] # <<>> => Past(c)
       /\ \A i \in DOMAIN log[c] : log[c][i][1] = c /\ promise[log[c][i]] # "none"
       /\ \A i, j \in DOMAIN log[c] : log[c][i] = log[c][j] => i = j

Numbers == \A w \in Writes : promise[w] = "none" => Untouched(w)

\* An entry's promise is not settled, and its descriptor is the one its connection
\* has for as long as it is open.
Due(e) ==
  /\ WriteOf(e) \in Range(log[e.conn])
  /\ promise[WriteOf(e)] = "pending"
  /\ sock[e.conn].state = "open" => e.fd = peer[e.conn].fd
  /\ e.base + e.size = Size
Fresh(e) == e.base = 0 /\ e.offset = 0 /\ Untouched(WriteOf(e))

QueueDue == \A i \in DOMAIN writesQueue : Due(writesQueue[i]) /\ Fresh(writesQueue[i])

\* Only the first entry of a deque was begun, and as much of it is out as it says.
Begun(f, e) == Reached(open[f], WriteOf(e), e.base + e.offset)
DequesDue ==
  \A f \in Fds : toWrite[f] # None =>
    /\ \A i \in DOMAIN toWrite[f] : Due(toWrite[f][i]) /\ (i > 1 => Fresh(toWrite[f][i]))
    /\ toWrite[f] # <<>> => Begun(f, toWrite[f][1])

\* Entries stand in the order of the log, each write has one at most.
Before(v, w) ==
  v[1] = w[1] => \E i, j \in DOMAIN log[v[1]] : i < j /\ log[v[1]][i] = v /\ log[v[1]][j] = w
QueueOrder ==
  \A i, j \in DOMAIN writesQueue : i < j => Before(WriteOf(writesQueue[i]), WriteOf(writesQueue[j]))
DequeOrder ==
  \A f \in Fds : toWrite[f] # None =>
    /\ \A i, j \in DOMAIN toWrite[f] : i < j => Before(WriteOf(toWrite[f][i]), WriteOf(toWrite[f][j]))
    /\ \A i \in DOMAIN toWrite[f], j \in DOMAIN writesQueue :
         Before(WriteOf(toWrite[f][i]), WriteOf(writesQueue[j]))
DequesApart ==
  \A f, g \in Fds : f # g /\ toWrite[f] # None /\ toWrite[g] # None =>
    \A i \in DOMAIN toWrite[f], j \in DOMAIN toWrite[g] : WriteOf(toWrite[f][i]) # WriteOf(toWrite[g][j])

\* As long as a connection is open and not reset, each of its writes is complete,
\* rejected, or still in the queue or its deque.
InQueue(w) == \E i \in DOMAIN writesQueue : WriteOf(writesQueue[i]) = w
InDeque(f, w) == f \in Fds /\ toWrite[f] # None /\ \E i \in DOMAIN toWrite[f] : WriteOf(toWrite[f][i]) = w
Accounted ==
  \A c \in Conns : sock[c].state = "open" /\ ~sock[c].reset =>
    \A w \in Range(log[c]) :
      Whole(c, w) \/ promise[w] = "rejected" \/ InQueue(w) \/ InDeque(peer[c].fd, w)

\* A response that an application's thread has still to send is written once.
Apps ==
  /\ \A a \in app : /\ Past(a.conn) /\ promise[<<a.conn, a.n, "raw">>] = "none"
                    /\ a.fd # None /\ sock[a.conn].state = "open" => a.fd = peer[a.conn].fd
  /\ \A a, b \in app : a.conn = b.conn /\ a.n = b.n => a = b

BodyLast ==
  \A c \in Conns, n \in 0 .. NRequests :
    promise[<<c, n, "body">>] # "none" => promise[<<c, n, "head">>] = "fulfilled"

Spread == \A c \in Conns, w \in Writes : \E k \in 0 .. Size : Reached(c, w, k)

\* The second half of InOrder.
InTurn ==
  \A c \in Conns : \A i, j \in DOMAIN log[c] : \A y \in DOMAIN sock[c].sent :
    i < j /\ sock[c].sent[y][1] = log[c][j] =>
      /\ Whole(c, log[c][i]) \/ promise[log[c][i]] = "rejected"
      /\ \A x \in DOMAIN sock[c].sent : sock[c].sent[x][1] = log[c][i] => x < y

Orders == QueueOrder /\ DequeOrder /\ DequesApart
Wire == Numbers /\ Spread /\ InTurn /\ FulfilledIsSent
Traffic == Logged /\ QueueDue /\ DequesDue /\ Orders /\ Accounted /\ Apps /\ BodyLast /\ Wire

-----------------------------------------------------------------------------
\* What every step leaves: who was registered, the descriptor of an open
\* connection, and resets.
SameHold ==
  \A c \in Conns : Past(c) /\ sock'[c].state = "open" =>
    sock[c].state = "open" /\ peer'[c].fd = peer[c].fd
ResetStays == \A c \in Conns : sock[c].reset => sock'[c].reset
Frame == PastStays /\ SameHold /\ ResetStays

\* The entries ws join the queue, for writes that were not written before, at most one of each
\* connection.
Adds(ws) ==
  /\ ws \in Seq(Entries) /\ writesQueue' = writesQueue \o ws /\ log' \in [Conns -> Seq(Writes)]
  /\ \A i \in DOMAIN ws :
       /\ promise[WriteOf(ws[i])] = "none" /\ promise'[WriteOf(ws[i])] = "pending"
       /\ ws[i].base = 0 /\ ws[i].offset = 0 /\ ws[i].size = Size
       /\ sock'[ws[i].conn].state = "open" => ws[i].fd = peer'[ws[i].conn].fd
       /\ Past(ws[i].conn)' /\ log'[ws[i].conn] = Append(log[ws[i].conn], WriteOf(ws[i]))
  /\ \A i, j \in DOMAIN ws : ws[i].conn = ws[j].conn => i = j
  /\ \A c \in Conns : (\A i \in DOMAIN ws : ws[i].conn # c) => log'[c] = log[c]

\* Connection c is sent k bytes of write w, after the first m.
Grows(c, w, m, k) ==
  /\ \A d \in Conns : d # c => sock'[d].sent = sock[d].sent
  /\ Len(sock'[c].sent) = Len(sock[c].sent) + k
  /\ \A x \in 1 .. Len(sock[c].sent) : sock'[c].sent[x] = sock[c].sent[x]
  /\ \A x \in 1 .. k : sock'[c].sent[Len(sock[c].sent) + x] = <<w, m + x>>

SameBytes == \A c \in Conns : sock'[c].sent = sock[c].sent
LogGrows == \A c \in Conns : \A i \in DOMAIN log[c] : i \in DOMAIN log'[c] /\ log'[c][i] = log[c][i]
Promised == \A w \in Writes : promise'[w] = "none" => promise[w] = "none"

LEMMA WriteTypes == ASSUME NEW e \in Entries PROVE WriteOf(e) \in Writes /\ WriteOf(e)[1] = e.conn /\ e.conn \in Conns
BY DEF WriteOf, Writes, Entries

LEMMA SentTyped ==
  ASSUME Shapes, NEW c \in Conns
  PROVE  /\ sock[c].sent \in Seq(Writes \X Int) /\ Len(sock[c].sent) \in Nat
         /\ DOMAIN sock[c].sent = 1 .. Len(sock[c].sent)
         /\ \A x \in DOMAIN sock[c].sent : sock[c].sent[x][1] \in Writes /\ sock[c].sent[x][2] \in Int
<1>1. sock[c] \in Sockets
  BY DEF Shapes
<1>2. sock[c].sent \in Seq(Writes \X Int)
  BY <1>1 DEF Sockets
<1> QED
  BY <1>2

LEMMA QueueSplit ==
  ASSUME Shapes, NEW ws \in Seq(Entries), writesQueue' = writesQueue \o ws
  PROVE  /\ DOMAIN writesQueue = 1 .. Len(writesQueue) /\ Len(writesQueue) \in Nat
         /\ DOMAIN ws = 1 .. Len(ws) /\ Len(ws) \in Nat
         /\ \A i \in DOMAIN writesQueue : writesQueue[i] \in Entries /\ i \in DOMAIN writesQueue' /\ writesQueue'[i] = writesQueue[i]
         /\ \A i \in DOMAIN ws : /\ ws[i] \in Entries /\ Len(writesQueue) + i \in DOMAIN writesQueue'
                                 /\ writesQueue'[Len(writesQueue) + i] = ws[i]
         /\ \A i \in DOMAIN writesQueue' :
              \/ i \in DOMAIN writesQueue /\ writesQueue'[i] = writesQueue[i]
              \/ /\ i > Len(writesQueue) /\ i - Len(writesQueue) \in DOMAIN ws
                 /\ writesQueue'[i] = ws[i - Len(writesQueue)]
<1>1. writesQueue \in Seq(Entries)
  BY DEF Shapes
<1>2. /\ Len(writesQueue') = Len(writesQueue) + Len(ws) /\ writesQueue' \in Seq(Entries)
      /\ \A i \in 1 .. Len(writesQueue) + Len(ws) : writesQueue'[i] =
           IF i <= Len(writesQueue) THEN writesQueue[i] ELSE ws[i - Len(writesQueue)]
  BY <1>1, ConcatProperties
<1> QED
  BY <1>1, <1>2

LEMMA LogKept ==
  ASSUME Logged, PastStays, Promised, NEW ws, Adds(ws)
  PROVE  Logged' /\ LogGrows
<1>1. ASSUME NEW i \in DOMAIN ws
      PROVE  /\ ws[i].conn \in Conns /\ WriteOf(ws[i]) \in Writes /\ WriteOf(ws[i])[1] = ws[i].conn
  <2>1. ws[i] \in Entries
    BY DEF Adds
  <2> QED
    BY <2>1, WriteTypes
<1> SUFFICES ASSUME NEW c \in Conns
             PROVE  /\ \A i \in DOMAIN log[c] : i \in DOMAIN log'[c] /\ log'[c][i] = log[c][i]
                    /\ log'[c] # <<>> => Past(c)'
                    /\ \A i \in DOMAIN log'[c] : log'[c][i][1] = c /\ promise'[log'[c][i]] # "none"
                    /\ \A i, j \in DOMAIN log'[c] : log'[c][i] = log'[c][j] => i = j
  BY DEF Logged, LogGrows, Adds
<1>2. CASE \A i \in DOMAIN ws : ws[i].conn # c
  <2>1. log'[c] = log[c]
    BY <1>2 DEF Adds
  <2>2. \A i \in DOMAIN log[c] : log[c][i] \in Writes
    BY DEF Logged
  <2> QED
    BY <2>1, <2>2 DEF Logged, PastStays, Promised
<1>3. ASSUME NEW i \in DOMAIN ws, ws[i].conn = c
      PROVE  /\ \A x \in DOMAIN log[c] : x \in DOMAIN log'[c] /\ log'[c][x] = log[c][x]
             /\ log'[c] \in Seq(Writes) /\ Past(c)'
             /\ \A x \in DOMAIN log'[c] : log'[c][x][1] = c /\ promise'[log'[c][x]] # "none"
             /\ \A x, y \in DOMAIN log'[c] : log'[c][x] = log'[c][y] => x = y
  <2>1. PICK w \in Writes : w = WriteOf(ws[i]) /\ w[1] = c
    BY <1>1, <1>3
  <2>2. log'[c] = Append(log[c], w) /\ Past(c)' /\ promise[w] = "none" /\ promise'[w] = "pending"
    BY <1>3, <2>1 DEF Adds
  <2>3. log[c] \in Seq(Writes) /\ \A x \in DOMAIN log[c] : log[c][x] \in Writes /\ log[c][x] # w
    BY <2>2 DEF Logged
  <2>4. /\ log'[c] \in Seq(Writes) /\ Len(log[c]) \in Nat
        /\ DOMAIN log'[c] = 1 .. Len(log[c]) + 1 /\ DOMAIN log[c] = 1 .. Len(log[c])
        /\ \A x \in DOMAIN log[c] : log'[c][x] = log[c][x]
        /\ log'[c][Len(log[c]) + 1] = w
    BY <2>2, <2>3
  <2>5. \A x \in DOMAIN log'[c] : x \in DOMAIN log[c] \/ x = Len(log[c]) + 1
    BY <2>4
  <2>6. \A x \in DOMAIN log[c] : log[c][x][1] = c /\ promise'[log[c][x]] # "none"
    BY <2>3 DEF Logged, Promised
  <2>7. \A x \in DOMAIN log'[c] : log'[c][x][1] = c /\ promise'[log'[c][x]] # "none"
    BY <2>1, <2>2, <2>4, <2>5, <2>6
  <2>8. \A x, y \in DOMAIN log[c] : log[c][x] = log[c][y] => x = y
    BY DEF Logged
  <2>9. \A x, y \in DOMAIN log'[c] : log'[c][x] = log'[c][y] => x = y
    BY <2>3, <2>4, <2>5, <2>8
  <2>10. \A x \in DOMAIN log[c] : x \in DOMAIN log'[c]
    BY <2>4
  <2> QED
    BY <2>2, <2>4, <2>7, <2>9, <2>10
<1> QED
  BY <1>2, <1>3

LEMMA BeforeKept == ASSUME LogGrows, NEW v \in Writes, NEW w \in Writes, Before(v, w) PROVE Before(v, w)'
<1>1. v[1] \in Conns
  BY DEF Writes
<1> QED
  BY <1>1 DEF Before, LogGrows

\* A write that joins the log comes after those that are in it.
LEMMA NewBefore ==
  ASSUME Logged, NEW ws, Adds(ws), NEW i \in DOMAIN ws, NEW v \in Writes, v \in Range(log[v[1]])
  PROVE  Before(v, WriteOf(ws[i]))'
<1> SUFFICES ASSUME v[1] = WriteOf(ws[i])[1]
             PROVE  \E x, y \in DOMAIN log'[v[1]] : x < y /\ log'[v[1]][x] = v /\ log'[v[1]][y] = WriteOf(ws[i])
  BY DEF Before
<1>1. ws[i] \in Entries
  BY DEF Adds
<1>2. PICK w \in Writes : w = WriteOf(ws[i]) /\ ws[i].conn = w[1] /\ w[1] \in Conns
  BY <1>1, WriteTypes
<1>3. PICK c \in Conns : c = v[1] /\ c = w[1] /\ ws[i].conn = c
  BY <1>2
<1>4. log'[c] = Append(log[c], w) /\ log[c] \in Seq(Writes)
  BY <1>2, <1>3 DEF Adds, Logged
<1>5. PICK x \in DOMAIN log[c] : log[c][x] = v
  BY <1>3 DEF Range
<1>6. /\ x \in DOMAIN log'[c] /\ Len(log[c]) + 1 \in DOMAIN log'[c] /\ x < Len(log[c]) + 1
      /\ log'[c][x] = v /\ log'[c][Len(log[c]) + 1] = w
  BY <1>4, <1>5
<1> QED
  BY <1>2, <1>3, <1>6

-----------------------------------------------------------------------------
Run(s, w, k) ==
  /\ \A x \in DOMAIN s : s[x][1] = w => s[x][2] \in 1 .. k
  /\ \A j \in 1 .. k : \E x \in DOMAIN s : s[x][1] = w /\ s[x][2] = j
  /\ \A x, y \in DOMAIN s : s[x][1] = w /\ s[y][1] = w /\ x < y => s[x][2] < s[y][2]

LEMMA RunIs ==
  ASSUME NEW s, NEW w, NEW k
  PROVE  LET spots == {x \in DOMAIN s : s[x][1] = w}
         IN  ({s[x][2] : x \in spots} = 1 .. k /\ \A x, y \in spots : x < y => s[x][2] < s[y][2])
             <=> Run(s, w, k)
<1> DEFINE spots == {x \in DOMAIN s : s[x][1] = w}
<1>1. {s[x][2] : x \in spots} = 1 .. k <=>
        /\ \A x \in DOMAIN s : s[x][1] = w => s[x][2] \in 1 .. k
        /\ \A j \in 1 .. k : \E x \in DOMAIN s : s[x][1] = w /\ s[x][2] = j
  OBVIOUS
<1>2. (\A x, y \in spots : x < y => s[x][2] < s[y][2]) <=>
        \A x, y \in DOMAIN s : s[x][1] = w /\ s[y][1] = w /\ x < y => s[x][2] < s[y][2]
  OBVIOUS
<1> HIDE DEF spots
<1>3. ({s[x][2] : x \in spots} = 1 .. k /\ \A x, y \in spots : x < y => s[x][2] < s[y][2]) <=> Run(s, w, k)
  BY <1>1, <1>2 DEF Run
<1> QED
  BY <1>3 DEF spots

LEMMA ReachedIs ==
  ASSUME NEW c, NEW w, NEW k
  PROVE  /\ Reached(c, w, k) <=> Run(sock[c].sent, w, k)
         /\ Reached(c, w, k)' <=> Run(sock'[c].sent, w, k)
<1>1. PICK s : s = sock[c].sent
  OBVIOUS
<1>2. PICK t : t = sock'[c].sent
  OBVIOUS
<1>3. Reached(c, w, k) <=> Run(s, w, k)
  BY <1>1, RunIs DEF Reached
<1>4. Reached(c, w, k)' <=> Run(t, w, k)
  BY <1>2, RunIs DEF Reached
<1> QED
  BY <1>1, <1>2, <1>3, <1>4

\* Nothing else changes for what was sent.
LEMMA BytesSame ==
  ASSUME NEW c \in Conns, sock'[c].sent = sock[c].sent, NEW w, NEW k
  PROVE  (Reached(c, w, k)' <=> Reached(c, w, k)) /\ (Whole(c, w)' <=> Whole(c, w))
BY DEF Reached, Whole

Longer(s, t, w, m, k) ==
  /\ \A x \in DOMAIN s : x \in DOMAIN t /\ t[x] = s[x]
  /\ \A x \in DOMAIN t :
       \/ x \in DOMAIN s /\ t[x] = s[x]
       \/ x - Len(s) \in 1 .. k /\ x > Len(s) /\ t[x][1] = w /\ t[x][2] = m + (x - Len(s))
  /\ \A j \in 1 .. k : Len(s) + j \in DOMAIN t /\ t[Len(s) + j] = <<w, m + j>>
  /\ \A x \in DOMAIN s : x \in Nat /\ x <= Len(s)
  /\ \A x \in DOMAIN t : x \in Nat
  /\ Len(s) \in Nat

LEMMA GrowsShape ==
  ASSUME Shapes, Shapes', NEW c \in Conns, NEW w, NEW m \in Nat, NEW k \in Nat, Grows(c, w, m, k)
  PROVE  Longer(sock[c].sent, sock'[c].sent, w, m, k)
<1>1. /\ Len(sock[c].sent) \in Nat /\ DOMAIN sock[c].sent = 1 .. Len(sock[c].sent)
      /\ DOMAIN sock'[c].sent = 1 .. Len(sock'[c].sent)
  <2>1. sock[c] \in Sockets /\ sock'[c] \in Sockets
    BY DEF Shapes
  <2>2. sock[c].sent \in Seq(Writes \X Int) /\ sock'[c].sent \in Seq(Writes \X Int)
    BY <2>1 DEF Sockets
  <2> QED
    BY <2>2
<1>2. PICK s : s = sock[c].sent
  OBVIOUS
<1>3. PICK t : t = sock'[c].sent
  OBVIOUS
<1>4. PICK l \in Nat : l = Len(s)
  BY <1>1, <1>2
<1>5. DOMAIN s = 1 .. l /\ DOMAIN t = 1 .. l + k
  BY <1>1, <1>2, <1>3, <1>4 DEF Grows
<1>6. /\ \A x \in 1 .. l : t[x] = s[x]
      /\ \A x \in 1 .. k : t[l + x] = <<w, m + x>>
  BY <1>2, <1>3, <1>4 DEF Grows
<1>7. \A x \in 1 .. l + k : x > l => x - l \in 1 .. k /\ t[x] = <<w, m + (x - l)>>
  <2>1. \A x \in 1 .. l + k : x > l => x - l \in 1 .. k /\ l + (x - l) = x
    OBVIOUS
  <2> QED
    BY <1>6, <2>1
<1>8. \A x \in 1 .. l + k : \/ x \in 1 .. l /\ t[x] = s[x]
                            \/ x - l \in 1 .. k /\ x > l /\ t[x][1] = w /\ t[x][2] = m + (x - l)
  BY <1>6, <1>7
<1>9. Longer(s, t, w, m, k)
  <2>1. \A x \in DOMAIN s : x \in DOMAIN t /\ t[x] = s[x] /\ x \in Nat /\ x <= l
    BY <1>5, <1>6
  <2>2. \A x \in DOMAIN t : x \in Nat
    BY <1>5
  <2>3. \A j \in 1 .. k : l + j \in DOMAIN t /\ t[l + j] = <<w, m + j>>
    BY <1>5, <1>6
  <2>4. \A x \in DOMAIN t : \/ x \in DOMAIN s /\ t[x] = s[x]
                            \/ x - l \in 1 .. k /\ x > l /\ t[x][1] = w /\ t[x][2] = m + (x - l)
    BY <1>5, <1>8
  <2> QED
    BY <1>4, <2>1, <2>2, <2>3, <2>4 DEF Longer
<1> QED
  BY <1>2, <1>3, <1>9

LEMMA WholeStays ==
  ASSUME Shapes, Shapes', NEW c \in Conns, NEW w, NEW m \in Nat, NEW k \in Nat, Grows(c, w, m, k),
         NEW d \in Conns, NEW v, Whole(d, v)
  PROVE  Whole(d, v)'
<1>1. CASE d = c
  <2>1. \A b \in Range(sock[c].sent) : b \in Range(sock'[c].sent)
    BY GrowsShape DEF Range, Longer
  <2> QED
    BY <1>1, <2>1 DEF Whole
<1>2. CASE d # c
  BY <1>2 DEF Grows, Whole
<1> QED
  BY <1>1, <1>2

\* The write goes on where it was, and others stay.
LEMMA ReachedGrows ==
  ASSUME Shapes, Shapes', NEW c \in Conns, NEW w, NEW m \in Nat, NEW k \in Nat, Grows(c, w, m, k),
         Reached(c, w, m)
  PROVE  Reached(c, w, m + k)'
<1>0. PICK s : s = sock[c].sent
  OBVIOUS
<1>7. PICK t : t = sock'[c].sent
  OBVIOUS
<1>8. PICK l : l = Len(s)
  OBVIOUS
<1>1. /\ \A x \in DOMAIN s : s[x][1] = w => s[x][2] \in 1 .. m
      /\ \A j \in 1 .. m : \E x \in DOMAIN s : s[x][1] = w /\ s[x][2] = j
      /\ \A x, y \in DOMAIN s : s[x][1] = w /\ s[y][1] = w /\ x < y => s[x][2] < s[y][2]
  BY <1>0, ReachedIs DEF Run
<1>2. Longer(s, t, w, m, k) /\ l = Len(s)
  BY <1>0, <1>7, <1>8, GrowsShape
<1> USE DEF Longer
<1>3. \A x \in DOMAIN t : t[x][1] = w => t[x][2] \in 1 .. m + k
  BY <1>1, <1>2
<1>4. \A j \in 1 .. m + k : \E x \in DOMAIN t : t[x][1] = w /\ t[x][2] = j
  <2> SUFFICES ASSUME NEW j \in 1 .. m + k PROVE \E x \in DOMAIN t : t[x][1] = w /\ t[x][2] = j
    OBVIOUS
  <2>1. CASE j <= m
    BY <1>1, <1>2, <2>1, SMTT(60)
  <2>2. CASE j > m
    <3>1. j - m \in 1 .. k /\ m + (j - m) = j
      BY <2>2
    <3>2. l + (j - m) \in DOMAIN t /\ t[l + (j - m)] = <<w, j>>
      BY <1>2, <3>1
    <3> QED
      BY <3>2
  <2> QED
    BY <2>1, <2>2
<1>5. \A x, y \in DOMAIN t : t[x][1] = w /\ t[y][1] = w /\ x < y => t[x][2] < t[y][2]
  <2> SUFFICES ASSUME NEW x \in DOMAIN t, NEW y \in DOMAIN t, t[x][1] = w, t[y][1] = w, x < y
               PROVE  t[x][2] < t[y][2]
    OBVIOUS
  <2>1. CASE y \in DOMAIN s
    <3>1. x \in DOMAIN s
      BY <1>2, <2>1
    <3> QED
      BY <1>1, <1>2, <2>1, <3>1
  <2>2. CASE y \notin DOMAIN s
    <3>1. y - l \in 1 .. k /\ t[y][2] = m + (y - l)
      BY <1>2, <2>2
    <3>2. CASE x \in DOMAIN s
      <4>1. t[x][2] \in 1 .. m
        BY <1>1, <1>2, <3>2
      <4> QED
        BY <3>1, <4>1
    <3>3. CASE x \notin DOMAIN s
      <4>1. x - l \in 1 .. k /\ t[x][2] = m + (x - l)
        BY <1>2, <3>3
      <4> QED
        BY <1>2, <3>1, <4>1
    <3> QED
      BY <3>2, <3>3
  <2> QED
    BY <2>1, <2>2
<1>6. Run(t, w, m + k)
  BY <1>3, <1>4, <1>5 DEF Run
<1> QED
  BY <1>6, <1>7, ReachedIs

LEMMA ReachedOthers ==
  ASSUME Shapes, Shapes', NEW c \in Conns, NEW w, NEW m \in Nat, NEW k \in Nat, Grows(c, w, m, k),
         NEW d \in Conns, NEW v, d # c \/ v # w \/ k = 0, NEW i, Reached(d, v, i)
  PROVE  Reached(d, v, i)'
<1>1. CASE d # c
  BY <1>1, BytesSame DEF Grows
<1>2. CASE d = c
  <2>1. PICK s : s = sock[c].sent
    OBVIOUS
  <2>2. PICK t : t = sock'[c].sent
    OBVIOUS
  <2>3. Longer(s, t, w, m, k)
    BY <2>1, <2>2, GrowsShape
  <2>4. Run(s, v, i)
    BY <1>2, <2>1, ReachedIs
  <2>5. \A x \in DOMAIN t : t[x][1] = v => x \in DOMAIN s /\ t[x] = s[x]
    BY <1>2, <2>3 DEF Longer
  <2>6. \A x \in DOMAIN s : x \in DOMAIN t /\ t[x] = s[x]
    BY <2>3 DEF Longer
  <2>7. Run(t, v, i)
    BY <2>4, <2>5, <2>6 DEF Run
  <2> QED
    BY <1>2, <2>2, <2>7, ReachedIs
<1> QED
  BY <1>1, <1>2

\* What is new in a log was not written before.
LEMMA LogNew ==
  ASSUME Logged, NEW ws, Adds(ws), NEW c \in Conns
  PROVE  /\ \A j \in DOMAIN log'[c] : /\ log'[c][j] \in Writes
                                      /\ j \in DOMAIN log[c] \/ promise[log'[c][j]] = "none"
         /\ \A i \in DOMAIN log'[c], j \in DOMAIN log[c] : i < j => i \in DOMAIN log[c]
<1>1. log[c] \in Seq(Writes) /\ log'[c] \in Seq(Writes)
  BY DEF Logged, Adds
<1>2. \A i \in DOMAIN log'[c], j \in DOMAIN log[c] : i < j => i \in DOMAIN log[c]
  BY <1>1
<1>3. ASSUME NEW j \in DOMAIN log'[c] PROVE j \in DOMAIN log[c] \/ promise[log'[c][j]] = "none"
  <2>1. CASE \A i \in DOMAIN ws : ws[i].conn # c
    BY <2>1 DEF Adds
  <2>2. ASSUME NEW i \in DOMAIN ws, ws[i].conn = c PROVE j \in DOMAIN log[c] \/ promise[log'[c][j]] = "none"
    <3>1. PICK w : w = WriteOf(ws[i])
      OBVIOUS
    <3>2. log'[c] = Append(log[c], w) /\ promise[w] = "none"
      BY <2>2, <3>1 DEF Adds
    <3> QED
      BY <1>1, <3>2
  <2> QED
    BY <2>1, <2>2
<1> QED
  BY <1>1, <1>2, <1>3

RejectedStays == \A w \in Writes : promise[w] = "rejected" => promise'[w] = "rejected"

LEMMA WireQuiet ==
  ASSUME Logged, Wire, LogGrows, NEW ws, Adds(ws), SameBytes, Promised, RejectedStays,
         \A w \in Writes : promise'[w] = "fulfilled" => promise[w] = "fulfilled"
  PROVE  Wire'
<1>1. Numbers'
  BY DEF Wire, Numbers, Promised, Untouched, SameBytes
<1>2. Spread'
  BY BytesSame DEF Wire, Spread, SameBytes
<1>3. InTurn'
  <2> SUFFICES ASSUME NEW c \in Conns, NEW i \in DOMAIN log'[c], NEW j \in DOMAIN log'[c],
                      NEW y \in DOMAIN sock'[c].sent, i < j, sock'[c].sent[y][1] = log'[c][j]
               PROVE  /\ Whole(c, log[c][i])' \/ promise'[log'[c][i]] = "rejected"
                      /\ \A x \in DOMAIN sock'[c].sent : sock'[c].sent[x][1] = log'[c][i] => x < y
    BY DEF InTurn
  <2>1. sock'[c].sent = sock[c].sent
    BY DEF SameBytes
  <2>2. log'[c][j] \in Writes /\ (j \in DOMAIN log[c] \/ promise[log'[c][j]] = "none")
    BY LogNew
  <2>3. j \in DOMAIN log[c]
    BY <2>1, <2>2 DEF Wire, Numbers, Untouched
  <2>4. i \in DOMAIN log[c]
    BY <2>3, LogNew
  <2>5. log'[c][i] = log[c][i] /\ log'[c][j] = log[c][j] /\ log[c][i] \in Writes
    BY <2>3, <2>4 DEF LogGrows, Logged
  <2>6. /\ Whole(c, log[c][i]) \/ promise[log[c][i]] = "rejected"
        /\ \A x \in DOMAIN sock[c].sent : sock[c].sent[x][1] = log[c][i] => x < y
    BY <2>1, <2>3, <2>4, <2>5 DEF Wire, InTurn
  <2>7. PICK w \in Writes : w = log[c][i] /\ w = log'[c][i]
    BY <2>5
  <2>8. Whole(c, w)' \/ promise'[w] = "rejected"
    BY <2>1, <2>6, <2>7, BytesSame DEF RejectedStays
  <2> QED
    BY <2>1, <2>6, <2>7, <2>8 DEF Whole
<1>4. FulfilledIsSent'
  BY BytesSame DEF Wire, FulfilledIsSent, SameBytes
<1> QED
  BY <1>1, <1>2, <1>3, <1>4 DEF Wire

\* A write that was begun and is not complete has a byte to come.
LEMMA NotWhole ==
  ASSUME NEW c \in Conns, NEW w, NEW m \in Nat, Reached(c, w, m), m < Size
  PROVE  ~Whole(c, w)
<1>1. Size \in 1 .. Size /\ Size \notin 1 .. m
  BY NumberTypes
<1>2. \A x \in DOMAIN sock[c].sent : sock[c].sent[x][1] = w => sock[c].sent[x][2] \in 1 .. m
  BY ReachedIs DEF Run
<1>3. <<w, Size>> \notin Range(sock[c].sent)
  <2> SUFFICES ASSUME NEW x \in DOMAIN sock[c].sent, sock[c].sent[x] = <<w, Size>> PROVE FALSE
    BY DEF Range
  <2>1. sock[c].sent[x][1] = w /\ sock[c].sent[x][2] = Size
    OBVIOUS
  <2> QED
    BY <1>1, <1>2, <2>1
<1> QED
  BY <1>1, <1>3 DEF Whole

LEMMA ReachedWhole ==
  ASSUME Shapes', NEW c \in Conns, NEW w, Reached(c, w, Size)'
  PROVE  Whole(c, w)'
<1>1. PICK t : t = sock'[c].sent
  OBVIOUS
<1>2. t \in Seq(Writes \X Int)
  <2>1. sock'[c] \in Sockets
    BY DEF Shapes
  <2> QED
    BY <1>1, <2>1 DEF Sockets
<1>3. Run(t, w, Size)
  BY <1>1, ReachedIs
<1> SUFFICES ASSUME NEW k \in 1 .. Size PROVE <<w, k>> \in Range(t)
  BY <1>1 DEF Whole
<1>4. PICK x \in DOMAIN t : t[x][1] = w /\ t[x][2] = k
  BY <1>3 DEF Run
<1>5. t[x] = <<w, k>>
  BY <1>2, <1>4
<1> QED
  BY <1>5 DEF Range

\* The writes before w on connection c are done with.
Turn(c, w) ==
  \A i, j \in DOMAIN log[c] : i < j /\ log[c][j] = w =>
    Whole(c, log[c][i]) \/ promise[log[c][i]] = "rejected"

LEMMA WireHead ==
  ASSUME Shapes, Shapes', Logged, Wire, LogGrows, NEW ws, Adds(ws), Promised, RejectedStays,
         NEW c \in Conns, NEW w \in Writes, NEW m \in Nat, NEW k \in Nat, Grows(c, w, m, k),
         Reached(c, w, m), m + k <= Size, promise[w] = "pending", k > 0 => Turn(c, w),
         \A v \in Writes : promise'[v] = "fulfilled" => promise[v] = "fulfilled" \/ (v = w /\ m + k = Size)
  PROVE  Wire'
<1>0. PICK s : s = sock[c].sent
  OBVIOUS
<1>1. PICK t : t = sock'[c].sent
  OBVIOUS
<1>2. Longer(s, t, w, m, k)
  BY <1>0, <1>1, GrowsShape
<1>3. \A d \in Conns : d # c => sock'[d].sent = sock[d].sent
  BY DEF Grows
<1>4. \A x \in DOMAIN t : \/ x \in DOMAIN s /\ t[x] = s[x]
                          \/ k > 0 /\ x \in Nat /\ x > Len(s) /\ t[x][1] = w
  BY <1>2 DEF Longer
<1>5. Numbers'
  <2> SUFFICES ASSUME NEW v \in Writes, promise'[v] = "none" PROVE Untouched(v)'
    BY DEF Numbers
  <2>1. promise[v] = "none" /\ v # w
    BY DEF Promised
  <2>2. Untouched(v)
    BY <2>1 DEF Wire, Numbers
  <2>3. \A x \in DOMAIN t : t[x][1] # v
    BY <1>0, <1>4, <2>1, <2>2 DEF Untouched
  <2> QED
    BY <1>1, <1>3, <2>2, <2>3 DEF Untouched
<1>6. Spread'
  <2> SUFFICES ASSUME NEW d \in Conns, NEW v \in Writes PROVE \E i \in 0 .. Size : Reached(d, v, i)'
    BY DEF Spread
  <2>1. CASE d = c /\ v = w
    <3>1. m + k \in 0 .. Size
      BY NumberTypes
    <3> QED
      BY <2>1, <3>1, ReachedGrows
  <2>2. CASE ~(d = c /\ v = w)
    <3>1. PICK i \in 0 .. Size : Reached(d, v, i)
      BY DEF Wire, Spread
    <3> QED
      BY <2>2, <3>1, ReachedOthers
  <2> QED
    BY <2>1, <2>2
<1>7. InTurn'
  <2> SUFFICES ASSUME NEW d \in Conns, NEW i \in DOMAIN log'[d], NEW j \in DOMAIN log'[d],
                      NEW y \in DOMAIN sock'[d].sent, i < j, sock'[d].sent[y][1] = log'[d][j]
               PROVE  /\ Whole(d, log[d][i])' \/ promise'[log'[d][i]] = "rejected"
                      /\ \A x \in DOMAIN sock'[d].sent : sock'[d].sent[x][1] = log'[d][i] => x < y
    BY DEF InTurn
  <2>1. log'[d][j] \in Writes /\ (j \in DOMAIN log[d] \/ promise[log'[d][j]] = "none")
    BY LogNew
  <2>2. ASSUME y \in DOMAIN sock[d].sent, sock[d].sent[y][1] = log'[d][j] PROVE j \in DOMAIN log[d]
    BY <2>1, <2>2 DEF Wire, Numbers, Untouched
  <2>3. ASSUME j \in DOMAIN log[d]
        PROVE  /\ i \in DOMAIN log[d] /\ log'[d][i] = log[d][i] /\ log'[d][j] = log[d][j]
               /\ log[d][i] \in Writes
    <3>1. i \in DOMAIN log[d]
      BY <2>3, LogNew
    <3> QED
      BY <2>3, <3>1 DEF LogGrows, Logged
  <2>4. ASSUME NEW v \in Writes, Whole(d, v) \/ promise[v] = "rejected"
        PROVE  Whole(d, v)' \/ promise'[v] = "rejected"
    BY <2>4, WholeStays DEF RejectedStays
  <2>5. CASE y \in DOMAIN sock[d].sent /\ sock'[d].sent[y] = sock[d].sent[y]
    <3>1. j \in DOMAIN log[d]
      BY <2>2, <2>5
    <3>2. PICK v \in Writes : v = log[d][i] /\ v = log'[d][i]
      BY <2>3, <3>1
    <3>3. /\ Whole(d, v) \/ promise[v] = "rejected"
          /\ \A x \in DOMAIN sock[d].sent : sock[d].sent[x][1] = v => x < y
      <4>1. i \in DOMAIN log[d] /\ i < j /\ sock[d].sent[y][1] = log[d][j]
        BY <2>3, <2>5, <3>1
      <4>2. InTurn
        BY DEF Wire
      <4>3. \A a, b \in DOMAIN log[d] : \A z \in DOMAIN sock[d].sent :
              a < b /\ sock[d].sent[z][1] = log[d][b] =>
                /\ Whole(d, log[d][a]) \/ promise[log[d][a]] = "rejected"
                /\ \A x \in DOMAIN sock[d].sent : sock[d].sent[x][1] = log[d][a] => x < z
        BY <4>2 DEF InTurn
      <4> QED
        BY <2>5, <3>1, <3>2, <4>1, <4>3
    <3>4. Whole(d, v)' \/ promise'[v] = "rejected"
      BY <2>4, <3>3
    <3>5. \A x \in DOMAIN sock'[d].sent : sock'[d].sent[x][1] = v => x < y
      <4>1. CASE d # c
        BY <1>3, <3>3, <4>1
      <4>2. CASE d = c
        <5>1. \A x \in DOMAIN t : t[x][1] = v => x \in DOMAIN s /\ t[x] = s[x]
          <6> SUFFICES ASSUME NEW x \in DOMAIN t, t[x][1] = v, ~(x \in DOMAIN s /\ t[x] = s[x]) PROVE FALSE
            OBVIOUS
          <6>1. v = w /\ m < Size
            BY <1>4, NumberTypes
          <6>2. ~Whole(c, w)
            BY <6>1, NotWhole
          <6> QED
            BY <3>3, <4>2, <6>1, <6>2
        <5> QED
          BY <1>0, <1>1, <3>3, <4>2, <5>1
      <4> QED
        BY <4>1, <4>2
    <3> QED
      BY <3>2, <3>4, <3>5 DEF Whole
  <2>6. CASE ~(y \in DOMAIN sock[d].sent /\ sock'[d].sent[y] = sock[d].sent[y])
    <3>1. d = c
      BY <1>3, <2>6
    <3>2. y \in DOMAIN t /\ k > 0 /\ y \in Nat /\ y > Len(s) /\ t[y][1] = w
      BY <1>0, <1>1, <1>4, <2>6, <3>1
    <3>3. log'[d][j] = w /\ j \in DOMAIN log[d]
      BY <1>1, <2>1, <3>1, <3>2
    <3>4. PICK v \in Writes : v = log[d][i] /\ v = log'[d][i] /\ i \in DOMAIN log[d] /\ log[d][j] = w
      BY <2>3, <3>3
    <3>5. Whole(d, v) \/ promise[v] = "rejected"
      BY <3>1, <3>2, <3>3, <3>4 DEF Turn
    <3>6. v # w
      BY <3>3, <3>4 DEF Logged, LogGrows
    <3>7. \A x \in DOMAIN t : t[x][1] = v => x < y
      <4> SUFFICES ASSUME NEW x \in DOMAIN t, t[x][1] = v PROVE x < y
        OBVIOUS
      <4>1. x \in DOMAIN s
        BY <1>4, <3>6
      <4>2. x \in Nat /\ x <= Len(s) /\ Len(s) \in Nat
        BY <1>2, <4>1 DEF Longer
      <4> QED
        BY <3>2, <4>2
    <3>8. Whole(d, v)' \/ promise'[v] = "rejected"
      BY <2>4, <3>5
    <3> QED
      BY <1>1, <3>1, <3>4, <3>7, <3>8 DEF Whole
  <2> QED
    BY <2>5, <2>6
<1>8. FulfilledIsSent'
  <2> SUFFICES ASSUME NEW v \in Writes, promise'[v] = "fulfilled" PROVE \E d \in Conns : Whole(d, v)'
    BY DEF FulfilledIsSent
  <2>1. CASE promise[v] = "fulfilled"
    <3>1. PICK d \in Conns : Whole(d, v)
      BY <2>1 DEF Wire, FulfilledIsSent
    <3> QED
      BY <3>1, WholeStays
  <2>2. CASE v = w /\ m + k = Size
    <3>1. Reached(c, w, Size)'
      BY <2>2, ReachedGrows
    <3>2. Whole(c, w)'
      BY <3>1, ReachedWhole
    <3> QED
      BY <2>2, <3>2
  <2> QED
    BY <2>1, <2>2
<1> QED
  BY <1>5, <1>6, <1>7, <1>8 DEF Wire

-----------------------------------------------------------------------------
\* A deque that is not empty has lost its first entry at most.
Shrunk(g) ==
  /\ toWrite[g] # None
  /\ \E l \in {0, 1} : \A i \in DOMAIN toWrite'[g] :
       i + l \in DOMAIN toWrite[g] /\ WriteOf(toWrite'[g][i]) = WriteOf(toWrite[g][i + l])

LEMMA EntriesTyped ==
  ASSUME Shapes
  PROVE  /\ writesQueue \in Seq(Entries)
         /\ \A i \in DOMAIN writesQueue :
              i \in Nat /\ writesQueue[i] \in Entries /\ WriteOf(writesQueue[i]) \in Writes
         /\ \A f \in Fds : toWrite[f] # None =>
              /\ toWrite[f] \in Seq(Entries)
              /\ \A i \in DOMAIN toWrite[f] :
                   i \in Nat /\ i >= 1 /\ toWrite[f][i] \in Entries /\ WriteOf(toWrite[f][i]) \in Writes
<1>1. writesQueue \in Seq(Entries) /\ \A f \in Fds : toWrite[f] # None => toWrite[f] \in Seq(Entries)
  BY DEF Shapes
<1>2. \A i \in DOMAIN writesQueue : i \in Nat /\ writesQueue[i] \in Entries
  BY <1>1
<1>3. \A f \in Fds : toWrite[f] # None =>
        \A i \in DOMAIN toWrite[f] : i \in Nat /\ i >= 1 /\ toWrite[f][i] \in Entries
  BY <1>1
<1> QED
  BY <1>1, <1>2, <1>3, WriteTypes

\* What is due is in the log.
LEMMA DueLogged ==
  ASSUME NEW e \in Entries, Due(e)
  PROVE  WriteOf(e) \in Writes /\ WriteOf(e) \in Range(log[WriteOf(e)[1]])
BY WriteTypes DEF Due

LEMMA OrdersKept ==
  ASSUME Shapes, Shapes', Logged, LogGrows, NEW ws, Adds(ws), QueueDue, DequesDue, Orders,
         \A g \in Fds : toWrite'[g] # None => toWrite'[g] = <<>> \/ Shrunk(g)
  PROVE  Orders'
<1>0. ws \in Seq(Entries) /\ writesQueue' = writesQueue \o ws
  BY DEF Adds
<1>1. /\ Len(writesQueue) \in Nat /\ DOMAIN writesQueue = 1 .. Len(writesQueue)
      /\ \A i \in DOMAIN ws : i \in Nat /\ ws[i] \in Entries
      /\ \A i \in DOMAIN writesQueue' :
           \/ i \in DOMAIN writesQueue /\ writesQueue'[i] = writesQueue[i]
           \/ /\ i > Len(writesQueue) /\ i - Len(writesQueue) \in DOMAIN ws
              /\ writesQueue'[i] = ws[i - Len(writesQueue)]
  BY <1>0, QueueSplit
<1>2. \A i \in DOMAIN writesQueue : /\ writesQueue[i] \in Entries /\ WriteOf(writesQueue[i]) \in Writes
                                   /\ WriteOf(writesQueue[i]) \in Range(log[WriteOf(writesQueue[i])[1]])
  BY EntriesTyped, DueLogged DEF QueueDue
<1>3. \A f \in Fds : toWrite[f] # None => \A i \in DOMAIN toWrite[f] :
        /\ toWrite[f][i] \in Entries /\ WriteOf(toWrite[f][i]) \in Writes
        /\ WriteOf(toWrite[f][i]) \in Range(log[WriteOf(toWrite[f][i])[1]])
  BY EntriesTyped, DueLogged DEF DequesDue
<1>4. \A f \in Fds : toWrite'[f] # None => \A i \in DOMAIN toWrite'[f] : i \in Nat
  BY EntriesTyped DEF Shapes
<1>5. QueueOrder'
  <2> SUFFICES ASSUME NEW i \in DOMAIN writesQueue', NEW j \in DOMAIN writesQueue', i < j
               PROVE  Before(WriteOf(writesQueue[i]), WriteOf(writesQueue[j]))'
    BY DEF QueueOrder
  <2>1. PICK v : v = WriteOf(writesQueue'[i])
    OBVIOUS
  <2>2. PICK w : w = WriteOf(writesQueue'[j])
    OBVIOUS
  <2>3. Before(v, w)'
    <3>1. CASE i \in DOMAIN writesQueue /\ j \in DOMAIN writesQueue
      <4>1. writesQueue'[i] = writesQueue[i] /\ writesQueue'[j] = writesQueue[j]
        BY <1>1, <3>1
      <4>2. v \in Writes /\ w \in Writes /\ Before(v, w)
        BY <1>2, <2>1, <2>2, <3>1, <4>1 DEF Orders, QueueOrder
      <4> QED
        BY <4>2, BeforeKept
    <3>2. CASE i \in DOMAIN writesQueue /\ j \notin DOMAIN writesQueue
      <4>1. writesQueue'[i] = writesQueue[i]
        BY <1>1, <3>2
      <4>2. v \in Writes /\ v \in Range(log[v[1]])
        BY <1>2, <2>1, <3>2, <4>1
      <4>3. PICK x \in DOMAIN ws : w = WriteOf(ws[x])
        BY <1>1, <2>2, <3>2
      <4> QED
        BY <4>2, <4>3, NewBefore
    <3>3. CASE i \notin DOMAIN writesQueue
      <4>1. i \in Nat /\ j \in Nat
        BY <1>0, <1>1, EntriesTyped DEF Shapes
      <4>2. i > Len(writesQueue) /\ j > Len(writesQueue)
        BY <1>1, <3>3, <4>1
      <4>3. PICK x, y \in DOMAIN ws : /\ x = i - Len(writesQueue) /\ y = j - Len(writesQueue)
                                      /\ v = WriteOf(ws[x]) /\ w = WriteOf(ws[y])
        BY <1>1, <2>1, <2>2, <4>1, <4>2
      <4>4. x # y
        BY <1>1, <4>1, <4>3
      <4>5. ws[x].conn # ws[y].conn
        BY <4>4 DEF Adds
      <4>6. v[1] # w[1]
        BY <1>1, <4>3, <4>5, WriteTypes
      <4> QED
        BY <4>6 DEF Before
    <3> QED
      BY <3>1, <3>2, <3>3
  <2> QED
    BY <2>1, <2>2, <2>3 DEF Before
<1>6. ASSUME NEW f \in Fds, toWrite'[f] # None, toWrite'[f] # <<>>
      PROVE  /\ toWrite[f] # None
             /\ \A i, j \in DOMAIN toWrite'[f] : i < j => Before(WriteOf(toWrite[f][i]), WriteOf(toWrite[f][j]))'
             /\ \A i \in DOMAIN toWrite'[f], j \in DOMAIN writesQueue' :
                  Before(WriteOf(toWrite[f][i]), WriteOf(writesQueue[j]))'
             /\ \A i \in DOMAIN toWrite'[f] : \E x \in DOMAIN toWrite[f] :
                  WriteOf(toWrite'[f][i]) = WriteOf(toWrite[f][x])
  <2>1. toWrite[f] # None
    BY <1>6 DEF Shrunk
  <2>2. PICK l \in {0, 1} : \A i \in DOMAIN toWrite'[f] :
          i + l \in DOMAIN toWrite[f] /\ WriteOf(toWrite'[f][i]) = WriteOf(toWrite[f][i + l])
    BY <1>6 DEF Shrunk
  <2>3. ASSUME NEW i \in DOMAIN toWrite'[f], NEW j \in DOMAIN toWrite'[f], i < j
        PROVE  Before(WriteOf(toWrite[f][i]), WriteOf(toWrite[f][j]))'
    <3>1. PICK v : v = WriteOf(toWrite'[f][i])
      OBVIOUS
    <3>2. PICK w : w = WriteOf(toWrite'[f][j])
      OBVIOUS
    <3>3. i + l < j + l
      BY <1>4, <1>6, <2>3
    <3>4. v \in Writes /\ w \in Writes /\ Before(v, w)
      BY <1>3, <2>1, <2>2, <3>1, <3>2, <3>3 DEF Orders, DequeOrder
    <3>5. Before(v, w)'
      BY <3>4, BeforeKept
    <3> QED
      BY <3>1, <3>2, <3>5 DEF Before
  <2>4. ASSUME NEW i \in DOMAIN toWrite'[f], NEW j \in DOMAIN writesQueue'
        PROVE  Before(WriteOf(toWrite[f][i]), WriteOf(writesQueue[j]))'
    <3>1. PICK v : v = WriteOf(toWrite'[f][i])
      OBVIOUS
    <3>2. PICK w : w = WriteOf(writesQueue'[j])
      OBVIOUS
    <3>3. v \in Writes /\ v \in Range(log[v[1]])
      BY <1>3, <2>1, <2>2, <3>1
    <3>4. Before(v, w)'
      <4>1. CASE j \in DOMAIN writesQueue
        <5>1. w \in Writes /\ Before(v, w)
          BY <1>1, <1>2, <2>1, <2>2, <3>1, <3>2, <4>1 DEF Orders, DequeOrder
        <5> QED
          BY <3>3, <5>1, BeforeKept
      <4>2. CASE j \notin DOMAIN writesQueue
        <5>1. PICK y \in DOMAIN ws : w = WriteOf(ws[y])
          BY <1>1, <3>2, <4>2
        <5> QED
          BY <3>3, <5>1, NewBefore
      <4> QED
        BY <4>1, <4>2
    <3> QED
      BY <3>1, <3>2, <3>4 DEF Before
  <2> QED
    BY <2>1, <2>2, <2>3, <2>4
<1>7. DequeOrder'
  BY <1>6 DEF DequeOrder
<1>8. DequesApart'
  <2> SUFFICES ASSUME NEW f \in Fds, NEW g \in Fds, f # g, toWrite'[f] # None, toWrite'[g] # None,
                      NEW i \in DOMAIN toWrite'[f], NEW j \in DOMAIN toWrite'[g]
               PROVE  WriteOf(toWrite'[f][i]) # WriteOf(toWrite'[g][j])
    BY DEF DequesApart
  <2>1. toWrite'[f] # <<>> /\ toWrite'[g] # <<>>
    OBVIOUS
  <2>2. PICK x \in DOMAIN toWrite[f] : WriteOf(toWrite'[f][i]) = WriteOf(toWrite[f][x])
    BY <1>6, <2>1
  <2>3. PICK y \in DOMAIN toWrite[g] : WriteOf(toWrite'[g][j]) = WriteOf(toWrite[g][y])
    BY <1>6, <2>1
  <2>4. toWrite[f] # None /\ toWrite[g] # None
    BY <1>6, <2>1
  <2> QED
    BY <2>2, <2>3, <2>4 DEF Orders, DequesApart
<1> QED
  BY <1>5, <1>7, <1>8 DEF Orders

-----------------------------------------------------------------------------
LEMMA DueKept ==
  ASSUME Logged, LogGrows, SameHold, NEW e \in Entries, Due(e), promise'[WriteOf(e)] = "pending"
  PROVE  Due(e)'
<1>1. PICK w \in Writes : w = WriteOf(e)
  BY WriteTypes
<1>2. PICK c \in Conns : c = e.conn
  BY WriteTypes
<1>3. PICK i \in DOMAIN log[c] : log[c][i] = w
  BY <1>1, <1>2 DEF Due, Range
<1>4. Past(c)
  BY <1>3 DEF Logged
<1>5. w \in Range(log'[c])
  BY <1>3 DEF LogGrows, Range
<1>6. sock'[c].state = "open" => sock[c].state = "open" /\ peer'[c].fd = peer[c].fd
  BY <1>4 DEF SameHold
<1> QED
  BY <1>1, <1>2, <1>5, <1>6 DEF Due

LEMMA NewDue ==
  ASSUME Logged, Numbers, NEW ws, Adds(ws), NEW i \in DOMAIN ws
  PROVE  Due(ws[i])' /\ ws[i].base = 0 /\ ws[i].offset = 0 /\ Untouched(WriteOf(ws[i]))
<1>1. PICK e \in Entries : e = ws[i]
  BY DEF Adds
<1>2. e.conn \in Conns /\ WriteOf(e) \in Writes
  BY WriteTypes
<1>3. PICK c \in Conns : c = e.conn
  BY <1>2
<1>4. PICK w \in Writes : w = WriteOf(e)
  BY <1>2
<1>5. /\ promise[w] = "none" /\ promise'[w] = "pending" /\ e.base = 0 /\ e.offset = 0 /\ e.size = Size
      /\ sock'[c].state = "open" => e.fd = peer'[c].fd
      /\ log'[c] = Append(log[c], w)
  BY <1>1, <1>3, <1>4 DEF Adds
<1>6. w \in Range(log'[c])
  <2>1. log[c] \in Seq(Writes)
    BY DEF Logged
  <2>2. Len(log[c]) + 1 \in DOMAIN log'[c] /\ log'[c][Len(log[c]) + 1] = w
    BY <1>5, <2>1
  <2> QED
    BY <2>2 DEF Range
<1>7. e.base + e.size = Size
  BY <1>5, NumberTypes
<1>8. Untouched(w)
  BY <1>5 DEF Numbers
<1>9. Due(e)'
  BY <1>3, <1>4, <1>5, <1>6, <1>7 DEF Due
<1> QED
  BY <1>1, <1>4, <1>5, <1>8, <1>9 DEF Due

PromiseSame(ws) ==
  \A w \in Writes : (\A i \in DOMAIN ws : WriteOf(ws[i]) # w) => promise'[w] = promise[w]

\* A promise that was made stays so, unless this step settles it.
LEMMA Settling ==
  ASSUME NEW ws, Adds(ws), NEW v \in Writes, promise[v] # "none"
  PROVE  \A i \in DOMAIN ws : WriteOf(ws[i]) # v
BY DEF Adds

\* The queue, if the promise of an entry that stays is not settled.
LEMMA QueueDueKept ==
  ASSUME Shapes, Logged, LogGrows, SameHold, Numbers, QueueDue, NEW ws, Adds(ws),
         \A i \in DOMAIN writesQueue : promise'[WriteOf(writesQueue[i])] = "pending",
         \A w \in Writes : Untouched(w) /\ (InQueue(w) \/ promise[w] = "none") => Untouched(w)'
  PROVE  QueueDue'
<1> SUFFICES ASSUME NEW i \in DOMAIN writesQueue' PROVE (Due(writesQueue[i]) /\ Fresh(writesQueue[i]))'
  BY DEF QueueDue
<1>0. ws \in Seq(Entries) /\ writesQueue' = writesQueue \o ws
  BY DEF Adds
<1>1. PICK e \in Entries : e = writesQueue'[i] /\ Due(e)' /\ e.base = 0 /\ e.offset = 0 /\ Untouched(WriteOf(e))'
  <2>1. CASE i \in DOMAIN writesQueue /\ writesQueue'[i] = writesQueue[i]
    <3>1. PICK e \in Entries : e = writesQueue[i] /\ Due(e) /\ Fresh(e) /\ WriteOf(e) \in Writes
      BY <2>1, EntriesTyped DEF QueueDue
    <3>2. Due(e)'
      BY <2>1, <3>1, DueKept
    <3>3. PICK w \in Writes : w = WriteOf(e) /\ InQueue(w) /\ Untouched(w)
      BY <2>1, <3>1 DEF InQueue, Fresh
    <3>4. Untouched(w)'
      BY <3>3
    <3> QED
      BY <2>1, <3>1, <3>2, <3>3, <3>4 DEF Fresh, Untouched
  <2>2. ASSUME NEW j \in DOMAIN ws, writesQueue'[i] = ws[j]
        PROVE  \E e \in Entries : e = writesQueue'[i] /\ Due(e)' /\ e.base = 0 /\ e.offset = 0 /\ Untouched(WriteOf(e))'
    <3>1. PICK e \in Entries : e = ws[j]
      BY <1>0
    <3>2. PICK w \in Writes : w = WriteOf(e)
      BY WriteTypes
    <3>3. Untouched(w) /\ promise[w] = "none"
      BY <3>1, <3>2, NewDue DEF Adds
    <3>4. Untouched(w)'
      BY <3>3
    <3>5. Due(ws[j])' /\ e.base = 0 /\ e.offset = 0
      BY <3>1, NewDue
    <3>6. Due(e)'
      BY <3>1, <3>5 DEF Due
    <3> QED
      BY <2>2, <3>1, <3>2, <3>4, <3>5, <3>6 DEF Untouched
  <2> QED
    BY <1>0, <2>1, <2>2, QueueSplit
<1> QED
  BY <1>1 DEF Due, Fresh, Untouched

\* Deques may be made or dropped, those of open connections only after a reset.
DequesStand ==
  /\ \A f \in Fds : toWrite'[f] # None => \/ toWrite'[f] = <<>>
                                         \/ (toWrite'[f] = toWrite[f] /\ open'[f] = open[f])
  /\ \A c \in Conns : sock'[c].state = "open" /\ ~sock'[c].reset /\ peer'[c].fd \in Fds =>
       \/ toWrite[peer'[c].fd] = None \/ toWrite[peer'[c].fd] = <<>>
       \/ toWrite'[peer'[c].fd] = toWrite[peer'[c].fd]

\* A step that sends nothing: entries may join the queue.
Quietly(ws) ==
  /\ Adds(ws) /\ PromiseSame(ws) /\ SameBytes /\ DequesStand
  /\ \A i \in DOMAIN ws : ws[i].part # "body"

LEMMA QuietDeques ==
  ASSUME IInv, Logged, LogGrows, SameHold, DequesDue, NEW ws, Quietly(ws)
  PROVE  DequesDue'
<1>0. Shapes /\ NothingInherited
  BY DEF IInv
<1> SUFFICES ASSUME NEW f \in Fds, toWrite'[f] # None, toWrite'[f] # <<>>
             PROVE  /\ \A i \in DOMAIN toWrite'[f] : Due(toWrite[f][i])' /\ (i > 1 => Fresh(toWrite[f][i])')
                    /\ Begun(f, toWrite[f][1])'
  BY DEF DequesDue
<1>1. toWrite'[f] = toWrite[f] /\ open'[f] = open[f] /\ toWrite[f] # None /\ toWrite[f] # <<>>
  BY DEF Quietly, DequesStand
<1>2. toWrite[f] \in Seq(Entries) /\ open[f] \in Conns
  BY <1>0, <1>1 DEF Shapes, NothingInherited
<1>3. ASSUME NEW i \in DOMAIN toWrite[f]
      PROVE  Due(toWrite[f][i])' /\ (i > 1 => Fresh(toWrite[f][i])')
  <2>1. PICK e \in Entries : e = toWrite[f][i] /\ e = toWrite'[f][i] /\ Due(e) /\ (i > 1 => Fresh(e))
    BY <1>1, <1>2 DEF DequesDue
  <2>2. PICK w \in Writes : w = WriteOf(e)
    BY WriteTypes
  <2>3. promise[w] = "pending"
    BY <2>1, <2>2 DEF Due
  <2>4. promise'[w] = "pending"
    BY <2>3, Settling DEF Quietly, PromiseSame
  <2>5. Due(e)'
    BY <2>1, <2>2, <2>4, DueKept
  <2>6. i > 1 => Fresh(e)'
    BY <2>1 DEF Fresh, Untouched, Quietly, SameBytes
  <2> QED
    BY <2>1, <2>5, <2>6 DEF Due, Fresh, Untouched
<1>4. Begun(f, toWrite[f][1])'
  <2>1. PICK e : e = toWrite[f][1] /\ e = toWrite'[f][1] /\ Begun(f, e)
    BY <1>1 DEF DequesDue
  <2>2. PICK c \in Conns : c = open[f] /\ c = open'[f]
    BY <1>1, <1>2
  <2>3. PICK w : w = WriteOf(e)
    OBVIOUS
  <2>4. PICK k : k = e.base + e.offset
    OBVIOUS
  <2>5. Reached(c, w, k)
    BY <2>1, <2>2, <2>3, <2>4 DEF Begun
  <2>6. Reached(c, w, k)'
    BY <2>5, BytesSame DEF Quietly, SameBytes
  <2> QED
    BY <2>1, <2>2, <2>3, <2>4, <2>6 DEF Begun, Reached
<1> QED
  BY <1>1, <1>3, <1>4

\* A write that is kept in the queue or that has just joined it.
LEMMA QueueKeeps ==
  ASSUME Shapes, NEW ws, Adds(ws), NEW w, InQueue(w) \/ \E i \in DOMAIN ws : WriteOf(ws[i]) = w
  PROVE  InQueue(w)'
<1>1. ws \in Seq(Entries) /\ writesQueue' = writesQueue \o ws
  BY DEF Adds
<1>2. /\ \A i \in DOMAIN writesQueue : i \in DOMAIN writesQueue' /\ writesQueue'[i] = writesQueue[i]
      /\ \A i \in DOMAIN ws : /\ Len(writesQueue) + i \in DOMAIN writesQueue'
                              /\ writesQueue'[Len(writesQueue) + i] = ws[i]
  BY <1>1, QueueSplit
<1> QED
  BY <1>2 DEF InQueue

\* What is in a log now was before, or has just joined the queue.
LEMMA LogSplit ==
  ASSUME Logged, NEW ws, Adds(ws), NEW c \in Conns, NEW w \in Range(log'[c])
  PROVE  w \in Writes /\ (w \in Range(log[c]) \/ \E i \in DOMAIN ws : WriteOf(ws[i]) = w)
<1>1. log[c] \in Seq(Writes) /\ log'[c] \in Seq(Writes)
  BY DEF Logged, Adds
<1>2. PICK j \in DOMAIN log'[c] : log'[c][j] = w
  BY DEF Range
<1>3. w \in Writes
  BY <1>1, <1>2
<1>4. CASE \A i \in DOMAIN ws : ws[i].conn # c
  BY <1>3, <1>4 DEF Adds
<1>5. ASSUME NEW i \in DOMAIN ws, ws[i].conn = c
      PROVE  w \in Range(log[c]) \/ \E x \in DOMAIN ws : WriteOf(ws[x]) = w
  <2>1. log'[c] = Append(log[c], WriteOf(ws[i]))
    BY <1>5 DEF Adds
  <2>2. (j \in DOMAIN log[c] /\ log'[c][j] = log[c][j]) \/ log'[c][j] = WriteOf(ws[i])
    BY <1>1, <1>2, <2>1
  <2> QED
    BY <1>2, <2>2 DEF Range
<1> QED
  BY <1>3, <1>4, <1>5

LEMMA QuietAccounts ==
  ASSUME IInv, Logged, RejectedStays, SameHold, ResetStays, Accounted, NEW ws, Quietly(ws)
  PROVE  Accounted'
<1>0. Shapes
  BY DEF IInv
<1> SUFFICES ASSUME NEW c \in Conns, sock'[c].state = "open", ~sock'[c].reset, NEW w \in Range(log'[c])
             PROVE  Whole(c, w)' \/ promise'[w] = "rejected" \/ InQueue(w)' \/ InDeque(peer[c].fd, w)'
  BY DEF Accounted
<1>1. w \in Writes /\ (w \in Range(log[c]) \/ \E i \in DOMAIN ws : WriteOf(ws[i]) = w)
  BY LogSplit DEF Quietly
<1>2. CASE \E i \in DOMAIN ws : WriteOf(ws[i]) = w
  BY <1>0, <1>2, QueueKeeps DEF Quietly
<1>3. CASE w \in Range(log[c])
  <2>1. Past(c)
    BY <1>3 DEF Logged, Range
  <2>2. sock[c].state = "open" /\ ~sock[c].reset /\ peer'[c].fd = peer[c].fd
    BY <2>1 DEF SameHold, ResetStays
  <2>3. Whole(c, w) \/ promise[w] = "rejected" \/ InQueue(w) \/ InDeque(peer[c].fd, w)
    BY <1>3, <2>2 DEF Accounted
  <2>4. Whole(c, w) => Whole(c, w)'
    BY BytesSame DEF Quietly, SameBytes
  <2>5. promise[w] = "rejected" => promise'[w] = "rejected"
    BY <1>1 DEF RejectedStays
  <2>6. InQueue(w) => InQueue(w)'
    BY <1>0, QueueKeeps DEF Quietly
  <2>7. InDeque(peer[c].fd, w) => InDeque(peer[c].fd, w)'
    <3>1. PICK f : f = peer[c].fd /\ f = peer'[c].fd
      BY <2>2
    <3>2. ASSUME InDeque(f, w) PROVE InDeque(f, w)'
      BY <3>1, <3>2 DEF Quietly, DequesStand, InDeque
    <3> QED
      BY <3>1, <3>2 DEF InDeque
  <2> QED
    BY <2>3, <2>4, <2>5, <2>6, <2>7
<1> QED
  BY <1>1, <1>2, <1>3

LEMMA QuietKeeps ==
  ASSUME IInv, IInv', Traffic, Frame, NEW ws, Quietly(ws), Apps'
  PROVE  Traffic'
<1>0. Shapes /\ Shapes'
  BY DEF IInv
<1>1. /\ Logged /\ QueueDue /\ DequesDue /\ Orders /\ Accounted /\ BodyLast /\ Wire
      /\ Adds(ws) /\ PromiseSame(ws) /\ SameBytes /\ PastStays /\ SameHold /\ ResetStays
  BY DEF Traffic, Frame, Quietly
<1>2. \A i \in DOMAIN ws : promise[WriteOf(ws[i])] = "none" /\ promise'[WriteOf(ws[i])] = "pending"
  BY <1>1 DEF Adds
<1>3. /\ Promised /\ RejectedStays
      /\ \A w \in Writes : promise'[w] = "fulfilled" => promise[w] = "fulfilled"
      /\ \A w \in Writes : promise[w] # "none" => promise'[w] = promise[w]
  BY <1>1, <1>2 DEF PromiseSame, Promised, RejectedStays
<1>4. Logged' /\ LogGrows
  BY <1>1, <1>3, LogKept
<1>5. Wire'
  BY <1>1, <1>3, <1>4, WireQuiet
<1>6. QueueDue'
  <2>1. \A w \in Writes : Untouched(w) => Untouched(w)'
    BY <1>1 DEF SameBytes, Untouched
  <2>2. \A i \in DOMAIN writesQueue : promise'[WriteOf(writesQueue[i])] = "pending"
    BY <1>0, <1>1, <1>3, EntriesTyped DEF QueueDue, Due
  <2> QED
    BY <1>0, <1>1, <1>4, <2>1, <2>2, QueueDueKept DEF Wire
<1>7. DequesDue'
  BY <1>1, <1>4, QuietDeques
<1>8. Orders'
  <2>1. ASSUME NEW g \in Fds, toWrite'[g] # None, toWrite'[g] # <<>> PROVE Shrunk(g)
    <3>1. toWrite'[g] = toWrite[g] /\ toWrite[g] # None
      BY <2>1 DEF Quietly, DequesStand
    <3>2. \A i \in DOMAIN toWrite[g] : i + 0 = i
      BY <1>0, <3>1, EntriesTyped
    <3> QED
      BY <3>1, <3>2 DEF Shrunk
  <2> QED
    BY <1>0, <1>1, <1>4, <2>1, OrdersKept
<1>9. Accounted'
  BY <1>1, <1>3, QuietAccounts
<1>10. BodyLast'
  <2> SUFFICES ASSUME NEW c \in Conns, NEW n \in 0 .. NRequests, promise'[<<c, n, "body">>] # "none"
               PROVE  promise'[<<c, n, "head">>] = "fulfilled"
    BY DEF BodyLast
  <2>1. PICK b \in Writes : b = <<c, n, "body">>
    BY DEF Writes, Parts
  <2>2. PICK h \in Writes : h = <<c, n, "head">>
    BY DEF Writes, Parts
  <2>3. \A i \in DOMAIN ws : WriteOf(ws[i]) # b
    BY <2>1 DEF Quietly, WriteOf
  <2>4. promise[b] # "none"
    BY <1>1, <2>1, <2>3 DEF PromiseSame
  <2>5. promise[h] = "fulfilled"
    BY <1>1, <2>1, <2>2, <2>4 DEF BodyLast
  <2> QED
    BY <1>3, <2>2, <2>5
<1> QED
  BY <1>4, <1>5, <1>6, <1>7, <1>8, <1>9, <1>10 DEF Traffic

-----------------------------------------------------------------------------
\* A step of asyncWriteImpl on the first entry e of the deque of f: k bytes more of it are out,
\* its promise is what fate says, and a body may follow a head.
Headly(f, e, k, fate, ws) ==
  /\ f \in Fds /\ toWrite[f] # None /\ toWrite[f] # <<>> /\ e = toWrite[f][1]
  /\ k \in Nat /\ e.base + e.offset + k <= Size
  /\ Grows(open[f], WriteOf(e), e.base + e.offset, k)
  /\ k > 0 => ~sock[open[f]].reset
  /\ Adds(ws)
  /\ \A i \in DOMAIN ws : /\ ws[i].part = "body" /\ ws[i].conn = e.conn /\ ws[i].n = e.n
                          /\ e.part = "head" /\ fate = "fulfilled"
  /\ fate \in {"pending", "fulfilled", "rejected"} /\ promise'[WriteOf(e)] = fate
  /\ fate = "fulfilled" => e.base + e.offset + k = Size
  /\ \A w \in Writes : w # WriteOf(e) /\ (\A i \in DOMAIN ws : WriteOf(ws[i]) # w) => promise'[w] = promise[w]
  /\ app' = app
  /\ \A g \in Fds : g # f => toWrite'[g] = toWrite[g] /\ open'[g] = open[g]
  /\ \/ toWrite'[f] = None /\ fate # "pending" /\ ((Len(toWrite[f]) = 1 /\ open'[f] = open[f]) \/ open'[f] = None)
     \/ toWrite'[f] = Tail(toWrite[f]) /\ fate # "pending" /\ open'[f] = open[f]
     \/ /\ fate = "pending" /\ open'[f] = open[f] /\ toWrite'[f] # None
        /\ Len(toWrite'[f]) = Len(toWrite[f])
        /\ \A i \in DOMAIN toWrite[f] : i > 1 => toWrite'[f][i] = toWrite[f][i]
        /\ WriteOf(toWrite'[f][1]) = WriteOf(e) /\ toWrite'[f][1].fd = e.fd
        /\ toWrite'[f][1].base + toWrite'[f][1].size = Size
        /\ toWrite'[f][1].base + toWrite'[f][1].offset = e.base + e.offset + k

LEMMA Irreflexive ==
  ASSUME Logged, NEW v \in Writes, NEW w \in Writes, v[1] = w[1], Before(v, w)
  PROVE  v # w /\ ~Before(w, v)
<1>1. PICK c \in Conns : c = v[1] /\ c = w[1]
  BY DEF Writes
<1>2. PICK i, j \in DOMAIN log[c] : i < j /\ log[c][i] = v /\ log[c][j] = w
  BY <1>1 DEF Before
<1>3. \A x, y \in DOMAIN log[c] : log[c][x] = log[c][y] => x = y
  BY DEF Logged
<1>4. DOMAIN log[c] \subseteq Int
  <2>1. log[c] \in Seq(Writes)
    BY DEF Logged
  <2> QED
    BY <2>1
<1>5. v # w
  BY <1>2, <1>3, <1>4
<1>6. ASSUME Before(w, v) PROVE FALSE
  <2>1. PICK a, b \in DOMAIN log[c] : a < b /\ log[c][a] = w /\ log[c][b] = v
    BY <1>1, <1>6 DEF Before
  <2>2. a = j /\ b = i
    BY <1>2, <1>3, <2>1
  <2> QED
    BY <1>2, <1>4, <2>1, <2>2
<1> QED
  BY <1>5, <1>6

\* No other entry has the write of the first entry of a deque.
LEMMA HeadAlone ==
  ASSUME Shapes, Logged, Orders, NEW f \in Fds, toWrite[f] # None, toWrite[f] # <<>>,
         NEW w, w = WriteOf(toWrite[f][1])
  PROVE  /\ w \in Writes
         /\ \A i \in DOMAIN toWrite[f] : i > 1 => WriteOf(toWrite[f][i]) # w
         /\ \A g \in Fds : g # f /\ toWrite[g] # None =>
              \A i \in DOMAIN toWrite[g] : WriteOf(toWrite[g][i]) # w
         /\ \A i \in DOMAIN writesQueue : WriteOf(writesQueue[i]) # w
<1>1. toWrite[f] \in Seq(Entries) /\ 1 \in DOMAIN toWrite[f]
  BY DEF Shapes
<1>2. w \in Writes
  BY <1>1, EntriesTyped
<1>3. ~Before(w, w)
  BY <1>2, Irreflexive
<1>4. \A i \in DOMAIN toWrite[f] : i > 1 => WriteOf(toWrite[f][i]) # w
  BY <1>1, <1>3, EntriesTyped DEF Orders, DequeOrder
<1>5. \A g \in Fds : g # f /\ toWrite[g] # None =>
        \A i \in DOMAIN toWrite[g] : WriteOf(toWrite[g][i]) # w
  BY <1>1 DEF Orders, DequesApart
<1>6. \A i \in DOMAIN writesQueue : WriteOf(writesQueue[i]) # w
  BY <1>1, <1>3 DEF Orders, DequeOrder
<1> QED
  BY <1>2, <1>4, <1>5, <1>6

\* Whatever was written before the first entry of a deque is done with.
LEMMA HeadTurn ==
  ASSUME IInv, Logged, DequesDue, Orders, Accounted, NEW f \in Fds, toWrite[f] # None, toWrite[f] # <<>>,
         NEW w, w = WriteOf(toWrite[f][1]), ~sock[open[f]].reset
  PROVE  Turn(open[f], w)
<1>0. Shapes /\ NothingInherited /\ Owned
  BY DEF IInv
<1>1. PICK c \in Conns : c = open[f]
  BY <1>0 DEF Shapes, NothingInherited
<1>2. peer[c].fd = f /\ sock[c].state = "open" /\ ~sock[c].reset
  BY <1>0, <1>1, NumberTypes DEF Owned
<1> SUFFICES ASSUME NEW i \in DOMAIN log[c], NEW j \in DOMAIN log[c], i < j, log[c][j] = w
             PROVE  Whole(c, log[c][i]) \/ promise[log[c][i]] = "rejected"
  BY <1>1 DEF Turn
<1>3. log[c] \in Seq(Writes)
  BY DEF Logged
<1>4. PICK v \in Writes : v = log[c][i] /\ v[1] = c
  BY <1>3 DEF Logged
<1>5. w \in Writes /\ w[1] = c
  BY <1>3 DEF Logged
<1>6. Before(v, w)
  BY <1>4, <1>5 DEF Before
<1>7. v # w /\ ~Before(w, v)
  BY <1>4, <1>5, <1>6, Irreflexive
<1>8. 1 \in DOMAIN toWrite[f] /\ \A i1 \in DOMAIN toWrite[f] : i1 = 1 \/ i1 > 1
  <2>1. toWrite[f] \in Seq(Entries)
    BY <1>0 DEF Shapes
  <2> QED
    BY <2>1
<1>9. ~InQueue(v)
  BY <1>7, <1>8 DEF InQueue, Orders, DequeOrder
<1>10. ~InDeque(f, v)
  BY <1>7, <1>8 DEF InDeque, Orders, DequeOrder
<1>11. v \in Range(log[c])
  BY <1>4 DEF Range
<1> QED
  BY <1>2, <1>4, <1>9, <1>10, <1>11 DEF Accounted

LEMMA UntouchedOthers ==
  ASSUME Shapes, Shapes', NEW c \in Conns, NEW w, NEW m \in Nat, NEW k \in Nat, Grows(c, w, m, k),
         NEW v, v # w, Untouched(v)
  PROVE  Untouched(v)'
<1>1. PICK s : s = sock[c].sent
  OBVIOUS
<1>2. PICK t : t = sock'[c].sent
  OBVIOUS
<1>3. Longer(s, t, w, m, k)
  BY <1>1, <1>2, GrowsShape
<1>4. \A x \in DOMAIN t : (x \in DOMAIN s /\ t[x] = s[x]) \/ t[x][1] = w
  BY <1>3 DEF Longer
<1>5. \A x \in DOMAIN t : t[x][1] # v
  BY <1>1, <1>4 DEF Untouched
<1>6. \A d \in Conns : d # c => sock'[d].sent = sock[d].sent
  BY DEF Grows
<1> QED
  BY <1>2, <1>5, <1>6 DEF Untouched

LEMMA UntouchedReached ==
  ASSUME NEW c \in Conns, NEW v, Untouched(v)'
  PROVE  Reached(c, v, 0)'
<1>1. \A x \in DOMAIN sock'[c].sent : sock'[c].sent[x][1] # v
  BY DEF Untouched
<1>2. \A j \in 1 .. 0 : FALSE
  OBVIOUS
<1>3. Run(sock'[c].sent, v, 0)
  BY <1>1, <1>2 DEF Run
<1> QED
  BY <1>3, ReachedIs

LEMMA AppsKept ==
  ASSUME IInv, Apps, Frame, app' \subseteq app,
         \A w \in Writes : promise[w] = "none" /\ (\E a \in app' : w = <<a.conn, a.n, "raw">>) => promise'[w] = "none"
  PROVE  Apps'
<1>1. \A a \in app : a.conn \in Conns /\ <<a.conn, a.n, "raw">> \in Writes
  BY NumberTypes DEF IInv, Shapes, Answers, Writes, Parts
<1> QED
  BY <1>1 DEF Apps, Frame, PastStays, SameHold

\* What such a step is about, and what it does to the promises.
LEMMA HeadFacts ==
  ASSUME IInv, Traffic, NEW f, NEW e, NEW k, NEW fate, NEW ws, Headly(f, e, k, fate, ws),
         NEW w, w = WriteOf(e), NEW m, m = e.base + e.offset
  PROVE  /\ e \in Entries /\ w \in Writes /\ m \in Nat /\ open[f] \in Conns
         /\ 1 \in DOMAIN toWrite[f] /\ toWrite[f] \in Seq(Entries)
         /\ promise[w] = "pending" /\ promise'[w] = fate /\ w \in Range(log[e.conn])
         /\ Reached(open[f], w, m)
         /\ \A v \in Writes : v # w /\ promise[v] # "none" => promise'[v] = promise[v]
         /\ Promised /\ RejectedStays
         /\ \A v \in Writes : promise'[v] = "fulfilled" => promise[v] = "fulfilled" \/ (v = w /\ fate = "fulfilled")
<1>1. Shapes /\ NothingInherited /\ DequesDue
  BY DEF IInv, Traffic
<1>2. /\ f \in Fds /\ toWrite[f] # None /\ toWrite[f] # <<>> /\ e = toWrite[f][1] /\ Adds(ws)
      /\ fate \in {"pending", "fulfilled", "rejected"} /\ promise'[w] = fate
      /\ \A v \in Writes : v # w /\ (\A i \in DOMAIN ws : WriteOf(ws[i]) # v) => promise'[v] = promise[v]
  BY DEF Headly
<1>3. toWrite[f] \in Seq(Entries) /\ 1 \in DOMAIN toWrite[f] /\ open[f] \in Conns
  BY <1>1, <1>2 DEF Shapes, NothingInherited
<1>4. e \in Entries /\ w \in Writes
  BY <1>2, <1>3, WriteTypes
<1>5. m \in Nat
  BY <1>4 DEF Entries
<1>6. promise[w] = "pending" /\ w \in Range(log[e.conn]) /\ Reached(open[f], w, m)
  BY <1>1, <1>2, <1>3 DEF DequesDue, Due, Begun
<1>7. ASSUME NEW v \in Writes, promise[v] # "none", v # w
      PROVE  promise'[v] = promise[v]
  BY <1>2, <1>7, Settling
<1>8. ASSUME NEW v \in Writes, promise'[v] = "none" PROVE promise[v] = "none"
  <2>1. \A i \in DOMAIN ws : WriteOf(ws[i]) # v
    BY <1>2, <1>8 DEF Adds
  <2> QED
    BY <1>2, <1>8, <2>1
<1>9. ASSUME NEW v \in Writes, promise'[v] = "fulfilled", v # w PROVE promise[v] = "fulfilled"
  <2>1. \A i \in DOMAIN ws : WriteOf(ws[i]) # v
    BY <1>2, <1>9 DEF Adds
  <2> QED
    BY <1>2, <1>9, <2>1
<1>10. Promised /\ RejectedStays
  BY <1>6, <1>7, <1>8 DEF Promised, RejectedStays
<1>11. \A v \in Writes : promise'[v] = "fulfilled" => promise[v] = "fulfilled" \/ (v = w /\ fate = "fulfilled")
  BY <1>2, <1>9
<1> QED
  BY <1>2, <1>3, <1>4, <1>5, <1>6, <1>7, <1>10, <1>11

\* The first entry of a deque that stays was begun as far as it says.
LEMMA HeadDeques ==
  ASSUME IInv, IInv', Traffic, Frame, LogGrows,
         NEW f, NEW e, NEW k, NEW fate, NEW ws, Headly(f, e, k, fate, ws)
  PROVE  DequesDue'
<1>0. /\ Shapes /\ Shapes' /\ NothingInherited /\ NothingInherited'
      /\ Logged /\ DequesDue /\ Orders /\ SameHold
  BY DEF IInv, Traffic, Frame
<1>1. PICK w : w = WriteOf(e)
  OBVIOUS
<1>2. PICK m : m = e.base + e.offset
  OBVIOUS
<1>3. PICK c : c = open[f]
  OBVIOUS
<1>4. /\ e \in Entries /\ w \in Writes /\ m \in Nat /\ c \in Conns
      /\ toWrite[f] \in Seq(Entries) /\ promise[w] = "pending" /\ promise'[w] = fate
      /\ Reached(c, w, m)
      /\ \A v \in Writes : v # w /\ promise[v] # "none" => promise'[v] = promise[v]
  BY <1>1, <1>2, <1>3, HeadFacts
<1>5. /\ f \in Fds /\ toWrite[f] # None /\ toWrite[f] # <<>> /\ e = toWrite[f][1] /\ k \in Nat
      /\ Grows(c, w, m, k)
      /\ \A g \in Fds : g # f => toWrite'[g] = toWrite[g] /\ open'[g] = open[g]
  BY <1>1, <1>2, <1>3 DEF Headly
<1>6. ASSUME NEW d \in Entries, Due(d), WriteOf(d) # w, NEW fresh \in BOOLEAN, fresh => Fresh(d)
      PROVE  Due(d)' /\ (fresh => Fresh(d)')
  <2>1. PICK v \in Writes : v = WriteOf(d)
    BY WriteTypes
  <2>2. promise[v] = "pending"
    BY <1>6, <2>1 DEF Due
  <2>3. promise'[v] = "pending"
    BY <1>4, <1>6, <2>1, <2>2
  <2>4. Due(d)'
    BY <1>0, <1>6, <2>1, <2>3, DueKept
  <2>5. Untouched(v) => Untouched(v)'
    BY <1>0, <1>4, <1>5, <1>6, <2>1, UntouchedOthers
  <2> QED
    BY <1>6, <2>1, <2>4, <2>5 DEF Fresh, Untouched
<1>7. /\ \A i \in DOMAIN toWrite[f] : i > 1 => WriteOf(toWrite[f][i]) # w
      /\ \A g \in Fds : g # f /\ toWrite[g] # None => \A i \in DOMAIN toWrite[g] : WriteOf(toWrite[g][i]) # w
  BY <1>0, <1>1, <1>5, HeadAlone
<1> SUFFICES ASSUME NEW g \in Fds, toWrite'[g] # None
             PROVE  /\ \A i \in DOMAIN toWrite'[g] : Due(toWrite[g][i])' /\ (i > 1 => Fresh(toWrite[g][i])')
                    /\ toWrite'[g] # <<>> => Begun(g, toWrite[g][1])'
  BY DEF DequesDue
<1>8. CASE g # f
  <2>1. toWrite'[g] = toWrite[g] /\ open'[g] = open[g] /\ toWrite[g] # None
    BY <1>5, <1>8
  <2>2. ASSUME NEW i \in DOMAIN toWrite'[g]
        PROVE  Due(toWrite[g][i])' /\ (i > 1 => Fresh(toWrite[g][i])')
    <3>1. PICK d \in Entries : d = toWrite[g][i] /\ d = toWrite'[g][i] /\ Due(d) /\ (i > 1 => Fresh(d)) /\ WriteOf(d) # w
      BY <1>0, <1>7, <1>8, <2>1, EntriesTyped DEF DequesDue
    <3>2. Due(d)' /\ (i > 1 => Fresh(d)')
      BY <1>6, <3>1
    <3> QED
      BY <3>1, <3>2 DEF Due, Fresh, Untouched
  <2>3. ASSUME toWrite'[g] # <<>> PROVE Begun(g, toWrite[g][1])'
    <3>1. PICK d : d = toWrite[g][1] /\ d = toWrite'[g][1]
      BY <2>1
    <3>2. PICK v : v = WriteOf(d)
      OBVIOUS
    <3>3. PICK n : n = d.base + d.offset
      OBVIOUS
    <3>4. PICK b \in Conns : b = open[g] /\ b = open'[g]
      BY <1>0, <2>1 DEF NothingInherited, Shapes
    <3>5. 1 \in DOMAIN toWrite[g]
      BY <1>0, <2>1, <2>3 DEF Shapes
    <3>6. v # w /\ Reached(b, v, n)
      BY <1>0, <1>7, <1>8, <2>1, <2>3, <3>1, <3>2, <3>3, <3>4, <3>5 DEF DequesDue, Begun
    <3>7. Reached(b, v, n)'
      BY <1>0, <1>4, <1>5, <3>6, ReachedOthers
    <3> QED
      BY <3>1, <3>2, <3>3, <3>4, <3>7 DEF Begun, Reached
  <2> QED
    BY <2>2, <2>3
<1>9. CASE g = f /\ toWrite'[f] = Tail(toWrite[f]) /\ open'[f] = open[f]
  <2>1. PICK q \in Seq(Entries) : q = toWrite'[f]
    <3>1. Tail(toWrite[f]) \in Seq(Entries)
      BY <1>4, <1>5
    <3> QED
      BY <1>9, <3>1
  <2>2. \A i \in DOMAIN q : i \in Nat /\ i >= 1 /\ i + 1 \in DOMAIN toWrite[f] /\ i + 1 > 1 /\ q[i] = toWrite[f][i + 1]
    BY <1>4, <1>5, <1>9, <2>1
  <2>3. \A i \in DOMAIN q : q[i] \in Entries /\ Due(q[i]) /\ Fresh(q[i]) /\ WriteOf(q[i]) # w
    BY <1>0, <1>5, <1>7, <2>1, <2>2 DEF DequesDue
  <2>4. ASSUME NEW i \in DOMAIN q PROVE Due(q[i])' /\ Fresh(q[i])'
    <3>1. PICK d \in Entries : d = q[i]
      BY <2>3
    <3>2. Due(d) /\ Fresh(d) /\ WriteOf(d) # w
      BY <2>3, <3>1
    <3>3. Due(d)' /\ Fresh(d)'
      BY <1>6, <3>2
    <3> QED
      BY <3>1, <3>3 DEF Due, Fresh, Untouched
  <2>5. ASSUME q # <<>> PROVE Begun(f, toWrite[f][1])'
    <3>1. PICK d \in Entries : d = q[1] /\ d = toWrite'[f][1] /\ 1 \in DOMAIN q
      BY <2>1, <2>5
    <3>2. Fresh(d)'
      BY <2>4, <3>1
    <3>3. PICK v : v = WriteOf(d)
      OBVIOUS
    <3>4. d.base = 0 /\ d.offset = 0 /\ Untouched(v)'
      BY <3>2, <3>3 DEF Fresh, Untouched
    <3>5. d.base + d.offset = 0
      BY <3>4
    <3>6. Reached(c, v, 0)'
      BY <1>4, <3>4, UntouchedReached
    <3>7. PICK z : z = 0 /\ z = d.base + d.offset /\ Reached(c, v, z)'
      BY <3>5, <3>6
    <3>8. open'[f] = c /\ WriteOf(toWrite'[f][1]) = v /\ z = toWrite'[f][1].base + toWrite'[f][1].offset
      BY <1>3, <1>9, <3>1, <3>3, <3>7
    <3> QED
      BY <3>7, <3>8 DEF Begun, Reached
  <2> QED
    BY <1>9, <2>1, <2>4, <2>5 DEF Due, Fresh, Untouched
<1>10. CASE g = f /\ toWrite'[f] # Tail(toWrite[f])
  <2>1. PICK q : q = toWrite'[f]
    OBVIOUS
  <2>2. /\ fate = "pending" /\ open'[f] = open[f] /\ q # None
        /\ Len(q) = Len(toWrite[f])
        /\ \A i \in DOMAIN toWrite[f] : i > 1 => q[i] = toWrite[f][i]
        /\ WriteOf(q[1]) = w /\ q[1].fd = e.fd
        /\ q[1].base + q[1].size = Size
        /\ q[1].base + q[1].offset = m + k
    BY <1>1, <1>2, <1>10, <2>1 DEF Headly
  <2>3. q \in Seq(Entries) /\ DOMAIN q = DOMAIN toWrite[f] /\ 1 \in DOMAIN q /\ \A i \in DOMAIN q : i = 1 \/ i > 1
    <3>1. q \in Seq(Entries)
      BY <1>0, <1>5, <2>1, <2>2 DEF Shapes
    <3> QED
      BY <1>4, <1>5, <2>2, <3>1
  <2>4. ASSUME NEW i \in DOMAIN q, i > 1 PROVE Due(q[i])' /\ Fresh(q[i])'
    <3>1. PICK d \in Entries : d = q[i] /\ d = toWrite[f][i] /\ Due(d) /\ Fresh(d) /\ WriteOf(d) # w
      BY <1>0, <1>5, <1>7, <2>2, <2>3, <2>4 DEF DequesDue
    <3>2. Due(d)' /\ Fresh(d)'
      BY <1>6, <3>1
    <3> QED
      BY <3>1, <3>2 DEF Due, Fresh, Untouched
  <2>5. PICK d \in Entries : d = q[1]
    BY <2>3
  <2>6. Due(d)'
    <3>1. Due(e)
      BY <1>0, <1>4, <1>5 DEF DequesDue
    <3>2. Due(e)'
      BY <1>0, <1>1, <1>4, <2>2, <3>1, DueKept
    <3>3. d.conn = e.conn
      BY <1>1, <2>2, <2>5 DEF WriteOf
    <3> QED
      BY <1>1, <2>2, <2>5, <3>2, <3>3 DEF Due
  <2>7. Reached(c, w, m + k)'
    BY <1>0, <1>4, <1>5, ReachedGrows
  <2>8. Begun(f, toWrite[f][1])'
    <3>1. PICK z : z = m + k /\ z = q[1].base + q[1].offset /\ Reached(c, w, z)'
      BY <2>2, <2>7
    <3> QED
      BY <1>3, <2>1, <2>2, <3>1 DEF Begun, Reached
  <2>9. \A i \in DOMAIN q : Due(q[i])' /\ (i > 1 => Fresh(q[i])')
    BY <2>3, <2>4, <2>5, <2>6 DEF Due
  <2> QED
    BY <1>10, <2>1, <2>8, <2>9 DEF Due, Fresh, Untouched
<1>11. g = f /\ toWrite'[f] # None /\ toWrite'[f] = Tail(toWrite[f]) => open'[f] = open[f]
  BY NoneAssumption, <1>4 DEF Headly
<1> QED
  BY <1>8, <1>9, <1>10, <1>11

\* The first entry of a deque goes only when its write is complete or rejected.
LEMMA HeadAccounts ==
  ASSUME IInv, IInv', Traffic, Frame, NEW f, NEW e, NEW k, NEW fate, NEW ws, Headly(f, e, k, fate, ws)
  PROVE  Accounted'
<1>0. Shapes /\ Shapes' /\ Owned' /\ Logged /\ Accounted /\ SameHold /\ ResetStays
  BY DEF IInv, Traffic, Frame
<1>1. PICK w : w = WriteOf(e)
  OBVIOUS
<1>2. PICK m : m = e.base + e.offset
  OBVIOUS
<1>3. PICK c : c = open[f]
  OBVIOUS
<1>4. /\ e \in Entries /\ w \in Writes /\ m \in Nat /\ c \in Conns /\ 1 \in DOMAIN toWrite[f]
      /\ toWrite[f] \in Seq(Entries) /\ promise'[w] = fate /\ RejectedStays
      /\ Reached(c, w, m)
  BY <1>1, <1>2, <1>3, HeadFacts
<1>5. /\ f \in Fds /\ toWrite[f] # None /\ toWrite[f] # <<>> /\ e = toWrite[f][1] /\ k \in Nat
      /\ Grows(c, w, m, k) /\ Adds(ws)
      /\ \A g \in Fds : g # f => toWrite'[g] = toWrite[g] /\ open'[g] = open[g]
      /\ fate = "fulfilled" => m + k = Size
      /\ fate \in {"pending", "fulfilled", "rejected"}
  BY <1>1, <1>2, <1>3 DEF Headly
<1> SUFFICES ASSUME NEW d \in Conns, sock'[d].state = "open", ~sock'[d].reset, NEW v \in Range(log'[d])
             PROVE  Whole(d, v)' \/ promise'[v] = "rejected" \/ InQueue(v)' \/ InDeque(peer[d].fd, v)'
  BY DEF Accounted
<1>6. v \in Writes /\ (v \in Range(log[d]) \/ \E i \in DOMAIN ws : WriteOf(ws[i]) = v)
  BY <1>0, <1>5, LogSplit
<1>7. CASE \E i \in DOMAIN ws : WriteOf(ws[i]) = v
  BY <1>0, <1>5, <1>7, QueueKeeps
<1>8. CASE v \in Range(log[d])
  <2>1. Past(d)
    BY <1>0, <1>8 DEF Logged, Range
  <2>2. PICK g : g = peer[d].fd /\ g = peer'[d].fd /\ sock[d].state = "open" /\ ~sock[d].reset
    BY <1>0, <2>1 DEF SameHold, ResetStays
  <2>3. open'[g] = d
    BY <1>0, <2>2 DEF Owned
  <2>4. Whole(d, v) \/ promise[v] = "rejected" \/ InQueue(v) \/ InDeque(g, v)
    BY <1>0, <1>8, <2>2 DEF Accounted
  <2>5. Whole(d, v) => Whole(d, v)'
    BY <1>0, <1>4, <1>5, WholeStays
  <2>6. promise[v] = "rejected" => promise'[v] = "rejected"
    BY <1>4, <1>6 DEF RejectedStays
  <2>7. InQueue(v) => InQueue(v)'
    BY <1>0, <1>5, QueueKeeps
  <2>8. ASSUME InDeque(g, v), g # f PROVE InDeque(g, v)'
    BY <1>5, <2>8 DEF InDeque
  <2>9. ASSUME InDeque(f, v), g = f PROVE InDeque(f, v)' \/ Whole(d, v)' \/ promise'[v] = "rejected"
    <3>1. PICK i \in DOMAIN toWrite[f] : WriteOf(toWrite[f][i]) = v
      BY <2>9 DEF InDeque
    <3>2. open'[f] # None
      BY <2>3, <2>9, NumberTypes
    <3>3. CASE fate = "pending"
      <4>1. /\ toWrite'[f] # None /\ Len(toWrite'[f]) = Len(toWrite[f])
            /\ \A j \in DOMAIN toWrite[f] : j > 1 => toWrite'[f][j] = toWrite[f][j]
            /\ WriteOf(toWrite'[f][1]) = w
        BY <1>1, <3>3 DEF Headly
      <4>2. toWrite'[f] \in Seq(Entries)
        BY <1>0, <1>5, <4>1 DEF Shapes
      <4>3. i \in DOMAIN toWrite'[f] /\ (i = 1 \/ i > 1)
        BY <1>4, <4>1, <4>2
      <4>4. WriteOf(toWrite'[f][i]) = v
        BY <1>1, <1>5, <3>1, <4>1, <4>3
      <4> QED
        BY <1>5, <4>1, <4>3, <4>4 DEF InDeque
    <3>4. CASE i = 1 /\ fate # "pending"
      <4>1. v = w
        BY <1>1, <1>5, <3>1, <3>4
      <4>2. CASE fate = "rejected"
        BY <1>4, <4>1, <4>2
      <4>3. CASE fate = "fulfilled"
        <5>1. Reached(c, w, m + k)'
          BY <1>0, <1>4, <1>5, ReachedGrows
        <5>2. Reached(c, w, Size)'
          BY <1>5, <4>3, <5>1
        <5>3. Whole(c, w)'
          BY <1>0, <1>4, <5>2, ReachedWhole
        <5>4. d = c
          BY <1>3, <2>3, <2>9, <3>2, <4>3 DEF Headly
        <5> QED
          BY <4>1, <5>3, <5>4
      <4> QED
        BY <1>5, <3>4, <4>2, <4>3
    <3>5. CASE i # 1 /\ fate # "pending"
      <4>1. toWrite'[f] = Tail(toWrite[f])
        BY <1>4, <3>1, <3>2, <3>5 DEF Headly
      <4>2. i - 1 \in DOMAIN Tail(toWrite[f]) /\ Tail(toWrite[f])[i - 1] = toWrite[f][i]
        BY <1>4, <1>5, <3>5
      <4>3. Tail(toWrite[f]) # None
        BY <1>4, <1>5, NoneAssumption
      <4> QED
        BY <1>5, <3>1, <4>1, <4>2, <4>3 DEF InDeque
    <3> QED
      BY <3>3, <3>4, <3>5
  <2>10. InDeque(g, v)' <=> InDeque(peer[d].fd, v)'
    BY <2>2 DEF InDeque
  <2> QED
    BY <2>4, <2>5, <2>6, <2>7, <2>8, <2>9, <2>10
<1> QED
  BY <1>6, <1>7, <1>8

LEMMA HeadKeeps ==
  ASSUME IInv, IInv', Traffic, Frame, NEW f, NEW e, NEW k, NEW fate, NEW ws, Headly(f, e, k, fate, ws)
  PROVE  Traffic'
<1>0. /\ Shapes /\ Shapes' /\ Logged /\ QueueDue /\ DequesDue /\ Orders /\ Accounted /\ Apps /\ BodyLast /\ Wire
      /\ PastStays /\ SameHold /\ Numbers
  BY DEF IInv, Traffic, Frame, Wire
<1>1. PICK w : w = WriteOf(e)
  OBVIOUS
<1>2. PICK m : m = e.base + e.offset
  OBVIOUS
<1>3. PICK c : c = open[f]
  OBVIOUS
<1>4. /\ e \in Entries /\ w \in Writes /\ m \in Nat /\ c \in Conns /\ 1 \in DOMAIN toWrite[f]
      /\ toWrite[f] \in Seq(Entries) /\ promise[w] = "pending" /\ promise'[w] = fate
      /\ Reached(c, w, m)
      /\ \A v \in Writes : v # w /\ promise[v] # "none" => promise'[v] = promise[v]
      /\ Promised /\ RejectedStays
      /\ \A v \in Writes : promise'[v] = "fulfilled" => promise[v] = "fulfilled" \/ (v = w /\ fate = "fulfilled")
  BY <1>1, <1>2, <1>3, HeadFacts
<1>5. /\ f \in Fds /\ toWrite[f] # None /\ toWrite[f] # <<>> /\ e = toWrite[f][1] /\ k \in Nat
      /\ Grows(c, w, m, k) /\ Adds(ws) /\ m + k <= Size
      /\ \A g \in Fds : g # f => toWrite'[g] = toWrite[g] /\ open'[g] = open[g]
      /\ fate = "fulfilled" => m + k = Size
      /\ k > 0 => ~sock[c].reset
      /\ app' = app
      /\ \A i \in DOMAIN ws : /\ ws[i].part = "body" /\ ws[i].conn = e.conn /\ ws[i].n = e.n
                              /\ e.part = "head" /\ fate = "fulfilled"
  BY <1>1, <1>2, <1>3 DEF Headly
<1>6. Logged' /\ LogGrows
  BY <1>0, <1>4, <1>5, LogKept
<1>7. Wire'
  <2>1. k > 0 => Turn(c, w)
    BY <1>0, <1>1, <1>3, <1>5, HeadTurn
  <2>2. \A v \in Writes : promise'[v] = "fulfilled" => promise[v] = "fulfilled" \/ (v = w /\ m + k = Size)
    BY <1>4, <1>5
  <2> QED
    BY <1>0, <1>4, <1>5, <1>6, <2>1, <2>2, WireHead
<1>8. QueueDue'
  <2>1. \A i \in DOMAIN writesQueue : WriteOf(writesQueue[i]) # w
    BY <1>0, <1>1, <1>5, HeadAlone
  <2>2. \A i \in DOMAIN writesQueue : promise'[WriteOf(writesQueue[i])] = "pending"
    <3> SUFFICES ASSUME NEW i \in DOMAIN writesQueue PROVE promise'[WriteOf(writesQueue[i])] = "pending"
      OBVIOUS
    <3>1. PICK v \in Writes : v = WriteOf(writesQueue[i])
      BY <1>0, EntriesTyped
    <3>2. promise[v] = "pending" /\ v # w
      BY <1>0, <2>1, <3>1 DEF QueueDue, Due
    <3> QED
      BY <1>4, <3>1, <3>2
  <2>3. \A v \in Writes : InQueue(v) \/ promise[v] = "none" => v # w
    BY <1>4, <2>1 DEF InQueue
  <2>4. \A v \in Writes : Untouched(v) /\ (InQueue(v) \/ promise[v] = "none") => Untouched(v)'
    BY <1>0, <1>4, <1>5, <2>3, UntouchedOthers
  <2> QED
    BY <1>0, <1>5, <1>6, <2>2, <2>4, QueueDueKept
<1>9. DequesDue' /\ Accounted'
  BY <1>6, HeadDeques, HeadAccounts
<1>10. Orders'
  <2> SUFFICES ASSUME NEW g \in Fds, toWrite'[g] # None, toWrite'[g] # <<>> PROVE Shrunk(g)
    BY <1>0, <1>5, <1>6, OrdersKept
  <2>1. CASE g # f
    <3>1. toWrite'[g] = toWrite[g] /\ toWrite[g] # None
      BY <1>5, <2>1
    <3>2. \A i \in DOMAIN toWrite[g] : i + 0 = i
      BY <1>0, <3>1, EntriesTyped
    <3> QED
      BY <3>1, <3>2 DEF Shrunk
  <2>2. CASE g = f /\ toWrite'[f] = Tail(toWrite[f])
    <3>1. \A i \in DOMAIN Tail(toWrite[f]) : i + 1 \in DOMAIN toWrite[f] /\ Tail(toWrite[f])[i] = toWrite[f][i + 1]
      BY <1>4, <1>5
    <3> QED
      BY <1>5, <2>2, <3>1 DEF Shrunk
  <2>3. CASE g = f /\ toWrite'[f] # Tail(toWrite[f])
    <3>1. /\ toWrite'[f] # None /\ Len(toWrite'[f]) = Len(toWrite[f])
          /\ \A j \in DOMAIN toWrite[f] : j > 1 => toWrite'[f][j] = toWrite[f][j]
          /\ WriteOf(toWrite'[f][1]) = w
      BY <1>1, <2>3 DEF Headly
    <3>2. toWrite'[f] \in Seq(Entries)
      BY <1>0, <1>5, <3>1 DEF Shapes
    <3>3. /\ DOMAIN toWrite'[f] = DOMAIN toWrite[f]
          /\ \A j \in DOMAIN toWrite[f] : j + 0 = j /\ (j = 1 \/ j > 1)
      BY <1>4, <3>1, <3>2
    <3>4. \A j \in DOMAIN toWrite'[f] : j + 0 \in DOMAIN toWrite[f] /\ WriteOf(toWrite'[f][j]) = WriteOf(toWrite[f][j + 0])
      BY <1>1, <1>5, <3>1, <3>3
    <3> QED
      BY <1>5, <2>3, <3>4 DEF Shrunk
  <2> QED
    BY <2>1, <2>2, <2>3
<1>11. BodyLast'
  <2> SUFFICES ASSUME NEW d \in Conns, NEW n \in 0 .. NRequests, promise'[<<d, n, "body">>] # "none"
               PROVE  promise'[<<d, n, "head">>] = "fulfilled"
    BY DEF BodyLast
  <2>1. PICK b \in Writes : b = <<d, n, "body">>
    BY DEF Writes, Parts
  <2>2. PICK h \in Writes : h = <<d, n, "head">>
    BY DEF Writes, Parts
  <2>3. CASE promise[b] # "none"
    <3>1. promise[h] = "fulfilled"
      BY <1>0, <2>1, <2>2, <2>3 DEF BodyLast
    <3> QED
      BY <1>4, <2>2, <3>1
  <2>4. CASE promise[b] = "none"
    <3>1. PICK i \in DOMAIN ws : WriteOf(ws[i]) = b
      BY <1>1, <1>4, <2>1, <2>4 DEF Headly
    <3>2. w = h /\ fate = "fulfilled"
      BY <1>1, <1>5, <2>1, <2>2, <3>1 DEF WriteOf
    <3> QED
      BY <1>4, <2>2, <3>2
  <2> QED
    BY <2>3, <2>4
<1>12. Apps'
  <2> SUFFICES ASSUME NEW v \in Writes, promise[v] = "none", NEW a \in app', v = <<a.conn, a.n, "raw">>
               PROVE  promise'[v] = "none"
    BY <1>0, <1>5, AppsKept
  <2>1. v # w /\ \A i \in DOMAIN ws : WriteOf(ws[i]) # v
    BY <1>4, <1>5 DEF WriteOf
  <2> QED
    BY <1>1, <2>1 DEF Headly
<1> QED
  BY <1>6, <1>7, <1>8, <1>9, <1>10, <1>11, <1>12 DEF Traffic

-----------------------------------------------------------------------------
\* handleWriteQueue takes the entry e off the queue, and q is what its deque becomes.
Moved(e, q) ==
  /\ e \in Entries /\ writesQueue # <<>> /\ writesQueue[1] = e /\ 1 \in DOMAIN writesQueue
  /\ \A i \in DOMAIN writesQueue' : i \in Nat /\ i >= 1 /\ i + 1 \in DOMAIN writesQueue /\ writesQueue'[i] = writesQueue[i + 1]
  /\ \A i \in DOMAIN writesQueue : i # 1 => i - 1 \in DOMAIN writesQueue' /\ writesQueue'[i - 1] = writesQueue[i]
  /\ \A g \in Fds : g # e.fd => toWrite'[g] = toWrite[g]
  /\ \/ peers_[e.fd] = None /\ toWrite' = toWrite
     \/ /\ peers_[e.fd] # None /\ toWrite'[e.fd] = q /\ q \in Seq(Entries) /\ q # None
        /\ \E n \in DOMAIN q :
             /\ q[n] = e
             /\ \A i \in DOMAIN q : i # n => /\ i < n /\ toWrite[e.fd] # None
                                             /\ i \in DOMAIN toWrite[e.fd] /\ q[i] = toWrite[e.fd][i]
        /\ \A i \in DOMAIN q : i \in Nat /\ i >= 1
        /\ toWrite[e.fd] # None =>
             \A i \in DOMAIN toWrite[e.fd] : i \in DOMAIN q /\ q[i] = toWrite[e.fd][i]
  /\ UNCHANGED <<sock, open, peer, peers_, app, promise, log>>

LEMMA MovedShape ==
  ASSUME IInv, IInv', HandleWriteQueue, writesQueue # <<>>
  PROVE  \E e, q : Moved(e, q)
<1>1. Shapes
  BY DEF IInv
<1>2. PICK t : t = Tail(writesQueue)
  OBVIOUS
<1>3. PICK e : e = Head(writesQueue)
  OBVIOUS
<1>4. PICK old : old = IF toWrite[e.fd] = None THEN <<>> ELSE toWrite[e.fd]
  OBVIOUS
<1>5. PICK q : q = Append(old, e)
  OBVIOUS
<1>6. PICK f : f = e.fd
  OBVIOUS
<1>7. /\ writesQueue' = t
      /\ \/ peers_[f] = None /\ toWrite' = toWrite
         \/ peers_[f] # None /\ toWrite' = [toWrite EXCEPT ![f] = q]
      /\ UNCHANGED <<sock, open, peer, peers_, app, promise, log>>
  BY <1>2, <1>3, <1>4, <1>5, <1>6 DEF HandleWriteQueue
<1>8. /\ writesQueue \in Seq(Entries) /\ e \in Entries /\ 1 \in DOMAIN writesQueue /\ writesQueue[1] = e
      /\ \A i \in DOMAIN t : i \in Nat /\ i >= 1 /\ i + 1 \in DOMAIN writesQueue /\ t[i] = writesQueue[i + 1]
      /\ \A i \in DOMAIN writesQueue : i # 1 => i - 1 \in DOMAIN t /\ t[i - 1] = writesQueue[i]
  BY <1>1, <1>2, <1>3 DEF Shapes
<1>9. f \in Fds /\ toWrite \in [Fds -> Seq(Entries) \cup {None}]
  BY <1>1, <1>6, <1>8 DEF Shapes, Entries
<1>10. old \in Seq(Entries)
  BY <1>4, <1>6, <1>9
<1>11. /\ q \in Seq(Entries) /\ DOMAIN q = 1 .. Len(old) + 1 /\ Len(old) + 1 \in DOMAIN q
       /\ q[Len(old) + 1] = e /\ Len(old) \in Nat /\ DOMAIN old = 1 .. Len(old)
       /\ \A i \in DOMAIN old : i \in DOMAIN q /\ q[i] = old[i]
  BY <1>5, <1>8, <1>10
<1>12. /\ q # None
       /\ \E n \in DOMAIN q :
            /\ q[n] = e
            /\ \A i \in DOMAIN q : i # n => /\ i < n /\ toWrite[f] # None
                                            /\ i \in DOMAIN toWrite[f] /\ q[i] = toWrite[f][i]
       /\ \A i \in DOMAIN q : i \in Nat /\ i >= 1
       /\ toWrite[f] # None => \A i \in DOMAIN toWrite[f] : i \in DOMAIN q /\ q[i] = toWrite[f][i]
  <2>1. PICK n : n = Len(old) + 1
    OBVIOUS
  <2>2. \A i \in DOMAIN q : i # n => i < n /\ i \in DOMAIN old
    BY <1>11, <2>1
  <2>3. old # <<>> => toWrite[f] # None /\ old = toWrite[f]
    BY <1>4, <1>6
  <2>4. \A i \in DOMAIN old : old # <<>>
    BY <1>10
  <2>5. \A i \in DOMAIN q : i # n => /\ i < n /\ toWrite[f] # None
                                     /\ i \in DOMAIN toWrite[f] /\ q[i] = toWrite[f][i]
    BY <1>11, <2>2, <2>3, <2>4
  <2>6. toWrite[f] # None => \A i \in DOMAIN toWrite[f] : i \in DOMAIN q /\ q[i] = toWrite[f][i]
    BY <1>4, <1>6, <1>11
  <2>7. \A i \in DOMAIN q : i \in Nat /\ i >= 1
    BY <1>11
  <2> QED
    BY <1>11, <2>1, <2>5, <2>6, <2>7, NoneAssumption
<1>13. /\ \A g \in Fds : g # f => toWrite'[g] = toWrite[g]
       /\ peers_[f] # None => toWrite'[f] = q
  BY <1>7, <1>9
<1>14. \/ peers_[f] = None /\ toWrite' = toWrite
       \/ /\ peers_[f] # None /\ toWrite'[f] = q /\ q \in Seq(Entries) /\ q # None
          /\ \E n \in DOMAIN q :
               /\ q[n] = e
               /\ \A i \in DOMAIN q : i # n => /\ i < n /\ toWrite[f] # None
                                               /\ i \in DOMAIN toWrite[f] /\ q[i] = toWrite[f][i]
          /\ \A i \in DOMAIN q : i \in Nat /\ i >= 1
          /\ toWrite[f] # None => \A i \in DOMAIN toWrite[f] : i \in DOMAIN q /\ q[i] = toWrite[f][i]
  BY <1>7, <1>11, <1>12, <1>13
<1>15. Moved(e, q)
  BY <1>6, <1>7, <1>8, <1>13, <1>14 DEF Moved
<1> QED
  BY <1>15

LEMMA MoveOrders ==
  ASSUME IInv, Logged, QueueDue, Orders, NEW e, NEW q, Moved(e, q)
  PROVE  Orders'
<1>0. Shapes /\ QueueOrder /\ DequeOrder /\ DequesApart
  BY DEF IInv, Orders
<1>1. PICK f \in Fds : f = e.fd
  BY DEF Moved, Entries
<1>2. /\ writesQueue[1] = e /\ 1 \in DOMAIN writesQueue /\ log' = log /\ e \in Entries
      /\ \A i \in DOMAIN writesQueue' : i \in Nat /\ i >= 1 /\ i + 1 \in DOMAIN writesQueue /\ writesQueue'[i] = writesQueue[i + 1]
      /\ \A g \in Fds : g # f => toWrite'[g] = toWrite[g]
      /\ \/ toWrite' = toWrite
         \/ /\ toWrite'[f] = q /\ \A i \in DOMAIN q : i \in Nat
            /\ \E n \in DOMAIN q : /\ q[n] = e
                                   /\ \A i \in DOMAIN q : i # n => /\ i < n /\ toWrite[f] # None
                                                                   /\ i \in DOMAIN toWrite[f] /\ q[i] = toWrite[f][i]
  BY <1>1 DEF Moved
<1>3. PICK w \in Writes : w = WriteOf(e)
  BY <1>2, WriteTypes
<1>4. ~Before(w, w)
  BY <1>3, Irreflexive
<1>5. \A v, x : Before(v, x)' <=> Before(v, x)
  BY <1>2 DEF Before
<1>6. \A i, j \in DOMAIN writesQueue' : i < j => Before(WriteOf(writesQueue'[i]), WriteOf(writesQueue'[j]))
  BY <1>0, <1>2 DEF QueueOrder
<1>7. \A j \in DOMAIN writesQueue' : Before(w, WriteOf(writesQueue'[j]))
  BY <1>0, <1>2, <1>3 DEF QueueOrder
<1>8. ASSUME NEW g \in Fds, toWrite'[g] # None, NEW i \in DOMAIN toWrite'[g]
      PROVE  \/ toWrite[g] # None /\ i \in DOMAIN toWrite[g] /\ toWrite'[g][i] = toWrite[g][i]
             \/ g = f /\ toWrite'[g][i] = e
  BY <1>2, <1>8
<1>9. \A g \in Fds : toWrite[g] # None =>
        \A i \in DOMAIN toWrite[g] : /\ Before(WriteOf(toWrite[g][i]), w) /\ WriteOf(toWrite[g][i]) # w
                                     /\ \A j \in DOMAIN writesQueue' : Before(WriteOf(toWrite[g][i]), WriteOf(writesQueue'[j]))
  BY <1>0, <1>2, <1>3, <1>4 DEF DequeOrder
<1>10. ASSUME NEW g \in Fds, toWrite'[g] # None
       PROVE  /\ \A i, j \in DOMAIN toWrite'[g] : i < j => Before(WriteOf(toWrite'[g][i]), WriteOf(toWrite'[g][j]))
              /\ \A i \in DOMAIN toWrite'[g], j \in DOMAIN writesQueue' :
                   Before(WriteOf(toWrite'[g][i]), WriteOf(writesQueue'[j]))
  <2>1. \A i \in DOMAIN toWrite'[g], j \in DOMAIN writesQueue' : Before(WriteOf(toWrite'[g][i]), WriteOf(writesQueue'[j]))
    BY <1>3, <1>7, <1>8, <1>9, <1>10
  <2>2. CASE toWrite'[g] = toWrite[g]
    BY <1>0, <1>10, <2>1, <2>2 DEF DequeOrder
  <2>3. CASE toWrite'[g] # toWrite[g]
    <3>1. g = f /\ toWrite'[f] = q /\ \A i \in DOMAIN q : i \in Nat
      BY <1>2, <2>3
    <3>2. PICK n \in DOMAIN q : /\ q[n] = e
                                /\ \A i \in DOMAIN q : i # n => /\ i < n /\ toWrite[f] # None
                                                                /\ i \in DOMAIN toWrite[f] /\ q[i] = toWrite[f][i]
      BY <1>2, <2>3, <3>1
    <3>3. ASSUME NEW i \in DOMAIN q, NEW j \in DOMAIN q, i < j PROVE Before(WriteOf(q[i]), WriteOf(q[j]))
      <4>1. i # n /\ i \in Nat /\ j \in Nat /\ n \in Nat
        BY <3>1, <3>2, <3>3
      <4>2. CASE j = n
        BY <1>3, <1>9, <3>2, <4>1, <4>2
      <4>3. CASE j # n
        BY <1>0, <3>2, <3>3, <4>1, <4>3 DEF DequeOrder
      <4> QED
        BY <4>2, <4>3
    <3> QED
      BY <2>1, <3>1, <3>3
  <2> QED
    BY <2>2, <2>3
<1>11. QueueOrder'
  <2> SUFFICES ASSUME NEW i \in DOMAIN writesQueue', NEW j \in DOMAIN writesQueue', i < j
               PROVE  Before(WriteOf(writesQueue[i]), WriteOf(writesQueue[j]))'
    BY DEF QueueOrder
  <2> QED
    BY <1>2, <1>6 DEF Before
<1>12. DequeOrder'
  <2> SUFFICES ASSUME NEW g \in Fds, toWrite'[g] # None
               PROVE  /\ \A i, j \in DOMAIN toWrite'[g] : i < j => Before(WriteOf(toWrite[g][i]), WriteOf(toWrite[g][j]))'
                      /\ \A i \in DOMAIN toWrite'[g], j \in DOMAIN writesQueue' :
                           Before(WriteOf(toWrite[g][i]), WriteOf(writesQueue[j]))'
    BY DEF DequeOrder
  <2> QED
    BY <1>2, <1>10 DEF Before
<1>13. DequesApart'
  <2> SUFFICES ASSUME NEW g \in Fds, NEW h \in Fds, g # h, toWrite'[g] # None, toWrite'[h] # None,
                      NEW i \in DOMAIN toWrite'[g], NEW j \in DOMAIN toWrite'[h]
               PROVE  WriteOf(toWrite'[g][i]) # WriteOf(toWrite'[h][j])
    BY DEF DequesApart
  <2>1. CASE /\ toWrite[g] # None /\ i \in DOMAIN toWrite[g] /\ toWrite'[g][i] = toWrite[g][i]
             /\ toWrite[h] # None /\ j \in DOMAIN toWrite[h] /\ toWrite'[h][j] = toWrite[h][j]
    BY <1>0, <2>1 DEF DequesApart
  <2>2. CASE g = f /\ toWrite'[g][i] = e
    BY <1>3, <1>8, <1>9, <2>2
  <2>3. CASE h = f /\ toWrite'[h][j] = e
    BY <1>3, <1>8, <1>9, <2>3
  <2> QED
    BY <1>8, <2>1, <2>2, <2>3
<1> QED
  BY <1>11, <1>12, <1>13 DEF Orders

LEMMA MoveDues ==
  ASSUME IInv, IInv', Logged, QueueDue, DequesDue, NEW e, NEW q, Moved(e, q)
  PROVE  QueueDue' /\ DequesDue'
<1>0. Shapes /\ Shapes' /\ NothingInherited
  BY DEF IInv
<1>1. PICK f \in Fds : f = e.fd
  BY DEF Moved, Entries
<1>2. /\ writesQueue[1] = e /\ 1 \in DOMAIN writesQueue /\ e \in Entries
      /\ \A i \in DOMAIN writesQueue' : i + 1 \in DOMAIN writesQueue /\ writesQueue'[i] = writesQueue[i + 1]
      /\ \A g \in Fds : g # f => toWrite'[g] = toWrite[g]
      /\ UNCHANGED <<sock, open, peer, promise, log>>
  BY <1>1 DEF Moved
<1>3. Due(e) /\ Fresh(e)
  BY <1>2 DEF QueueDue
<1>4. QueueDue'
  BY <1>2 DEF QueueDue, Due, Fresh, Untouched
<1>5. ASSUME NEW g \in Fds, toWrite'[g] # None, toWrite'[g] = toWrite[g]
      PROVE  /\ \A i \in DOMAIN toWrite'[g] : Due(toWrite[g][i])' /\ (i > 1 => Fresh(toWrite[g][i])')
             /\ toWrite'[g] # <<>> => Begun(g, toWrite[g][1])'
  BY <1>2, <1>5 DEF DequesDue, Due, Fresh, Untouched, Begun, Reached
<1>6. ASSUME toWrite'[f] # toWrite[f]
      PROVE  /\ \A i \in DOMAIN toWrite'[f] : Due(toWrite[f][i])' /\ (i > 1 => Fresh(toWrite[f][i])')
             /\ toWrite'[f] # <<>> => Begun(f, toWrite[f][1])'
  <2>1. peers_[f] # None /\ toWrite'[f] = q /\ q \in Seq(Entries) /\ \A i \in DOMAIN q : i \in Nat /\ i >= 1
    BY <1>1, <1>6 DEF Moved
  <2>2. PICK n \in DOMAIN q : /\ q[n] = e
                              /\ \A i \in DOMAIN q : i # n => /\ i < n /\ toWrite[f] # None
                                                              /\ i \in DOMAIN toWrite[f] /\ q[i] = toWrite[f][i]
    BY <1>1, <1>6 DEF Moved
  <2>3. open[f] \in Conns
    BY <1>0, <2>1 DEF NothingInherited, Shapes
  <2>4. ASSUME NEW i \in DOMAIN q
        PROVE  Due(q[i]) /\ (i > 1 => Fresh(q[i]))
    <3>1. CASE i = n
      BY <1>3, <2>2, <3>1
    <3>2. CASE i # n
      BY <2>2, <3>2 DEF DequesDue
    <3> QED
      BY <3>1, <3>2
  <2>5. ASSUME q # <<>> PROVE Begun(f, q[1])
    <3>1. 1 \in DOMAIN q
      BY <2>1, <2>5
    <3>2. CASE n = 1
      <4>1. PICK w : w = WriteOf(e)
        OBVIOUS
      <4>2. e.base = 0 /\ e.offset = 0 /\ Untouched(w)'
        BY <1>2, <1>3, <4>1 DEF Fresh, Untouched
      <4>3. PICK c \in Conns : c = open[f]
        BY <2>3
      <4>4. Reached(c, w, 0)'
        BY <4>2, UntouchedReached
      <4>5. Reached(c, w, 0)
        BY <1>2, <4>4 DEF Reached
      <4>6. e.base + e.offset = 0
        BY <4>2
      <4> QED
        BY <2>2, <3>2, <4>1, <4>3, <4>5, <4>6 DEF Begun
    <3>3. CASE n # 1
      <4>1. toWrite[f] # None /\ 1 \in DOMAIN toWrite[f] /\ q[1] = toWrite[f][1]
        BY <2>2, <3>1, <3>3
      <4>2. toWrite[f] # <<>>
        BY <4>1
      <4> QED
        BY <4>1, <4>2 DEF DequesDue
    <3> QED
      BY <3>2, <3>3
  <2> QED
    BY <1>2, <2>1, <2>4, <2>5 DEF Due, Fresh, Untouched, Begun, Reached
<1>7. DequesDue'
  <2> SUFFICES ASSUME NEW g \in Fds, toWrite'[g] # None
               PROVE  /\ \A i \in DOMAIN toWrite'[g] : Due(toWrite[g][i])' /\ (i > 1 => Fresh(toWrite[g][i])')
                      /\ toWrite'[g] # <<>> => Begun(g, toWrite[g][1])'
    BY DEF DequesDue
  <2>1. CASE toWrite'[g] = toWrite[g]
    BY <1>5, <2>1
  <2>2. CASE toWrite'[g] # toWrite[g]
    <3>1. g = f
      BY <1>2, <2>2
    <3> QED
      BY <1>6, <2>2, <3>1
  <2> QED
    BY <2>1, <2>2
<1> QED
  BY <1>4, <1>7

LEMMA MoveKeeps == ASSUME IInv, IInv', Traffic, HandleWriteQueue, writesQueue # <<>> PROVE Traffic'
<1>0. /\ Shapes /\ Owned /\ Logged /\ QueueDue /\ DequesDue /\ Orders /\ Accounted /\ Apps /\ BodyLast /\ Wire
  BY DEF IInv, Traffic
<1>1. PICK e, q : Moved(e, q)
  BY MovedShape
<1>2. /\ UNCHANGED <<sock, open, peer, peers_, app, promise, log>>
      /\ e \in Entries /\ writesQueue[1] = e /\ 1 \in DOMAIN writesQueue
      /\ \A i \in DOMAIN writesQueue : i # 1 => i - 1 \in DOMAIN writesQueue' /\ writesQueue'[i - 1] = writesQueue[i]
  BY <1>1 DEF Moved
<1>3. Logged' /\ Apps' /\ BodyLast'
  BY <1>0, <1>2 DEF Logged, Apps, BodyLast, Past, Registered
<1>4. Wire'
  <2>1. Numbers' /\ Spread' /\ FulfilledIsSent'
    BY <1>0, <1>2 DEF Wire, Numbers, Spread, FulfilledIsSent, Untouched, Reached, Whole
  <2>2. InTurn'
    BY <1>0, <1>2 DEF Wire, InTurn, Whole
  <2> QED
    BY <2>1, <2>2 DEF Wire
<1>5. QueueDue' /\ DequesDue' /\ Orders'
  BY <1>0, <1>1, MoveDues, MoveOrders
<1>6. Accounted'
  <2> SUFFICES ASSUME NEW c \in Conns, sock[c].state = "open", ~sock[c].reset, NEW v \in Range(log[c])
               PROVE  Whole(c, v) \/ promise[v] = "rejected" \/ InQueue(v)' \/ InDeque(peer[c].fd, v)'
    BY <1>2 DEF Accounted, Whole
  <2>1. Whole(c, v) \/ promise[v] = "rejected" \/ InQueue(v) \/ InDeque(peer[c].fd, v)
    BY <1>0 DEF Accounted
  <2>2. PICK f : f = peer[c].fd
    OBVIOUS
  <2>3. ASSUME InDeque(f, v) PROVE InDeque(f, v)'
    <3>1. PICK i \in DOMAIN toWrite[f] : WriteOf(toWrite[f][i]) = v
      BY <2>3 DEF InDeque
    <3>2. f \in Fds /\ toWrite[f] # None
      BY <2>3 DEF InDeque
    <3>3. toWrite'[f] # None /\ i \in DOMAIN toWrite'[f] /\ toWrite'[f][i] = toWrite[f][i]
      BY <1>1, <3>2 DEF Moved
    <3> QED
      BY <3>1, <3>2, <3>3 DEF InDeque
  <2>4. ASSUME NEW i \in DOMAIN writesQueue, WriteOf(writesQueue[i]) = v
        PROVE  InQueue(v)' \/ InDeque(f, v)'
    <3>1. CASE i # 1
      BY <1>2, <2>4, <3>1 DEF InQueue
    <3>2. CASE i = 1
      <4>1. Due(e) /\ WriteOf(e) = v
        BY <1>0, <1>2, <2>4, <3>2 DEF QueueDue
      <4>2. v[1] = c
        BY <1>0 DEF Logged, Range
      <4>3. e.conn = c
        BY <4>1, <4>2 DEF WriteOf
      <4>4. e.fd = f /\ f \in Fds
        BY <1>2, <2>2, <4>1, <4>3 DEF Due, Entries
      <4>5. Past(c)
        BY <1>0 DEF Logged, Range
      <4>6. peers_[f] # None
        BY <2>2, <4>5, NumberTypes DEF Past, Registered
      <4>7. toWrite'[f] = q /\ q # None /\ \E n \in DOMAIN q : q[n] = e
        BY <1>1, <4>4, <4>6 DEF Moved
      <4> QED
        BY <4>1, <4>4, <4>7 DEF InDeque
    <3> QED
      BY <3>1, <3>2
  <2> QED
    BY <1>2, <2>1, <2>2, <2>3, <2>4 DEF InQueue, InDeque
<1> QED
  BY <1>3, <1>4, <1>5, <1>6 DEF Traffic

-----------------------------------------------------------------------------
\* Each step, from what it does to the sockets, the deques and the queue.
LEMMA FrameOf ==
  ASSUME Shapes, Owned, peers_' = peers_, \A c \in Conns : peer'[c].fd = peer[c].fd,
         \A c \in Conns : /\ sock[c].state = "closed" => sock'[c].state = "closed"
                          /\ sock'[c].state = "open" => sock[c].state = "open"
                          /\ sock[c].reset => sock'[c].reset
  PROVE  Frame
<1>1. \A c \in Conns : Registered(c) => Registered(c)'
  BY DEF Registered
<1> QED
  BY <1>1 DEF Frame, PastStays, Past, SameHold, ResetStays

\* Nothing is written: only sockets and deques change.
LEMMA StillKeeps ==
  ASSUME IInv, IInv', Traffic, Frame, SameBytes, DequesStand,
         UNCHANGED <<writesQueue, promise, log>>, Apps'
  PROVE  Traffic'
<1>1. Shapes /\ Logged
  BY DEF IInv, Traffic
<1>2. PICK ws : ws = <<>> /\ ws \in Seq(Entries)
  <2>1. <<>> \in Seq(Entries)
    OBVIOUS
  <2> QED
    BY <2>1
<1>3. \A i \in DOMAIN ws : FALSE
  BY <1>2
<1>4. writesQueue' = writesQueue \o ws
  BY <1>1, <1>2 DEF Shapes
<1>5. Adds(ws)
  <2>1. log' \in [Conns -> Seq(Writes)]
    BY <1>1 DEF Logged
  <2>2. ws \in Seq(Entries)
    BY <1>2
  <2> QED
    BY <1>3, <1>4, <2>1, <2>2 DEF Adds
<1>6. PromiseSame(ws)
  BY DEF PromiseSame
<1>7. Quietly(ws)
  BY <1>3, <1>5, <1>6 DEF Quietly
<1> QED
  BY <1>7, QuietKeeps

\* Apps when no response is handed out and none written.
LEMMA AppsSame ==
  ASSUME IInv, Traffic, Frame, app' = app, promise' = promise
  PROVE  Apps'
<1>1. Apps
  BY DEF Traffic
<1> QED
  BY <1>1, AppsKept

LEMMA DequesSame ==
  ASSUME toWrite' = toWrite, open' = open
  PROVE  DequesStand
BY DEF DequesStand

LEMMA ClientTraffic ==
  ASSUME IInv, IInv', Traffic, NEW c \in Conns, Connect(c) \/ Request(c) \/ Piece(c) \/ Read(c) \/ Close(c)
  PROVE  Traffic'
<1>1. Shapes /\ Owned
  BY DEF IInv
<1>2. UNCHANGED <<open, peer, peers_, toWrite, writesQueue, app, promise, log>>
  BY DEF Connect, Request, Piece, Read, Close, queues
<1>3. sock \in [Conns -> Sockets] /\ sock[c] \in Sockets
  BY <1>1 DEF Shapes
<1>4. PICK s : /\ sock' = [sock EXCEPT ![c] = s]
               /\ s.sent = sock[c].sent /\ (sock[c].reset => s.reset)
               /\ (s.state = sock[c].state \/ (s.state = "backlog" /\ sock[c].state = "none"))
  <2>1. CASE Connect(c)
    <3>1. PICK s : s = [sock[c] EXCEPT !.state = "backlog"]
      OBVIOUS
    <3>2. sock' = [sock EXCEPT ![c] = s]
      BY <2>1, <3>1 DEF Connect
    <3>3. s.sent = sock[c].sent /\ s.reset = sock[c].reset /\ s.state = "backlog"
      BY <1>3, <3>1 DEF Sockets
    <3> QED
      BY <2>1, <3>2, <3>3 DEF Connect
  <2>2. CASE Request(c)
    <3>1. PICK s : s = [sock[c] EXCEPT !.inbox = Append(@, "request"), !.asked = @ + 1]
      OBVIOUS
    <3>2. sock' = [sock EXCEPT ![c] = s]
      BY <2>2, <3>1 DEF Request
    <3>3. s.sent = sock[c].sent /\ s.reset = sock[c].reset /\ s.state = sock[c].state
      BY <1>3, <3>1 DEF Sockets
    <3> QED
      BY <3>2, <3>3
  <2>3. CASE Piece(c)
    <3>1. PICK s : s = [sock[c] EXCEPT !.inbox = Append(@, "piece"), !.pieces = @ + 1]
      OBVIOUS
    <3>2. sock' = [sock EXCEPT ![c] = s]
      BY <2>3, <3>1 DEF Piece
    <3>3. s.sent = sock[c].sent /\ s.reset = sock[c].reset /\ s.state = sock[c].state
      BY <1>3, <3>1 DEF Sockets
    <3> QED
      BY <3>2, <3>3
  <2>4. CASE Read(c)
    <3>1. PICK s : s = [sock[c] EXCEPT !.used = 0]
      OBVIOUS
    <3>2. sock' = [sock EXCEPT ![c] = s]
      BY <2>4, <3>1 DEF Read
    <3>3. s.sent = sock[c].sent /\ s.reset = sock[c].reset /\ s.state = sock[c].state
      BY <1>3, <3>1 DEF Sockets
    <3> QED
      BY <3>2, <3>3
  <2>5. CASE Close(c)
    <3>1. PICK s : /\ sock' = [sock EXCEPT ![c] = s]
                   /\ s = [sock[c] EXCEPT !.eof = TRUE] \/ s = [sock[c] EXCEPT !.reset = TRUE]
      BY <2>5 DEF Close
    <3>2. s.sent = sock[c].sent /\ (sock[c].reset => s.reset) /\ s.state = sock[c].state
      BY <1>3, <3>1 DEF Sockets
    <3> QED
      BY <3>1, <3>2
  <2> QED
    BY <2>1, <2>2, <2>3, <2>4, <2>5
<1>5. SameBytes
  BY <1>3, <1>4 DEF SameBytes
<1>6. Frame
  <2>1. \A d \in Conns : /\ sock[d].state = "closed" => sock'[d].state = "closed"
                         /\ sock'[d].state = "open" => sock[d].state = "open"
                         /\ sock[d].reset => sock'[d].reset
    BY <1>3, <1>4
  <2> QED
    BY <1>1, <1>2, <2>1, FrameOf
<1> QED
  BY <1>2, <1>5, <1>6, AppsSame, DequesSame, StillKeeps

\* The reactor's loop, and the listener's part of a hand-over.
LEMMA LoopTraffic ==
  ASSUME IInv, IInv', Traffic,
         UNCHANGED <<sock, open, peer, peers_, toWrite, writesQueue, app, promise, log>>
  PROVE  Traffic'
<1>1. Shapes /\ Owned
  BY DEF IInv
<1>2. Frame
  BY <1>1, FrameOf
<1>3. SameBytes
  BY DEF SameBytes
<1> QED
  BY <1>2, <1>3, AppsSame, DequesSame, StillKeeps

LEMMA AcceptTraffic ==
  ASSUME IInv, IInv', Traffic, NEW c \in Conns, NEW f \in Fds, Accept(c, f)
  PROVE  Traffic'
<1>1. Shapes /\ Owned /\ NothingInherited
  BY DEF IInv
<1>2. /\ sock[c].state = "backlog" /\ open[f] = None
      /\ sock' = [sock EXCEPT ![c].state = "open"] /\ peer' = [peer EXCEPT ![c].fd = f]
      /\ open' = [open EXCEPT ![f] = c]
      /\ UNCHANGED <<peers_, toWrite, writesQueue, app, promise, log>>
  BY DEF Accept, queues
<1>3. sock \in [Conns -> Sockets] /\ sock[c] \in Sockets /\ peer \in [Conns -> Peers] /\ peer[c] \in Peers
      /\ open \in [Fds -> Conns \cup {None}]
  BY <1>1 DEF Shapes
<1>4. /\ sock'[c].state = "open" /\ sock'[c].sent = sock[c].sent /\ sock'[c].reset = sock[c].reset
      /\ \A d \in Conns : d # c => sock'[d] = sock[d] /\ peer'[d] = peer[d]
      /\ \A g \in Fds : g # f => open'[g] = open[g]
  <2>1. PICK s : s = [sock[c] EXCEPT !.state = "open"]
    OBVIOUS
  <2>2. sock' = [sock EXCEPT ![c] = s]
    BY <1>2, <2>1
  <2>3. s.state = "open" /\ s.sent = sock[c].sent /\ s.reset = sock[c].reset
    BY <1>3, <2>1 DEF Sockets
  <2> QED
    BY <1>2, <1>3, <2>2, <2>3
<1>5. ~Past(c)
  BY <1>1, <1>2 DEF Past, Registered, Owned
<1>6. Frame
  <2>1. \A d \in Conns : d # c => (Past(d) => Past(d)')
    BY <1>2, <1>4 DEF Past, Registered
  <2>2. PastStays
    BY <1>5, <2>1 DEF PastStays
  <2>3. SameHold /\ ResetStays
    BY <1>4, <1>5 DEF SameHold, ResetStays
  <2> QED
    BY <2>2, <2>3 DEF Frame
<1>7. SameBytes
  BY <1>4 DEF SameBytes
<1>8. toWrite[f] = None
  BY <1>1, <1>2 DEF NothingInherited
<1>9. DequesStand
  BY <1>2, <1>4, <1>8 DEF DequesStand
<1> QED
  BY <1>2, <1>6, <1>7, <1>9, AppsSame, StillKeeps

LEMMA EmplaceTraffic == ASSUME IInv, IInv', Traffic, Emplace PROVE Traffic'
<1>1. Shapes /\ Owned
  BY DEF IInv
<1>2. UNCHANGED <<sock, open, peer, peers_, writesQueue, app, promise, log>>
  BY DEF Emplace
<1>3. Frame /\ SameBytes
  BY <1>1, <1>2, FrameOf DEF SameBytes
<1>4. \A g \in Fds : toWrite'[g] = toWrite[g] \/ (toWrite[g] = None /\ toWrite'[g] = <<>>)
  <2>1. toWrite \in [Fds -> Seq(Entries) \cup {None}]
    BY <1>1 DEF Shapes
  <2> QED
    BY <2>1 DEF Emplace
<1>5. DequesStand
  BY <1>2, <1>4 DEF DequesStand
<1> QED
  BY <1>2, <1>3, <1>5, AppsSame, StillKeeps

LEMMA HandlePeerTraffic == ASSUME IInv, IInv', Traffic, HandlePeer PROVE Traffic'
<1>1. Shapes /\ Owned /\ Queued
  BY DEF IInv
<1>2. UNCHANGED <<sock, open, peer, toWrite, writesQueue, app, promise, log>>
  BY DEF HandlePeer
<1>3. \A d \in Conns : Registered(d) => Registered(d)'
  <2>1. CASE peersQueue = <<>>
    BY <1>2, <2>1 DEF HandlePeer, Registered
  <2>2. CASE peersQueue # <<>>
    <3>1. PICK c : c = Head(peersQueue)
      OBVIOUS
    <3>2. PICK f : f = peer[c].fd
      OBVIOUS
    <3>3. peers_' = [peers_ EXCEPT ![f] = c]
      BY <2>2, <3>1, <3>2 DEF HandlePeer
    <3>4. c \in Conns /\ 1 \in DOMAIN peersQueue /\ peersQueue[1] = c
      BY <1>1, <2>2, <3>1 DEF Shapes
    <3>5. Waiting(c)
      BY <1>1, <3>4 DEF Queued
    <3>6. ASSUME NEW d \in Conns, Registered(d) PROVE Registered(d)'
      <4>1. d # c
        BY <3>4, <3>5, <3>6, NumberTypes DEF Registered, Waiting
      <4>2. peer[d].fd # f /\ peer[d].fd \in Fds
        BY <1>1, <3>2, <3>4, <3>5, <3>6, <4>1 DEF Owned, Registered, Waiting, Shapes, Peers
      <4> QED
        BY <1>1, <1>2, <3>3, <3>6, <4>2 DEF Registered, Shapes
    <3> QED
      BY <3>6
  <2> QED
    BY <2>1, <2>2
<1>4. Frame
  BY <1>2, <1>3 DEF Frame, PastStays, Past, SameHold, ResetStays
<1>5. SameBytes
  BY <1>2 DEF SameBytes
<1> QED
  BY <1>2, <1>4, <1>5, AppsSame, DequesSame, StillKeeps

LEMMA WriteBrokenTraffic == ASSUME IInv, IInv', Traffic, WriteBroken PROVE Traffic'
<1>1. Shapes /\ Owned /\ Owned' /\ Busy
  BY DEF IInv
<1>2. PICK f : f = io.fd
  OBVIOUS
<1>3. /\ sock[open[f]].reset /\ toWrite' = [toWrite EXCEPT ![f] = None]
      /\ UNCHANGED <<sock, open, peer, peers_, writesQueue, app, promise, log>>
  BY <1>2 DEF WriteBroken
<1>4. f \in Fds /\ toWrite \in [Fds -> Seq(Entries) \cup {None}]
  BY <1>1, <1>2 DEF WriteBroken, WriteStep, Busy, Shapes
<1>5. Frame /\ SameBytes
  BY <1>1, <1>3, FrameOf DEF SameBytes
<1>6. toWrite'[f] = None /\ \A g \in Fds : g # f => toWrite'[g] = toWrite[g]
  BY <1>3, <1>4
<1>7. DequesStand
  <2>1. \A c \in Conns : sock'[c].state = "open" /\ ~sock'[c].reset => peer'[c].fd # f
    BY <1>1, <1>3 DEF Owned
  <2> QED
    BY <1>3, <1>6, <2>1 DEF DequesStand
<1> QED
  BY <1>3, <1>5, <1>7, AppsSame, StillKeeps

\* A peer is removed with all that is left under its descriptor.
LEMMA RemoveFrame ==
  ASSUME IInv, IInv', NEW C \in SUBSET Conns, NEW s \in [Conns -> Sockets], NEW idle,
         RemovePeers(C, s, idle),
         \A d \in Conns : s[d].state = sock[d].state /\ s[d].inbox = sock[d].inbox
                          /\ s[d].asked = sock[d].asked,
         \A d \in Conns : s[d].reset = sock[d].reset,
         \A c \in C : peer[c].fd # None => Registered(c),
         listener' = listener, peersQueue' = peersQueue
  PROVE  /\ Frame /\ DequesStand
         /\ \A d \in Conns : sock'[d].sent = s[d].sent
         /\ \A g \in Fds : (\E c \in C : peer[c].fd = g) => toWrite'[g] = None /\ open'[g] = None
         /\ \A g \in Fds : (\A c \in C : peer[c].fd # g) => toWrite'[g] = toWrite[g] /\ open'[g] = open[g]
<1>1. Shapes /\ Owned /\ Owned'
  BY DEF IInv
<1>2. PastStays
  BY RemoveKeeps
<1> DEFINE fds == {peer[c].fd : c \in C}
<1>3. /\ toWrite' = [f \in Fds |-> IF f \in fds THEN None ELSE toWrite[f]]
      /\ open' = [f \in Fds |-> IF f \in fds THEN None ELSE open[f]]
      /\ peer' = [c \in Conns |-> [peer[c] EXCEPT !.fd = IF c \in C THEN None ELSE @, !.idle = @ \/ c \in idle]]
      /\ sock' = [c \in Conns |-> IF c \in C /\ peer[c].fd # None THEN [s[c] EXCEPT !.state = "closed"] ELSE s[c]]
  BY DEF RemovePeers
<1>4. \A g : g \in fds <=> \E c \in C : peer[c].fd = g
  OBVIOUS
<1> HIDE DEF fds
<1>5. \A g \in Fds : /\ g \in fds => toWrite'[g] = None /\ open'[g] = None
                     /\ g \notin fds => toWrite'[g] = toWrite[g] /\ open'[g] = open[g]
  BY <1>3
<1>6. ASSUME NEW d \in Conns
      PROVE  /\ sock'[d].sent = s[d].sent /\ (sock[d].reset => sock'[d].reset)
             /\ sock'[d].state = "open" => sock[d].state = "open" /\ peer'[d].fd = peer[d].fd
  <2>1. s[d] \in Sockets /\ peer[d] \in Peers
    BY <1>1 DEF Shapes
  <2>2. CASE d \in C /\ peer[d].fd # None
    <3>1. PICK t : t = [s[d] EXCEPT !.state = "closed"]
      OBVIOUS
    <3>2. sock'[d] = t
      BY <1>3, <2>2, <3>1
    <3>3. t.state = "closed" /\ t.sent = s[d].sent /\ t.reset = s[d].reset
      BY <2>1, <3>1 DEF Sockets
    <3> QED
      BY <3>2, <3>3
  <2>3. CASE ~(d \in C /\ peer[d].fd # None)
    <3>1. sock'[d] = s[d]
      BY <1>3, <2>3
    <3>2. PICK p : p = [peer[d] EXCEPT !.fd = IF d \in C THEN None ELSE @, !.idle = @ \/ d \in idle]
      OBVIOUS
    <3>3. peer'[d] = p
      BY <1>3, <3>2
    <3>4. p.fd = peer[d].fd
      BY <2>1, <2>3, <3>2 DEF Peers
    <3> QED
      BY <3>1, <3>3, <3>4
  <2> QED
    BY <2>2, <2>3
<1>7. Frame
  BY <1>2, <1>6 DEF Frame, SameHold, ResetStays
<1>8. DequesStand
  <2>1. \A c \in Conns : sock'[c].state = "open" /\ peer'[c].fd \in Fds => peer'[c].fd \notin fds
    BY <1>1, <1>5, NumberTypes DEF Owned
  <2> QED
    BY <1>5, <2>1 DEF DequesStand
<1> QED
  BY <1>4, <1>5, <1>6, <1>7, <1>8

LEMMA DisconnectionTraffic == ASSUME IInv, IInv', Traffic, Disconnection PROVE Traffic'
<1>1. Shapes /\ Busy
  BY DEF IInv
<1>2. PICK c : c = peers_[io.fd]
  OBVIOUS
<1>3. /\ io.pc = "read" /\ RemovePeers({c}, sock, {})
      /\ UNCHANGED <<writesQueue, peersQueue, listener, app, promise, log>>
  BY <1>2 DEF Disconnection
<1>4. c \in Conns /\ Registered(c)
  <2>1. io.fd \in Fds /\ peers_[io.fd] # None
    BY <1>1, <1>3 DEF Busy
  <2> QED
    BY <1>2, <2>1, Held
<1>5. Frame /\ DequesStand /\ \A d \in Conns : sock'[d].sent = sock[d].sent
  <2>1. {c} \in SUBSET Conns /\ sock \in [Conns -> Sockets]
    BY <1>1, <1>4 DEF Shapes
  <2> QED
    BY <1>3, <1>4, <2>1, RemoveFrame
<1>6. SameBytes
  BY <1>5 DEF SameBytes
<1> QED
  BY <1>3, <1>5, <1>6, AppsSame, StillKeeps

-----------------------------------------------------------------------------
\* Steps that write: Push of one entry for a write that nobody has asked for before.
LEMMA PushAdds ==
  ASSUME IInv, IInv', Traffic, NEW e \in Entries, Push(e), promise[WriteOf(e)] = "none",
         e.base = 0, e.offset = 0, e.size = Size, Past(e.conn)',
         sock'[e.conn].state = "open" => e.fd = peer'[e.conn].fd
  PROVE  /\ Adds(<<e>>) /\ PromiseSame(<<e>>)
         /\ DOMAIN <<e>> = {1} /\ <<e>>[1] = e
<1>1. Shapes /\ Logged
  BY DEF IInv, Traffic
<1>2. PICK w \in Writes : w = WriteOf(e)
  BY WriteTypes
<1>3. PICK c \in Conns : c = e.conn
  BY WriteTypes
<1>4. /\ writesQueue' = Append(writesQueue, e)
      /\ promise' = [promise EXCEPT ![w] = "pending"]
      /\ log' = [log EXCEPT ![c] = Append(@, w)]
  BY <1>2, <1>3 DEF Push
<1>5. PICK ws : ws = <<e>>
  OBVIOUS
<1>6. ws \in Seq(Entries) /\ DOMAIN ws = {1} /\ ws[1] = e
  BY <1>5
<1>7. writesQueue' = writesQueue \o ws
  BY <1>1, <1>4, <1>5, AppendIsConcat DEF Shapes
<1>8. /\ log' \in [Conns -> Seq(Writes)] /\ log'[c] = Append(log[c], w)
      /\ \A d \in Conns : d # c => log'[d] = log[d]
  <2>1. log \in [Conns -> Seq(Writes)] /\ Append(log[c], w) \in Seq(Writes)
    BY <1>1 DEF Logged
  <2> QED
    BY <1>4, <2>1
<1>9. promise'[w] = "pending" /\ \A v \in Writes : v # w => promise'[v] = promise[v]
  BY <1>1, <1>4 DEF Shapes
<1>10. \A i \in DOMAIN ws : /\ promise[WriteOf(ws[i])] = "none" /\ promise'[WriteOf(ws[i])] = "pending"
                            /\ ws[i].base = 0 /\ ws[i].offset = 0 /\ ws[i].size = Size
                            /\ sock'[ws[i].conn].state = "open" => ws[i].fd = peer'[ws[i].conn].fd
                            /\ Past(ws[i].conn)' /\ log'[ws[i].conn] = Append(log[ws[i].conn], WriteOf(ws[i]))
  <2>1. /\ promise[WriteOf(e)] = "none" /\ promise'[WriteOf(e)] = "pending"
        /\ log'[e.conn] = Append(log[e.conn], WriteOf(e))
    BY <1>2, <1>3, <1>8, <1>9
  <2> SUFFICES ASSUME NEW i \in DOMAIN ws PROVE
         /\ promise[WriteOf(ws[i])] = "none" /\ promise'[WriteOf(ws[i])] = "pending"
         /\ ws[i].base = 0 /\ ws[i].offset = 0 /\ ws[i].size = Size
         /\ sock'[ws[i].conn].state = "open" => ws[i].fd = peer'[ws[i].conn].fd
         /\ Past(ws[i].conn)' /\ log'[ws[i].conn] = Append(log[ws[i].conn], WriteOf(ws[i]))
    OBVIOUS
  <2>2. ws[i] = e
    BY <1>6
  <2> QED
    BY <2>1, <2>2 DEF Past, Registered
<1>11. Adds(ws)
  BY <1>3, <1>6, <1>7, <1>8, <1>10 DEF Adds
<1>12. PromiseSame(ws)
  BY <1>2, <1>6, <1>9 DEF PromiseSame
<1> QED
  BY <1>5, <1>6, <1>11, <1>12

LEMMA NewEntry ==
  ASSUME NEW c \in Conns, NEW n \in 0 .. NRequests, NEW part \in Parts, NEW f \in Fds
  PROVE  \E e \in Entries : /\ e = Entry(c, n, part, f) /\ e.conn = c /\ e.n = n /\ e.part = part /\ e.fd = f
                            /\ e.base = 0 /\ e.offset = 0 /\ e.size = Size
                            /\ WriteOf(e) = <<c, n, part>> /\ WriteOf(e) \in Writes
<1>1. PICK e : e = Entry(c, n, part, f)
  OBVIOUS
<1>2. e \in Entries
  BY <1>1, EntryTypes
<1>3. e.conn = c /\ e.n = n /\ e.part = part /\ e.fd = f /\ e.base = 0 /\ e.offset = 0 /\ e.size = Size
  BY <1>1 DEF Entry
<1>4. WriteOf(e) = <<c, n, part>> /\ WriteOf(e) \in Writes
  BY <1>2, <1>3, WriteTypes DEF WriteOf
<1> QED
  BY <1>1, <1>2, <1>3, <1>4

LEMMA AppPushTraffic == ASSUME IInv, IInv', Traffic, NEW a \in app, AppPush(a) PROVE Traffic'
<1>1. Shapes /\ Owned /\ Apps
  BY DEF IInv, Traffic
<1>2. a \in Answers /\ a.conn \in Conns /\ a.n \in 1 .. NRequests /\ a.fd \in Fds
  BY <1>1 DEF Shapes, Answers, AppPush
<1>3. PICK c \in Conns : c = a.conn
  BY <1>2
<1>4. PICK n \in 0 .. NRequests : n = a.n
  BY <1>2
<1>5. PICK e \in Entries : /\ e = Entry(c, n, "raw", a.fd) /\ e.conn = c /\ e.n = n /\ e.part = "raw" /\ e.fd = a.fd
                           /\ e.base = 0 /\ e.offset = 0 /\ e.size = Size
                           /\ WriteOf(e) = <<c, n, "raw">> /\ WriteOf(e) \in Writes
  <2>1. PICK g \in Fds : g = a.fd
    BY <1>2
  <2>2. PICK part \in Parts : part = "raw"
    BY DEF Parts
  <2> QED
    BY <2>1, <2>2, NewEntry
<1>6. /\ Push(e) /\ app' = app \ {a}
      /\ UNCHANGED <<sock, open, peer, peers_, toWrite>>
  BY <1>3, <1>4, <1>5 DEF AppPush
<1>7. PICK w \in Writes : w = <<c, n, "raw">> /\ w = WriteOf(e)
  BY <1>5
<1>8. promise[w] = "none" /\ Past(c) /\ (sock[c].state = "open" => e.fd = peer[c].fd)
  BY <1>1, <1>2, <1>3, <1>4, <1>5, <1>7, NumberTypes DEF Apps
<1>9. Frame /\ SameBytes
  BY <1>1, <1>6, FrameOf DEF SameBytes
<1>10. Past(c)'
  BY <1>8, <1>9 DEF Frame, PastStays
<1>11. Past(e.conn)' /\ promise[WriteOf(e)] = "none" /\ (sock'[e.conn].state = "open" => e.fd = peer'[e.conn].fd)
  BY <1>5, <1>6, <1>7, <1>8, <1>10 DEF Past, Registered
<1>12. PICK ws : Adds(ws) /\ PromiseSame(ws) /\ DOMAIN ws = {1} /\ ws[1] = e
  BY <1>5, <1>6, <1>11, PushAdds
<1>13. Quietly(ws)
  BY <1>5, <1>6, <1>9, <1>12, DequesSame DEF Quietly
<1>14. Apps'
  <2> SUFFICES ASSUME NEW v \in Writes, promise[v] = "none", NEW b \in app', v = <<b.conn, b.n, "raw">>
               PROVE  promise'[v] = "none"
    BY <1>1, <1>6, <1>9, AppsKept
  <2>1. ~(b.conn = a.conn /\ b.n = a.n)
    BY <1>1, <1>6 DEF Apps
  <2>2. v # w
    BY <1>3, <1>4, <1>7, <2>1
  <2> QED
    BY <1>7, <1>12, <2>2 DEF PromiseSame
<1> QED
  BY <1>9, <1>13, <1>14, QuietKeeps

LEMMA AppFdTraffic == ASSUME IInv, IInv', Traffic, NEW a \in app, AppFd(a) PROVE Traffic'
<1>1. Shapes /\ Owned /\ Apps
  BY DEF IInv, Traffic
<1>2. UNCHANGED <<sock, open, peers_, toWrite, writesQueue, promise, log>>
  BY DEF AppFd, queues
<1>3. a \in Answers /\ a.conn \in Conns
  BY <1>1 DEF Shapes, Answers
<1>4. PICK c \in Conns : c = a.conn
  BY <1>3
<1>5. \A d \in Conns : peer'[d].fd = peer[d].fd
  <2>1. PICK p : p = [peer[c] EXCEPT !.idle = TRUE]
    OBVIOUS
  <2>2. peer' = [peer EXCEPT ![c] = p]
    BY <1>4, <2>1 DEF AppFd
  <2>3. peer[c] \in Peers /\ peer \in [Conns -> Peers]
    BY <1>1 DEF Shapes
  <2>4. p.fd = peer[c].fd
    BY <2>1, <2>3 DEF Peers
  <2> QED
    BY <2>2, <2>3, <2>4
<1>6. Frame /\ SameBytes
  BY <1>1, <1>2, <1>5, FrameOf DEF SameBytes
<1>7. PICK b : b = [a EXCEPT !.fd = peer[c].fd]
  OBVIOUS
<1>8. b.conn = a.conn /\ b.n = a.n /\ b.fd = peer[c].fd
  BY <1>3, <1>7 DEF Answers
<1>9. \A x \in app' : (x \in app /\ x # a) \/ x = b
  BY <1>4, <1>7 DEF AppFd
<1>10. Apps'
  <2>1. ASSUME NEW x \in app'
        PROVE  /\ Past(x.conn)' /\ promise'[<<x.conn, x.n, "raw">>] = "none"
               /\ x.fd # None /\ sock'[x.conn].state = "open" => x.fd = peer'[x.conn].fd
    <3>1. PICK y \in app : y.conn = x.conn /\ y.n = x.n /\ (x = y \/ (x = b /\ y = a))
      BY <1>8, <1>9
    <3>2. y.conn \in Conns
      BY <1>1 DEF Shapes, Answers
    <3>3. PICK d \in Conns : d = x.conn
      BY <3>1, <3>2
    <3>4. Past(d) /\ promise[<<d, x.n, "raw">>] = "none"
      BY <1>1, <3>1, <3>3 DEF Apps
    <3>5. x.fd # None /\ sock[d].state = "open" => x.fd = peer[d].fd
      BY <1>1, <1>4, <1>8, <3>1, <3>3 DEF Apps
    <3>6. Past(d)'
      BY <1>6, <3>4 DEF Frame, PastStays
    <3> QED
      BY <1>2, <1>5, <3>3, <3>4, <3>5, <3>6 DEF Past, Registered
  <2>2. ASSUME NEW x \in app', NEW y \in app', x.conn = y.conn, x.n = y.n PROVE x = y
    BY <1>1, <1>8, <1>9, <2>2 DEF Apps
  <2> QED
    BY <2>1, <2>2 DEF Apps
<1> QED
  BY <1>2, <1>6, <1>10, DequesSame, StillKeeps

LEMMA ReceiveTraffic == ASSUME IInv, IInv', Traffic, NEW kind \in Kinds, Receive(kind) PROVE Traffic'
<1>1. Shapes /\ Shapes' /\ Owned /\ Busy /\ Numbered /\ Apps
  BY DEF IInv, Traffic
<1>2. PICK f : f = io.fd
  OBVIOUS
<1>3. PICK c : c = peers_[f]
  OBVIOUS
<1>4. PICK n : n = peer[c].requests + 1
  OBVIOUS
<1>5. PICK part : part = IF kind = "raw" THEN "raw" ELSE "head"
  OBVIOUS
<1>6. /\ io.pc = "read" /\ sock' = [sock EXCEPT ![c].inbox = Tail(@)]
      /\ UNCHANGED <<open, peers_, toWrite>>
      /\ \/ UNCHANGED <<peer, writesQueue, app, promise, log>>
         \/ /\ peer' = [peer EXCEPT ![c].requests = n, ![c].idle = kind = "raw"]
            /\ \/ /\ app' = app \cup {[conn |-> c, n |-> n, fd |-> None]}
                  /\ UNCHANGED <<writesQueue, promise, log>>
               \/ Push(Entry(c, n, part, f)) /\ UNCHANGED app
  BY <1>2, <1>3, <1>4, <1>5 DEF Receive
<1>7. f \in Fds /\ c \in Conns /\ peer[c].fd = f /\ Registered(c) /\ sock[c] \in Sockets /\ peer[c] \in Peers
  <2>1. f \in Fds /\ peers_[f] # None
    BY <1>1, <1>2, <1>6 DEF Busy
  <2> QED
    BY <1>1, <1>3, <2>1, Held DEF Shapes
<1>8. \A d \in Conns : /\ sock'[d].sent = sock[d].sent /\ sock'[d].reset = sock[d].reset
                       /\ sock'[d].state = sock[d].state
  <2>1. PICK s : s = [sock[c] EXCEPT !.inbox = Tail(@)]
    OBVIOUS
  <2>2. sock' = [sock EXCEPT ![c] = s]
    BY <1>6, <2>1
  <2>3. s.sent = sock[c].sent /\ s.reset = sock[c].reset /\ s.state = sock[c].state
    BY <1>7, <2>1 DEF Sockets
  <2> QED
    BY <1>1, <2>2, <2>3 DEF Shapes
<1>9. /\ \A d \in Conns : peer'[d].fd = peer[d].fd
      /\ peer' = [peer EXCEPT ![c].requests = n, ![c].idle = kind = "raw"] => peer'[c].requests = n
  <2>1. PICK p : p = [peer[c] EXCEPT !.requests = n, !.idle = kind = "raw"]
    OBVIOUS
  <2>2. /\ peer' = peer \/ peer' = [peer EXCEPT ![c] = p]
        /\ peer' = [peer EXCEPT ![c].requests = n, ![c].idle = kind = "raw"] => peer' = [peer EXCEPT ![c] = p]
    BY <1>6, <2>1
  <2>3. p.fd = peer[c].fd /\ p.requests = n
    BY <1>7, <2>1 DEF Peers
  <2> QED
    BY <1>1, <1>7, <2>2, <2>3 DEF Shapes
<1>10. Frame /\ SameBytes /\ DequesStand
  BY <1>1, <1>6, <1>8, <1>9, FrameOf, DequesSame DEF SameBytes
<1>11. Past(c) /\ Past(c)'
  BY <1>7, <1>10 DEF Past, Frame, PastStays
<1>12. \A w \in Writes : w[1] = c /\ w[2] = n => promise[w] = "none"
  <2>1. peer[c].requests \in Nat /\ ~(n <= peer[c].requests)
    BY <1>4, <1>7, NumberTypes DEF Peers
  <2> QED
    BY <1>1, <2>1 DEF Numbered
<1>13. CASE UNCHANGED <<peer, writesQueue, app, promise, log>>
  BY <1>10, <1>13, AppsSame, StillKeeps
<1>14. CASE peer'[c].requests = n /\ app' = app \cup {[conn |-> c, n |-> n, fd |-> None]}
            /\ UNCHANGED <<writesQueue, promise, log>>
  <2>1. PICK b : b = [conn |-> c, n |-> n, fd |-> None]
    OBVIOUS
  <2>2. b.conn = c /\ b.n = n /\ b.fd = None /\ \A x \in app' : x \in app \/ x = b
    BY <1>14, <2>1
  <2>3. n \in 0 .. NRequests
    BY <1>1, <1>7, <1>14 DEF Shapes, Peers
  <2>4. \A a \in app : a.conn \in Conns /\ ~(a.conn = c /\ a.n = n)
    <3>1. \A a \in app : a.conn \in Conns /\ a.n \in Nat
      BY <1>1, NumberTypes DEF Shapes, Answers
    <3>2. peer[c].requests \in Nat /\ ~(n <= peer[c].requests)
      BY <1>4, <1>7, NumberTypes DEF Peers
    <3> QED
      BY <1>1, <3>1, <3>2 DEF Numbered
  <2>5. Apps'
    <3>1. ASSUME NEW x \in app'
          PROVE  /\ Past(x.conn)' /\ promise'[<<x.conn, x.n, "raw">>] = "none"
                 /\ x.fd # None /\ sock'[x.conn].state = "open" => x.fd = peer'[x.conn].fd
      <4>1. CASE x \in app
        <5>1. PICK d \in Conns : d = x.conn
          BY <2>4, <4>1
        <5>2. Past(d) /\ promise[<<d, x.n, "raw">>] = "none"
              /\ (x.fd # None /\ sock[d].state = "open" => x.fd = peer[d].fd)
          BY <1>1, <4>1, <5>1 DEF Apps
        <5>3. Past(d)'
          BY <1>10, <5>2 DEF Frame, PastStays
        <5> QED
          BY <1>8, <1>9, <1>14, <5>1, <5>2, <5>3 DEF Past, Registered
      <4>2. CASE x = b
        <5>1. PICK w \in Writes : w = <<c, n, "raw">>
          BY <1>7, <2>3 DEF Writes, Parts
        <5>2. promise'[w] = "none"
          BY <1>12, <1>14, <5>1
        <5> QED
          BY <1>11, <2>2, <4>2, <5>1, <5>2 DEF Past, Registered
      <4> QED
        BY <2>2, <4>1, <4>2
    <3>2. ASSUME NEW x \in app', NEW y \in app', x.conn = y.conn, x.n = y.n PROVE x = y
      BY <1>1, <2>2, <2>4, <3>2 DEF Apps
    <3> QED
      BY <3>1, <3>2 DEF Apps
  <2> QED
    BY <1>10, <1>14, <2>5, StillKeeps
<1>15. CASE peer'[c].requests = n /\ Push(Entry(c, n, part, f)) /\ app' = app
  <2>1. n \in 0 .. NRequests /\ part \in Parts /\ part # "body"
    BY <1>1, <1>5, <1>7, <1>15 DEF Shapes, Peers, Parts
  <2>2. PICK e \in Entries : /\ e = Entry(c, n, part, f) /\ e.conn = c /\ e.n = n /\ e.part = part /\ e.fd = f
                             /\ e.base = 0 /\ e.offset = 0 /\ e.size = Size
                             /\ WriteOf(e) = <<c, n, part>> /\ WriteOf(e) \in Writes
    BY <1>7, <2>1, NewEntry
  <2>3. /\ Push(e) /\ promise[WriteOf(e)] = "none" /\ Past(e.conn)'
        /\ sock'[e.conn].state = "open" => e.fd = peer'[e.conn].fd
    BY <1>7, <1>9, <1>11, <1>12, <1>15, <2>2 DEF Past, Registered
  <2>4. PICK ws : Adds(ws) /\ PromiseSame(ws) /\ DOMAIN ws = {1} /\ ws[1] = e
    BY <2>2, <2>3, PushAdds
  <2>5. Quietly(ws)
    BY <1>10, <2>1, <2>2, <2>4 DEF Quietly
  <2>6. Apps'
    <3> SUFFICES ASSUME NEW v \in Writes, promise[v] = "none", NEW b \in app', v = <<b.conn, b.n, "raw">>
                 PROVE  promise'[v] = "none"
      BY <1>1, <1>10, <1>15, AppsKept
    <3>1. b \in app /\ b.conn \in Conns /\ b.n \in Nat /\ b.n <= peer[b.conn].requests
      BY <1>1, <1>15, NumberTypes DEF Shapes, Answers, Numbered
    <3>2. ~(b.conn = c /\ b.n = n)
      BY <1>4, <1>7, <3>1, NumberTypes DEF Peers
    <3>3. v # WriteOf(e)
      BY <2>2, <3>2
    <3> QED
      BY <2>4, <3>3 DEF PromiseSame
  <2> QED
    BY <1>10, <2>5, <2>6, QuietKeeps
<1> QED
  BY <1>6, <1>9, <1>13, <1>14, <1>15

LEMMA CheckIdlePeersTraffic ==
  ASSUME IInv, IInv', Traffic, NEW C \in SUBSET Conns, CheckIdlePeers(C)
  PROVE  Traffic'
<1>1. Shapes /\ Logged
  BY DEF IInv, Traffic
<1>2. PICK idle : idle = {c \in C : peer[c].idle}
  OBVIOUS
<1>3. PICK late : late = SetToSeq(C \ idle)
  OBVIOUS
<1>4. PICK writes : writes = [i \in DOMAIN late |-> Entry(late[i], 0, "408", peer[late[i]].fd)]
  OBVIOUS
<1>5. PICK ids : ids = {WriteOf(writes[i]) : i \in DOMAIN writes}
  OBVIOUS
<1>6. /\ C \subseteq {peers_[f] : f \in Fds} \ {None} /\ \A w \in ids : promise[w] = "none"
      /\ RemovePeers(idle, sock, C) /\ writesQueue' = writesQueue \o writes
      /\ promise' = [w \in Writes |-> IF w \in ids THEN "pending" ELSE promise[w]]
      /\ log' = [c \in Conns |-> IF c \in C \ idle THEN Append(log[c], <<c, 0, "408">>) ELSE log[c]]
      /\ UNCHANGED <<peersQueue, listener, app>>
  <2>1. \A w \in ids : promise[w] = "none"
    BY <1>2, <1>3, <1>4, <1>5, ZenonT(30) DEF CheckIdlePeers
  <2>2. log' = [c \in Conns |-> IF c \in C \ idle THEN Append(log[c], <<c, 0, "408">>) ELSE log[c]]
    BY <1>2 DEF CheckIdlePeers
  <2>3. promise' = [w \in Writes |-> IF w \in ids THEN "pending" ELSE promise[w]]
    BY <1>2, <1>3, <1>4, <1>5 DEF CheckIdlePeers
  <2>4. RemovePeers(idle, sock, C) /\ writesQueue' = writesQueue \o writes
    BY <1>2, <1>3, <1>4 DEF CheckIdlePeers
  <2>5. C \subseteq {peers_[f] : f \in Fds} \ {None} /\ UNCHANGED <<peersQueue, listener, app>>
    BY DEF CheckIdlePeers
  <2> QED
    BY <2>1, <2>2, <2>3, <2>4, <2>5
<1>7. \A c \in C : c \in Conns /\ Registered(c) /\ peer[c].fd \in Fds
  <2> SUFFICES ASSUME NEW c \in C PROVE c \in Conns /\ Registered(c) /\ peer[c].fd \in Fds
    OBVIOUS
  <2>1. PICK f \in Fds : c = peers_[f] /\ peers_[f] # None
    BY <1>6
  <2> QED
    BY <2>1, Held
<1>8. /\ Frame /\ DequesStand /\ \A d \in Conns : sock'[d].sent = sock[d].sent
  <2>1. idle \in SUBSET Conns /\ sock \in [Conns -> Sockets] /\ \A c \in idle : Registered(c)
    BY <1>1, <1>2, <1>7 DEF Shapes
  <2> QED
    BY <1>6, <2>1, RemoveFrame
<1>9. /\ late \in Seq(C \ idle) /\ \A i, j \in DOMAIN late : late[i] = late[j] => i = j
      /\ \A c \in C \ idle : \E i \in DOMAIN late : late[i] = c
  BY <1>3, LateOnce
<1>10. \A i \in DOMAIN late : late[i] \in C \ idle
  BY <1>9
<1>11. 0 \in 0 .. NRequests /\ "408" \in Parts
  BY NumberTypes DEF Parts
<1>12. ASSUME NEW i \in DOMAIN late
       PROVE  /\ writes[i] \in Entries /\ writes[i].conn = late[i] /\ writes[i].fd = peer[late[i]].fd
              /\ writes[i].base = 0 /\ writes[i].offset = 0 /\ writes[i].size = Size /\ writes[i].part = "408"
              /\ WriteOf(writes[i]) = <<late[i], 0, "408">> /\ WriteOf(writes[i]) \in Writes
              /\ late[i] \in Conns
  <2>1. PICK c \in Conns : c = late[i] /\ peer[c].fd \in Fds
    BY <1>7, <1>10
  <2>2. PICK f \in Fds : f = peer[c].fd
    BY <2>1
  <2>3. PICK n \in 0 .. NRequests : n = 0
    BY <1>11
  <2>4. PICK part \in Parts : part = "408"
    BY <1>11
  <2>5. writes[i] = Entry(c, n, part, f)
    BY <1>4, <2>1, <2>2, <2>3, <2>4
  <2> QED
    BY <2>1, <2>2, <2>3, <2>4, <2>5, NewEntry
<1>13. writes \in Seq(Entries) /\ DOMAIN writes = DOMAIN late
  <2>1. DOMAIN writes = DOMAIN late
    BY <1>4
  <2>2. Len(late) \in Nat /\ DOMAIN late = 1 .. Len(late)
    BY <1>9
  <2>3. writes \in [1 .. Len(late) -> Entries]
    BY <1>4, <1>12, <2>2
  <2> QED
    BY <2>1, <2>2, <2>3
<1>14. log' \in [Conns -> Seq(Writes)]
  <2>1. \A c \in Conns : log[c] \in Seq(Writes) /\ <<c, 0, "408">> \in Writes
    BY <1>1, <1>11 DEF Logged, Writes
  <2>2. ASSUME NEW c \in Conns PROVE Append(log[c], <<c, 0, "408">>) \in Seq(Writes)
    <3>1. PICK w \in Writes : w = <<c, 0, "408">>
      BY <2>1
    <3>2. log[c] \in Seq(Writes)
      BY <2>1
    <3>3. Append(log[c], w) \in Seq(Writes)
      BY <3>2, AppendProperties
    <3> QED
      BY <3>1, <3>3
  <2> QED
    BY <1>6, <2>1, <2>2
<1>15. ASSUME NEW i \in DOMAIN writes
       PROVE  /\ promise[WriteOf(writes[i])] = "none" /\ promise'[WriteOf(writes[i])] = "pending"
              /\ writes[i].base = 0 /\ writes[i].offset = 0 /\ writes[i].size = Size
              /\ sock'[writes[i].conn].state = "open" => writes[i].fd = peer'[writes[i].conn].fd
              /\ Past(writes[i].conn)'
              /\ log'[writes[i].conn] = Append(log[writes[i].conn], WriteOf(writes[i]))
  <2>1. PICK c \in C \ idle : c = late[i] /\ c = writes[i].conn /\ c \in Conns /\ writes[i].fd = peer[c].fd
    BY <1>7, <1>10, <1>12, <1>13
  <2>2. PICK w \in Writes : w = WriteOf(writes[i]) /\ w = <<c, 0, "408">>
    BY <1>12, <1>13, <2>1
  <2>3. w \in ids
    BY <1>5, <2>2
  <2>4. promise[w] = "none" /\ promise'[w] = "pending" /\ log'[c] = Append(log[c], w)
    BY <1>6, <2>1, <2>2, <2>3
  <2>5. Past(c)
    BY <1>7, <2>1 DEF Past
  <2>6. Past(c)' /\ (sock'[c].state = "open" => peer'[c].fd = peer[c].fd)
    BY <1>8, <2>1, <2>5 DEF Frame, PastStays, SameHold
  <2> QED
    BY <1>12, <1>13, <2>1, <2>2, <2>4, <2>6 DEF Past, Registered
<1>16. \A i, j \in DOMAIN writes : writes[i].conn = writes[j].conn => i = j
  BY <1>9, <1>12, <1>13
<1>17. \A c \in Conns : (\A i \in DOMAIN writes : writes[i].conn # c) => log'[c] = log[c]
  <2> SUFFICES ASSUME NEW c \in Conns, \A i \in DOMAIN writes : writes[i].conn # c PROVE log'[c] = log[c]
    OBVIOUS
  <2>1. c \notin C \ idle
    <3> SUFFICES ASSUME c \in C \ idle PROVE FALSE
      OBVIOUS
    <3>1. PICK i \in DOMAIN late : late[i] = c
      BY <1>9
    <3>2. i \in DOMAIN writes /\ writes[i].conn = c
      BY <1>12, <1>13, <3>1
    <3> QED
      BY <3>2
  <2> QED
    BY <1>6, <2>1
<1>18. Adds(writes)
  BY <1>6, <1>13, <1>14, <1>15, <1>16, <1>17 DEF Adds
<1>19. PromiseSame(writes) /\ \A i \in DOMAIN writes : writes[i].part # "body"
  BY <1>5, <1>6, <1>12, <1>13 DEF PromiseSame
<1>20. Quietly(writes)
  BY <1>8, <1>18, <1>19 DEF Quietly, SameBytes
<1>21. Apps'
  <2> SUFFICES ASSUME NEW v \in Writes, promise[v] = "none", NEW b \in app', v = <<b.conn, b.n, "raw">>
               PROVE  promise'[v] = "none"
    BY <1>6, <1>8, AppsKept DEF Traffic
  <2>1. v \notin ids
    BY <1>5, <1>12, <1>13
  <2> QED
    BY <1>6, <2>1
<1> QED
  BY <1>8, <1>20, <1>21, QuietKeeps

-----------------------------------------------------------------------------
\* Steps of asyncWriteImpl.  The first entry of the deque at hand.
LEMMA AtHead ==
  ASSUME IInv, Traffic, WriteStep, NEW f, f = io.fd, NEW e, e = Head(toWrite[f])
  PROVE  /\ f \in Fds /\ toWrite[f] # None /\ toWrite[f] # <<>> /\ e = toWrite[f][1]
         /\ toWrite[f] \in Seq(Entries) /\ Len(toWrite[f]) \in Nat \ {0} /\ open[f] \in Conns
         /\ e \in Entries /\ e.fd = f /\ WriteOf(e) \in Writes /\ e.conn \in Conns /\ Past(e.conn)
         /\ e.base \in Nat /\ e.offset \in Nat /\ e.size \in Nat /\ Left(e) = e.size - e.offset
         /\ e.base + e.offset + Left(e) = Size /\ e.base + e.size = Size /\ Left(e) \in Nat
         /\ promise[WriteOf(e)] = "pending"
         /\ sock[e.conn].state = "open" => e.fd = peer[e.conn].fd
<1>1. DequesDue /\ Logged
  BY DEF Traffic
<1>2. /\ f \in Fds /\ toWrite[f] # None /\ toWrite[f] # <<>> /\ toWrite[f] \in Seq(Entries)
      /\ open[f] \in Conns /\ e \in Entries /\ e.fd = f /\ Left(e) \in 1 .. Size
  BY AtHand
<1>3. e = toWrite[f][1] /\ 1 \in DOMAIN toWrite[f] /\ Len(toWrite[f]) \in Nat \ {0}
  BY <1>2
<1>4. Due(e)
  BY <1>1, <1>2, <1>3 DEF DequesDue
<1>5. WriteOf(e) \in Writes /\ e.conn \in Conns
  BY <1>2, WriteTypes
<1>6. PICK c \in Conns : c = e.conn
  BY <1>5
<1>7. log[c] \in Seq(Writes) /\ WriteOf(e) \in Range(log[c])
  BY <1>1, <1>4, <1>6 DEF Due, Logged
<1>8. log[c] # <<>>
  BY <1>7 DEF Range
<1>9. Past(e.conn)
  BY <1>1, <1>6, <1>8 DEF Logged
<1>10. e.base \in Nat /\ e.offset \in Nat /\ e.size \in Nat
  BY <1>2 DEF Entries
<1>11. e.base + e.size = Size /\ e.base + e.offset + Left(e) = Size /\ Left(e) \in Nat
  BY <1>2, <1>4, <1>10, NumberTypes DEF Due, Left
<1> QED
  BY <1>2, <1>3, <1>4, <1>5, <1>9, <1>10, <1>11 DEF Due, Left

\* send() appends the bytes that it takes.
LEMMA SentMore ==
  ASSUME Shapes, NEW c \in Conns, NEW e \in Entries, NEW k \in Nat, sock[c].used + k \in 0 .. Room,
         NEW s, s = Sent(c, e, k)
  PROVE  /\ \A d \in Conns : s[d].reset = sock[d].reset
         /\ (\A d \in Conns : sock'[d].sent = s[d].sent) => Grows(c, WriteOf(e), e.base + e.offset, k)
<1>1. sock \in [Conns -> Sockets] /\ sock[c] \in Sockets
  BY DEF Shapes
<1>2. PICK b : b = [i \in 1 .. k |-> <<WriteOf(e), e.base + e.offset + i>>]
  OBVIOUS
<1>3. b \in Seq(Writes \X Int) /\ Len(b) = k
  <2>1. WriteOf(e) \in Writes
    BY WriteTypes
  <2>2. \A i \in 1 .. k : e.base + e.offset + i \in Int
    BY DEF Entries
  <2>3. b \in [1 .. k -> Writes \X Int]
    BY <1>2, <2>1, <2>2
  <2> QED
    BY <2>3
<1>4. PICK q : q = sock[c].sent
  OBVIOUS
<1>5. q \in Seq(Writes \X Int) /\ Len(q) \in Nat
  <2>1. q \in Seq(Writes \X Int)
    BY <1>1, <1>4 DEF Sockets
  <2> QED
    BY <2>1
<1>6. PICK n : n = [sock[c] EXCEPT !.used = @ + k, !.sent = @ \o b]
  OBVIOUS
<1>7. n.reset = sock[c].reset /\ n.sent = q \o b
  BY <1>1, <1>4, <1>6 DEF Sockets
<1>8. s = [sock EXCEPT ![c] = n]
  BY <1>1, <1>2, <1>6 DEF Sent
<1>9. s[c] = n /\ \A d \in Conns : d # c => s[d] = sock[d]
  BY <1>1, <1>8
<1>10. /\ Len(q \o b) = Len(q) + k
       /\ \A i \in 1 .. Len(q) + k : (q \o b)[i] = IF i <= Len(q) THEN q[i] ELSE b[i - Len(q)]
  BY <1>3, <1>5, ConcatProperties
<1>11. /\ \A x \in 1 .. Len(q) : (q \o b)[x] = q[x]
       /\ \A x \in 1 .. k : (q \o b)[Len(q) + x] = <<WriteOf(e), e.base + e.offset + x>>
  <2>1. \A x \in 1 .. Len(q) : x \in 1 .. Len(q) + k /\ x <= Len(q)
    BY <1>5
  <2>2. \A x \in 1 .. k : Len(q) + x \in 1 .. Len(q) + k /\ ~(Len(q) + x <= Len(q)) /\ (Len(q) + x) - Len(q) = x
    BY <1>5
  <2>3. \A x \in 1 .. k : (q \o b)[Len(q) + x] = b[x]
    BY <1>10, <2>2
  <2>4. \A x \in 1 .. k : b[x] = <<WriteOf(e), e.base + e.offset + x>>
    BY <1>2
  <2> QED
    BY <1>10, <2>1, <2>3, <2>4
<1>12. ASSUME \A d \in Conns : sock'[d].sent = s[d].sent
       PROVE  Grows(c, WriteOf(e), e.base + e.offset, k)
  <2>1. sock'[c].sent = q \o b /\ \A d \in Conns : d # c => sock'[d].sent = sock[d].sent
    BY <1>7, <1>9, <1>12
  <2> QED
    BY <1>4, <1>10, <1>11, <2>1 DEF Grows
<1> QED
  BY <1>7, <1>9, <1>12

LEMMA NoneSent ==
  ASSUME Shapes, SameBytes, NEW c \in Conns, NEW w, NEW m \in Nat
  PROVE  Grows(c, w, m, 0)
<1>1. Len(sock[c].sent) \in Nat
  BY SentTyped
<1> QED
  BY <1>1 DEF Grows, SameBytes

\* Nothing joins the queue.
LEMMA NoneAdded ==
  ASSUME Shapes, Logged, UNCHANGED <<writesQueue, log>>
  PROVE  \E ws : Adds(ws) /\ \A i \in DOMAIN ws : FALSE
<1>1. PICK ws : ws = <<>> /\ ws \in Seq(Entries)
  <2>1. <<>> \in Seq(Entries)
    OBVIOUS
  <2> QED
    BY <2>1
<1>2. \A i \in DOMAIN ws : FALSE
  BY <1>1
<1>3. writesQueue' = writesQueue \o ws
  BY <1>1 DEF Shapes
<1>4. Adds(ws)
  <2>1. log' \in [Conns -> Seq(Writes)]
    BY DEF Logged
  <2>2. ws \in Seq(Entries)
    BY <1>1
  <2> QED
    BY <1>2, <1>3, <2>1, <2>2 DEF Adds
<1> QED
  BY <1>2, <1>4

\* The first entry of the deque of f is gone, with it the deque when it was the only one or when
\* the peer is removed.
HeadGone(f) ==
  /\ \A g \in Fds : g # f => toWrite'[g] = toWrite[g] /\ open'[g] = open[g]
  /\ \/ toWrite'[f] = None /\ ((Len(toWrite[f]) = 1 /\ open'[f] = open[f]) \/ open'[f] = None)
     \/ toWrite'[f] = Tail(toWrite[f]) /\ open'[f] = open[f]

LEMMA CleanUpGone ==
  ASSUME Shapes, NEW f \in Fds, toWrite[f] # None, toWrite[f] # <<>>, NEW s, CleanUp(f, s), open' = open
  PROVE  HeadGone(f)
<1>1. PICK q \in Seq(Entries) : q = toWrite[f] /\ q # <<>>
  BY DEF Shapes
<1>2. toWrite' = [toWrite EXCEPT ![f] = IF Tail(q) = <<>> THEN None ELSE Tail(q)]
  BY <1>1 DEF CleanUp
<1>3. toWrite \in [Fds -> Seq(Entries) \cup {None}]
  BY DEF Shapes
<1>4. /\ \A g \in Fds : g # f => toWrite'[g] = toWrite[g]
      /\ toWrite'[f] = IF Tail(q) = <<>> THEN None ELSE Tail(q)
  BY <1>2, <1>3
<1>5. Tail(q) = <<>> => Len(q) = 1
  <2>1. Len(q) \in Nat \ {0} /\ Len(Tail(q)) = Len(q) - 1
    BY <1>1
  <2>2. PICK z : z = Tail(q)
    OBVIOUS
  <2>3. z = <<>> => Len(z) = 0
    OBVIOUS
  <2> QED
    BY <2>1, <2>2, <2>3
<1> QED
  BY <1>1, <1>4, <1>5 DEF HeadGone

\* The entry is settled, and nothing follows it.
LEMMA SettleHead ==
  ASSUME IInv, IInv', Traffic, WriteStep, Frame, NEW f, f = io.fd, NEW e, e = Head(toWrite[f]),
         NEW k \in Nat, Grows(open[f], WriteOf(e), e.base + e.offset, k), e.base + e.offset + k <= Size,
         k > 0 => ~sock[open[f]].reset,
         NEW fate \in {"fulfilled", "rejected"}, fate = "fulfilled" => e.base + e.offset + k = Size,
         promise' = [promise EXCEPT ![WriteOf(e)] = fate],
         UNCHANGED <<writesQueue, log, app>>, HeadGone(f)
  PROVE  Traffic'
<1>1. Shapes /\ Logged
  BY DEF IInv, Traffic
<1>2. PICK ws : Adds(ws) /\ \A i \in DOMAIN ws : FALSE
  BY <1>1, NoneAdded
<1>3. /\ f \in Fds /\ toWrite[f] # None /\ toWrite[f] # <<>> /\ e = toWrite[f][1] /\ WriteOf(e) \in Writes
  BY AtHead
<1>4. promise'[WriteOf(e)] = fate /\ \A w \in Writes : w # WriteOf(e) => promise'[w] = promise[w]
  <2>1. promise \in [Writes -> Fates]
    BY <1>1 DEF Shapes
  <2> QED
    BY <1>3, <2>1
<1>5. Headly(f, e, k, fate, ws)
  BY <1>2, <1>3, <1>4 DEF Headly, HeadGone
<1> QED
  BY <1>5, HeadKeeps

\* A send leaves peers and descriptors alone.
LEMMA SendFrame ==
  ASSUME IInv, UNCHANGED <<peer, peers_>>, NEW s, sock' = s,
         \A d \in Conns : s[d].state = sock[d].state /\ s[d].reset = sock[d].reset
  PROVE  Frame
<1>1. Shapes /\ Owned
  BY DEF IInv
<1> QED
  BY <1>1, FrameOf

\* closePeer: the peer that e was written for is removed.
LEMMA ClosePeerGone ==
  ASSUME IInv, IInv', Traffic, WriteStep, NEW f, f = io.fd, NEW e, e = Head(toWrite[f]), peer[e.conn].fd = f,
         NEW s \in [Conns -> Sockets], RemovePeers({e.conn}, s, {}),
         \A d \in Conns : s[d].state = sock[d].state /\ s[d].inbox = sock[d].inbox
                          /\ s[d].asked = sock[d].asked,
         \A d \in Conns : s[d].reset = sock[d].reset,
         UNCHANGED <<peersQueue, listener>>
  PROVE  Frame /\ HeadGone(f) /\ \A d \in Conns : sock'[d].sent = s[d].sent
<1>1. Shapes /\ Owned
  BY DEF IInv
<1>2. e.conn \in Conns /\ Past(e.conn) /\ f \in Fds
  BY AtHead
<1>3. PICK c \in Conns : c = e.conn
  BY <1>2
<1>4. peer[c].fd # None => Registered(c)
  BY <1>1, <1>2, <1>3 DEF Past, Owned
<1>5. RemovePeers({c}, s, {}) /\ {c} \in SUBSET Conns /\ peer[c].fd = f
  BY <1>3
<1>6. /\ Frame /\ \A d \in Conns : sock'[d].sent = s[d].sent
      /\ \A g \in Fds : (\E d \in {c} : peer[d].fd = g) => toWrite'[g] = None /\ open'[g] = None
      /\ \A g \in Fds : (\A d \in {c} : peer[d].fd # g) => toWrite'[g] = toWrite[g] /\ open'[g] = open[g]
  <2> DEFINE C == {c}
  <2>1. \A d \in C : peer[d].fd # None => Registered(d)
    BY <1>4
  <2>2. RemovePeers(C, s, {}) /\ C \in SUBSET Conns
    BY <1>5
  <2> HIDE DEF C
  <2>3. /\ Frame /\ \A d \in Conns : sock'[d].sent = s[d].sent
        /\ \A g \in Fds : (\E d \in C : peer[d].fd = g) => toWrite'[g] = None /\ open'[g] = None
        /\ \A g \in Fds : (\A d \in C : peer[d].fd # g) => toWrite'[g] = toWrite[g] /\ open'[g] = open[g]
    BY <2>1, <2>2, RemoveFrame
  <2> QED
    BY <2>3 DEF C
<1>7. HeadGone(f)
  BY <1>2, <1>5, <1>6 DEF HeadGone
<1> QED
  BY <1>6, <1>7

LEMMA WriteFailsTraffic == ASSUME IInv, IInv', Traffic, WriteFails PROVE Traffic'
<1>1. Shapes
  BY DEF IInv
<1>2. PICK f : f = io.fd
  OBVIOUS
<1>3. PICK e : e = Head(toWrite[f])
  OBVIOUS
<1>4. /\ WriteStep /\ promise' = [promise EXCEPT ![WriteOf(e)] = "rejected"]
      /\ UNCHANGED <<writesQueue, peersQueue, listener, app, log>>
      /\ CleanUp(f, sock[open[f]]) /\ UNCHANGED <<sock, open, peer, peers_>>
  BY <1>2, <1>3 DEF WriteFails
<1>5. /\ f \in Fds /\ toWrite[f] # None /\ toWrite[f] # <<>> /\ open[f] \in Conns
      /\ e.base \in Nat /\ e.offset \in Nat /\ Left(e) \in Nat /\ e.base + e.offset + Left(e) = Size
  BY <1>2, <1>3, <1>4, AtHead
<1>6. PICK m \in Nat : m = e.base + e.offset /\ m + 0 <= Size
  <2>1. e.base + e.offset \in Nat /\ e.base + e.offset + 0 <= Size
    BY <1>5, NumberTypes
  <2> QED
    BY <2>1
<1>7. Frame /\ HeadGone(f) /\ SameBytes
  <2>1. Frame
    BY <1>4, SendFrame
  <2>2. HeadGone(f)
    BY <1>1, <1>4, <1>5, CleanUpGone
  <2> QED
    BY <1>4, <2>1, <2>2 DEF SameBytes
<1>8. Grows(open[f], WriteOf(e), m, 0)
  BY <1>1, <1>5, <1>6, <1>7, NoneSent
<1>9. 0 \in Nat /\ ~(0 > 0) /\ "rejected" \in {"fulfilled", "rejected"} /\ "rejected" # "fulfilled"
  OBVIOUS
<1> QED
  BY <1>2, <1>3, <1>4, <1>6, <1>7, <1>8, <1>9, SettleHead

\* A body follows its head.
LEMMA HeadFollowed ==
  ASSUME IInv, IInv', Traffic, WriteStep, Frame, NEW f, f = io.fd, NEW e, e = Head(toWrite[f]),
         NEW k \in Nat, Grows(open[f], WriteOf(e), e.base + e.offset, k), e.base + e.offset + k = Size,
         ~sock[open[f]].reset, HeadGone(f), UNCHANGED <<app, peer>>, Follows(e)
  PROVE  Traffic'
<1>1. Shapes /\ Logged /\ BodyLast
  BY DEF IInv, Traffic
<1>2. /\ f \in Fds /\ toWrite[f] # None /\ toWrite[f] # <<>> /\ e = toWrite[f][1] /\ e \in Entries
      /\ e.fd = f /\ WriteOf(e) \in Writes /\ e.conn \in Conns /\ Past(e.conn)
      /\ promise[WriteOf(e)] = "pending" /\ (sock[e.conn].state = "open" => e.fd = peer[e.conn].fd)
  <2>1. f \in Fds /\ toWrite[f] # None /\ toWrite[f] # <<>> /\ e = toWrite[f][1]
    BY AtHead
  <2>2. e \in Entries /\ e.fd = f /\ WriteOf(e) \in Writes /\ e.conn \in Conns
    BY AtHead
  <2>3. Past(e.conn) /\ promise[WriteOf(e)] = "pending"
    BY AtHead
  <2>4. sock[e.conn].state = "open" => e.fd = peer[e.conn].fd
    BY AtHead
  <2> QED
    BY <2>1, <2>2, <2>3, <2>4
<1>3. PICK c \in Conns : c = e.conn
  BY <1>2
<1>4. PICK n \in 0 .. NRequests : n = e.n
  BY <1>2 DEF Entries
<1>5. PICK part \in Parts : part = "body"
  BY DEF Parts
<1>6. PICK b \in Entries : /\ b = Entry(c, n, part, f) /\ b.conn = c /\ b.n = n /\ b.part = part /\ b.fd = f
                           /\ b.base = 0 /\ b.offset = 0 /\ b.size = Size
                           /\ WriteOf(b) = <<c, n, part>> /\ WriteOf(b) \in Writes
  BY <1>2, NewEntry
<1>7. PICK v \in Writes : v = WriteOf(b) /\ v = <<e.conn, e.n, "body">>
  BY <1>3, <1>4, <1>5, <1>6
<1>8. PICK w \in Writes : w = WriteOf(e) /\ w = <<c, n, "head">>
  BY <1>2, <1>3, <1>4 DEF WriteOf, Follows
<1>9. v # w /\ promise[v] = "none"
  <2>1. v = <<c, n, "body">>
    BY <1>3, <1>4, <1>7
  <2>2. promise[<<c, n, "head">>] = "pending"
    BY <1>2, <1>8
  <2>3. promise[<<c, n, "body">>] = "none"
    BY <1>1, <2>2 DEF BodyLast
  <2> QED
    BY <1>8, <2>1, <2>3
<1>10. /\ promise'[w] = "fulfilled" /\ promise'[v] = "pending"
       /\ \A u \in Writes : u # w /\ u # v => promise'[u] = promise[u]
  <2>1. promise \in [Writes -> Fates]
    BY <1>1 DEF Shapes
  <2>2. promise' = [promise EXCEPT ![w] = "fulfilled", ![v] = "pending"]
    BY <1>7, <1>8 DEF Follows
  <2> QED
    BY <1>9, <2>1, <2>2
<1>11. PICK ws : ws = <<b>> /\ ws \in Seq(Entries) /\ DOMAIN ws = {1} /\ ws[1] = b
  <2>1. <<b>> \in Seq(Entries) /\ DOMAIN <<b>> = {1} /\ <<b>>[1] = b
    OBVIOUS
  <2> QED
    BY <2>1
<1>12. writesQueue' = writesQueue \o ws
  <2>1. writesQueue \in Seq(Entries)
    BY <1>1 DEF Shapes
  <2>2. writesQueue' = Append(writesQueue, b)
    BY <1>2, <1>3, <1>4, <1>5, <1>6 DEF Follows
  <2>3. Append(writesQueue, b) = writesQueue \o <<b>>
    BY <2>1, AppendIsConcat
  <2> QED
    BY <1>11, <2>2, <2>3
<1>13. /\ log' \in [Conns -> Seq(Writes)] /\ log'[c] = Append(log[c], v)
       /\ \A d \in Conns : d # c => log'[d] = log[d]
  <2>1. log \in [Conns -> Seq(Writes)] /\ log[c] \in Seq(Writes)
    BY <1>1 DEF Logged
  <2>2. log' = [log EXCEPT ![c] = Append(log[c], v)]
    BY <1>3, <1>7 DEF Follows
  <2>3. Append(log[c], v) \in Seq(Writes)
    BY <2>1, AppendProperties
  <2> QED
    BY <2>1, <2>2, <2>3
<1>14. Past(c)' /\ (sock'[c].state = "open" => f = peer'[c].fd)
  BY <1>2, <1>3 DEF Frame, PastStays, SameHold, Past, Registered
<1>15. Adds(ws)
  <2>1. \A i \in DOMAIN ws :
          /\ promise[WriteOf(ws[i])] = "none" /\ promise'[WriteOf(ws[i])] = "pending"
          /\ ws[i].base = 0 /\ ws[i].offset = 0 /\ ws[i].size = Size
          /\ sock'[ws[i].conn].state = "open" => ws[i].fd = peer'[ws[i].conn].fd
          /\ Past(ws[i].conn)' /\ log'[ws[i].conn] = Append(log[ws[i].conn], WriteOf(ws[i]))
    <3>1. promise[WriteOf(b)] = "none" /\ promise'[WriteOf(b)] = "pending"
      BY <1>7, <1>9, <1>10
    <3>2. /\ sock'[b.conn].state = "open" => b.fd = peer'[b.conn].fd
          /\ log'[b.conn] = Append(log[b.conn], WriteOf(b))
      BY <1>6, <1>7, <1>13, <1>14
    <3>3. Past(b.conn)'
      BY <1>6, <1>14 DEF Past, Registered
    <3>4. \A i \in DOMAIN ws : ws[i] = b
      BY <1>11
    <3> QED
      BY <1>6, <3>1, <3>2, <3>3, <3>4 DEF Past, Registered
  <2>2. \A d \in Conns : (\A i \in DOMAIN ws : ws[i].conn # d) => log'[d] = log[d]
    <3>1. ws[1].conn = c /\ 1 \in DOMAIN ws
      BY <1>6, <1>11
    <3> QED
      BY <1>13, <3>1
  <2>3. \A i, j \in DOMAIN ws : ws[i].conn = ws[j].conn => i = j
    BY <1>11
  <2> QED
    BY <1>11, <1>12, <1>13, <2>1, <2>2, <2>3 DEF Adds
<1>16. PICK fate : fate = "fulfilled"
  OBVIOUS
<1>17. Headly(f, e, k, fate, ws)
  <2>1. \A i \in DOMAIN ws : /\ ws[i].part = "body" /\ ws[i].conn = e.conn /\ ws[i].n = e.n
                             /\ e.part = "head" /\ fate = "fulfilled"
    <3>1. e.part = "head"
      BY DEF Follows
    <3>2. b.part = "body" /\ b.conn = e.conn /\ b.n = e.n
      BY <1>3, <1>4, <1>5, <1>6
    <3>3. \A i \in DOMAIN ws : ws[i] = b
      BY <1>11
    <3> QED
      BY <1>16, <3>1, <3>2, <3>3
  <2>2. \A u \in Writes : u # WriteOf(e) /\ (\A i \in DOMAIN ws : WriteOf(ws[i]) # u) => promise'[u] = promise[u]
    BY <1>7, <1>8, <1>10, <1>11
  <2>3. e.base + e.offset + k <= Size
    BY NumberTypes
  <2> QED
    BY <1>2, <1>8, <1>10, <1>15, <1>16, <2>1, <2>2, <2>3 DEF Headly, HeadGone
<1> QED
  BY <1>17, HeadKeeps

LEMMA WriteDoneTraffic == ASSUME IInv, IInv', Traffic, WriteDone PROVE Traffic'
<1>1. Shapes
  BY DEF IInv
<1>2. PICK f : f = io.fd
  OBVIOUS
<1>3. PICK e : e = Head(toWrite[f])
  OBVIOUS
<1>4. PICK c : c = open[f]
  OBVIOUS
<1>5. PICK k : k = Left(e)
  OBVIOUS
<1>6. PICK s : s = Sent(c, e, k)
  BY Zenon
<1>7. /\ WriteStep /\ ~sock[c].reset /\ Taken(e) = k /\ UNCHANGED <<peersQueue, listener, app>>
      /\ \/ Follows(e) /\ sock' = s /\ CleanUp(f, s[c]) /\ UNCHANGED <<open, peer, peers_>>
         \/ /\ peer[e.conn].fd = f /\ RemovePeers({e.conn}, s, {})
            /\ promise' = [promise EXCEPT ![WriteOf(e)] = "fulfilled"]
            /\ UNCHANGED <<writesQueue, log>>
         \/ /\ sock' = s /\ CleanUp(f, s[c])
            /\ promise' = [promise EXCEPT ![WriteOf(e)] = "fulfilled"]
            /\ UNCHANGED <<open, peer, peers_, writesQueue, log>>
  BY <1>2, <1>3, <1>4, <1>5, <1>6 DEF WriteDone, Follows
<1>8. /\ f \in Fds /\ toWrite[f] # None /\ toWrite[f] # <<>> /\ c \in Conns /\ e \in Entries
      /\ e.base \in Nat /\ e.offset \in Nat /\ k \in Nat /\ e.base + e.offset + k = Size
  <2>1. /\ f \in Fds /\ toWrite[f] # None /\ toWrite[f] # <<>> /\ c \in Conns /\ e \in Entries
    BY <1>2, <1>3, <1>4, <1>7, AtHead
  <2>2. e.base \in Nat /\ e.offset \in Nat /\ k \in Nat /\ e.base + e.offset + k = Size
    <3>1. /\ e.base \in Nat /\ e.offset \in Nat /\ Left(e) \in Nat
          /\ e.base + e.offset + Left(e) = Size
      BY <1>2, <1>3, <1>7, AtHead
    <3> QED
      BY <1>5, <3>1
  <2> QED
    BY <2>1, <2>2
<1>9. sock[c].used + k \in 0 .. Room
  BY <1>2, <1>3, <1>4, <1>7, AtHand
<1>10. /\ s \in [Conns -> Sockets]
       /\ \A d \in Conns : s[d].state = sock[d].state /\ s[d].inbox = sock[d].inbox
                           /\ s[d].asked = sock[d].asked
  BY <1>1, <1>6, <1>8, <1>9, SentTypes
<1>11. /\ \A d \in Conns : s[d].reset = sock[d].reset
       /\ (\A d \in Conns : sock'[d].sent = s[d].sent) => Grows(c, WriteOf(e), e.base + e.offset, k)
  BY <1>1, <1>6, <1>8, <1>9, SentMore
<1>12. e.base + e.offset + k <= Size /\ "fulfilled" \in {"fulfilled", "rejected"}
  BY <1>8, NumberTypes
<1>13. ASSUME sock' = s, CleanUp(f, s[c]), UNCHANGED <<open, peer, peers_>>
       PROVE  Frame /\ HeadGone(f) /\ Grows(c, WriteOf(e), e.base + e.offset, k)
  <2>1. Frame
    BY <1>10, <1>11, <1>13, SendFrame
  <2>2. HeadGone(f)
    BY <1>1, <1>8, <1>13, CleanUpGone
  <2> QED
    BY <1>11, <1>13, <2>1, <2>2
<1>14. CASE Follows(e) /\ sock' = s /\ CleanUp(f, s[c]) /\ UNCHANGED <<open, peer, peers_>>
  BY <1>2, <1>3, <1>4, <1>7, <1>8, <1>13, <1>14, HeadFollowed
<1>15. CASE /\ peer[e.conn].fd = f /\ RemovePeers({e.conn}, s, {})
            /\ promise' = [promise EXCEPT ![WriteOf(e)] = "fulfilled"]
            /\ UNCHANGED <<writesQueue, log>>
  <2>1. Frame /\ HeadGone(f) /\ \A d \in Conns : sock'[d].sent = s[d].sent
    BY <1>2, <1>3, <1>7, <1>10, <1>11, <1>15, ClosePeerGone
  <2>2. Grows(c, WriteOf(e), e.base + e.offset, k)
    BY <1>11, <2>1
  <2> QED
    BY <1>2, <1>3, <1>4, <1>7, <1>8, <1>12, <1>15, <2>1, <2>2, SettleHead
<1>16. CASE /\ sock' = s /\ CleanUp(f, s[c])
            /\ promise' = [promise EXCEPT ![WriteOf(e)] = "fulfilled"]
            /\ UNCHANGED <<open, peer, peers_, writesQueue, log>>
  BY <1>2, <1>3, <1>4, <1>7, <1>8, <1>12, <1>13, <1>16, SettleHead
<1> QED
  BY <1>7, <1>14, <1>15, <1>16

LEMMA WriteAgainTraffic == ASSUME IInv, IInv', Traffic, WriteAgain PROVE Traffic'
<1>1. Shapes /\ Logged
  BY DEF IInv, Traffic
<1>2. PICK f : f = io.fd
  OBVIOUS
<1>3. PICK e : e = Head(toWrite[f])
  OBVIOUS
<1>4. PICK c : c = open[f]
  OBVIOUS
<1>5. PICK k : k = Taken(e)
  OBVIOUS
<1>6. PICK rest : rest = IF e.part = "body" THEN [e EXCEPT !.offset = e.offset + k]
                         ELSE [e EXCEPT !.base = @ + (e.offset + k), !.size = @ - (e.offset + k), !.offset = 0]
  OBVIOUS
<1>7. PICK s : s = Sent(c, e, k)
  OBVIOUS
<1>8. /\ WriteStep /\ ~sock[c].reset /\ k < Left(e) /\ sock' = s
      /\ toWrite' = [toWrite EXCEPT ![f] = <<rest>> \o Tail(@)]
      /\ UNCHANGED <<open, peer, peers_, writesQueue, peersQueue, listener, app, promise, log>>
  BY <1>2, <1>3, <1>4, <1>5, <1>6, <1>7 DEF WriteAgain
<1>9. /\ f \in Fds /\ toWrite[f] # None /\ toWrite[f] # <<>> /\ e = toWrite[f][1]
      /\ toWrite[f] \in Seq(Entries) /\ Len(toWrite[f]) \in Nat \ {0} /\ c \in Conns /\ e \in Entries
      /\ e.base \in Nat /\ e.offset \in Nat /\ e.size \in Nat /\ Left(e) = e.size - e.offset
      /\ e.base + e.size = Size /\ promise[WriteOf(e)] = "pending"
  <2>1. /\ f \in Fds /\ toWrite[f] # None /\ toWrite[f] # <<>> /\ e = toWrite[f][1]
        /\ toWrite[f] \in Seq(Entries) /\ Len(toWrite[f]) \in Nat \ {0} /\ c \in Conns /\ e \in Entries
    BY <1>2, <1>3, <1>4, <1>8, AtHead
  <2>2. /\ e.base \in Nat /\ e.offset \in Nat /\ e.size \in Nat /\ Left(e) = e.size - e.offset
        /\ e.base + e.size = Size /\ promise[WriteOf(e)] = "pending"
    BY <1>2, <1>3, <1>8, AtHead
  <2> QED
    BY <2>1, <2>2
<1>10. sock[c].used + k \in 0 .. Room /\ k \in Nat /\ Tail(toWrite[f]) \in Seq(Entries)
  <2>1. sock[c].used + k \in 0 .. Room /\ k \in 0 .. Left(e) /\ Left(e) \in 1 .. Size /\ Tail(toWrite[f]) \in Seq(Entries)
    BY <1>2, <1>3, <1>4, <1>5, <1>8, AtHand
  <2> QED
    BY <2>1, NumberTypes
<1>11. /\ s \in [Conns -> Sockets]
       /\ \A d \in Conns : s[d].state = sock[d].state /\ s[d].reset = sock[d].reset
       /\ Grows(c, WriteOf(e), e.base + e.offset, k)
  <2>1. /\ s \in [Conns -> Sockets] /\ \A d \in Conns : s[d].state = sock[d].state
    BY <1>1, <1>7, <1>9, <1>10, SentTypes
  <2>2. /\ \A d \in Conns : s[d].reset = sock[d].reset
        /\ Grows(c, WriteOf(e), e.base + e.offset, k)
    BY <1>1, <1>7, <1>8, <1>9, <1>10, SentMore
  <2> QED
    BY <2>1, <2>2
<1>12. Frame
  BY <1>8, <1>11, SendFrame
<1>13. e.base + e.offset + k <= Size
  BY <1>8, <1>9, <1>10, NumberTypes
<1>14. /\ rest.conn = e.conn /\ rest.n = e.n /\ rest.part = e.part /\ rest.fd = e.fd
       /\ rest.base + rest.size = Size /\ rest.base + rest.offset = e.base + e.offset + k
  <2>1. CASE e.part = "body"
    <3>1. rest = [e EXCEPT !.offset = e.offset + k]
      BY <1>6, <2>1
    <3>2. /\ rest.conn = e.conn /\ rest.n = e.n /\ rest.part = e.part /\ rest.fd = e.fd
          /\ rest.base = e.base /\ rest.size = e.size /\ rest.offset = e.offset + k
      BY <1>9, <3>1 DEF Entries
    <3> QED
      BY <1>9, <1>10, <3>2
  <2>2. CASE e.part # "body"
    <3>1. rest = [e EXCEPT !.base = @ + (e.offset + k), !.size = @ - (e.offset + k), !.offset = 0]
      BY <1>6, <2>2
    <3>2. /\ rest.conn = e.conn /\ rest.n = e.n /\ rest.part = e.part /\ rest.fd = e.fd
          /\ rest.base = e.base + (e.offset + k) /\ rest.size = e.size - (e.offset + k) /\ rest.offset = 0
      BY <1>9, <3>1 DEF Entries
    <3> QED
      BY <1>9, <1>10, <3>2
  <2> QED
    BY <2>1, <2>2
<1>15. WriteOf(rest) = WriteOf(e)
  BY <1>14 DEF WriteOf
<1>16. PICK q : q = <<rest>> \o Tail(toWrite[f])
  OBVIOUS
<1>17. /\ q[1] = rest /\ Len(q) = Len(toWrite[f])
       /\ \A i \in DOMAIN toWrite[f] : i > 1 => q[i] = toWrite[f][i]
  <2>1. PICK r \in Seq(Entries) : r = Tail(toWrite[f])
    BY <1>10
  <2>2. PICK old \in Seq(Entries) : old = toWrite[f] /\ Len(old) \in Nat \ {0} /\ old # <<>>
    BY <1>9
  <2>3. /\ Len(r) = Len(old) - 1 /\ Len(r) \in Nat /\ DOMAIN old = 1 .. Len(old)
        /\ \A i \in 1 .. Len(r) : r[i] = old[i + 1]
    BY <2>1, <2>2
  <2>4. q = <<rest>> \o r
    BY <1>16, <2>1
  <2>5. Len(q) = 1 + Len(r) /\ q[1] = rest /\ \A i \in 2 .. 1 + Len(r) : q[i] = r[i - 1]
    <3>1. PICK T : T = Entries \cup {rest}
      OBVIOUS
    <3>2. <<rest>> \in Seq(T) /\ Len(<<rest>>) = 1 /\ <<rest>>[1] = rest /\ r \in Seq(T)
      BY <3>1
    <3>3. /\ Len(<<rest>> \o r) = Len(<<rest>>) + Len(r)
          /\ \A i \in 1 .. Len(<<rest>>) + Len(r) : (<<rest>> \o r)[i] =
               IF i <= Len(<<rest>>) THEN <<rest>>[i] ELSE r[i - Len(<<rest>>)]
      BY <3>2, ConcatProperties
    <3> QED
      BY <2>3, <2>4, <3>2, <3>3
  <2>6. ASSUME NEW i \in DOMAIN old, i > 1 PROVE q[i] = old[i]
    <3>1. i \in 2 .. 1 + Len(r) /\ i - 1 \in 1 .. Len(r) /\ (i - 1) + 1 = i
      BY <2>2, <2>3, <2>6
    <3>2. q[i] = r[i - 1] /\ r[i - 1] = old[(i - 1) + 1]
      BY <2>3, <2>5, <3>1
    <3> QED
      BY <3>1, <3>2
  <2> QED
    BY <2>2, <2>3, <2>5, <2>6
<1>18. toWrite'[f] = q /\ \A g \in Fds : g # f => toWrite'[g] = toWrite[g]
  BY <1>1, <1>8, <1>9, <1>16 DEF Shapes
<1>19. q # None
  <2>3. rest \in Entries
    <3> DEFINE x == e.offset
               y == e.size
               z == e.base
    <3>0. x \in Nat /\ y \in Nat /\ z \in Nat /\ k \in Nat /\ k < y - x
      BY <1>8, <1>9, <1>10
    <3> HIDE DEF x, y, z
    <3>2. x + k \in Nat /\ z + (x + k) \in Nat /\ y - (x + k) \in Nat
      BY <3>0
    <3>1. e.offset + k \in Nat /\ e.base + (e.offset + k) \in Nat /\ e.size - (e.offset + k) \in Nat
      BY <3>2 DEF x, y, z
    <3> QED
      BY <1>6, <1>9, <3>1 DEF Entries
  <2>4. q \in Seq(Entries)
    BY <1>10, <1>16, <2>3, ConcatProperties
  <2> QED
    BY <2>4, NoneAssumption
<1>20. PICK ws : Adds(ws) /\ \A i \in DOMAIN ws : FALSE
  BY <1>1, <1>8, NoneAdded
<1>21. PICK fate : fate = "pending"
  OBVIOUS
<1>22. Headly(f, e, k, fate, ws)
  BY <1>4, <1>8, <1>9, <1>10, <1>11, <1>13, <1>14, <1>15, <1>17, <1>18, <1>19, <1>20, <1>21 DEF Headly
<1> QED
  BY <1>12, <1>22, HeadKeeps

-----------------------------------------------------------------------------
LEMMA InitTraffic == Init => Traffic
<1> SUFFICES ASSUME Init PROVE Traffic
  OBVIOUS
<1>1. /\ writesQueue = <<>> /\ app = {} /\ \A f \in Fds : toWrite[f] = None
      /\ \A w \in Writes : promise[w] = "none"
      /\ \A c \in Conns : log[c] = <<>> /\ sock[c].state = "none" /\ sock[c].sent = <<>>
  BY DEF Init
<1>2. log \in [Conns -> Seq(Writes)]
  BY DEF Init
<1>3. Logged
  BY <1>1, <1>2 DEF Logged
<1>4. \A i \in DOMAIN writesQueue : FALSE
  BY <1>1
<1>5. QueueDue /\ DequesDue /\ Orders
  BY <1>1, <1>4 DEF QueueDue, DequesDue, Orders, QueueOrder, DequeOrder, DequesApart
<1>6. Accounted /\ Apps
  BY <1>1 DEF Accounted, Apps
<1>7. BodyLast
  <2>1. "body" \in Parts
    BY DEF Parts
  <2>2. \A c \in Conns, n \in 0 .. NRequests : <<c, n, "body">> \in Writes
    BY <2>1 DEF Writes
  <2> QED
    BY <1>1, <2>2 DEF BodyLast
<1>8. \A c \in Conns : \A x \in DOMAIN sock[c].sent : FALSE
  BY <1>1
<1>9. Numbers /\ InTurn
  BY <1>8 DEF Numbers, Untouched, InTurn
<1>10. Spread
  <2>1. 0 \in 0 .. Size /\ \A j \in 1 .. 0 : FALSE
    BY NumberTypes
  <2>2. \A c \in Conns, w \in Writes : Run(sock[c].sent, w, 0)
    BY <1>8, <2>1 DEF Run
  <2>3. \A c \in Conns, w \in Writes : Reached(c, w, 0)
    BY <2>2, ReachedIs
  <2> QED
    BY <2>1, <2>3 DEF Spread
<1>11. FulfilledIsSent
  BY <1>1 DEF FulfilledIsSent
<1> QED
  BY <1>3, <1>5, <1>6, <1>7, <1>9, <1>10, <1>11 DEF Traffic, Wire

LEMMA NextTraffic == ASSUME IInv, Traffic, [Next]_vars PROVE Traffic'
<1>0. IInv'
  BY NextKeeps
<1>1. CASE ListenerStep
  <2>1. ASSUME HandleNewPeer PROVE Traffic'
    <3>1. UNCHANGED <<sock, open, peer, peers_, toWrite, writesQueue, app, promise, log>>
      BY <2>1 DEF HandleNewPeer
    <3> QED
      BY <1>0, <3>1, LoopTraffic
  <2> QED
    BY <1>0, <1>1, <2>1, AcceptTraffic, EmplaceTraffic DEF ListenerStep
<1>2. CASE AppStep
  BY <1>0, <1>2, AppFdTraffic, AppPushTraffic DEF AppStep
<1>3. CASE IoStep
  <2>1. ASSUME Poll \/ (\E e \in io.batch : OnReady(e)) \/ BatchDone \/ NobodyIdle \/ ReceiveAgain
               \/ (HandleWriteQueue /\ writesQueue = <<>>)
        PROVE  Traffic'
    <3>1. UNCHANGED <<sock, open, peer, peers_, toWrite, writesQueue, app, promise, log>>
      BY <2>1 DEF Poll, OnReady, BatchDone, NobodyIdle, ReceiveAgain, HandleWriteQueue, queues
    <3> QED
      BY <1>0, <3>1, LoopTraffic
  <2>2. ASSUME HandlePeer \/ (HandleWriteQueue /\ writesQueue # <<>>) \/ WriteDone \/ WriteAgain \/ WriteBroken
               \/ WriteFails \/ Disconnection
        PROVE  Traffic'
    BY <1>0, <2>2, HandlePeerTraffic, MoveKeeps, WriteDoneTraffic, WriteAgainTraffic, WriteBrokenTraffic,
       WriteFailsTraffic, DisconnectionTraffic
  <2>3. ASSUME (\E C \in SUBSET Conns : CheckIdlePeers(C)) \/ \E kind \in Kinds : Receive(kind)
        PROVE  Traffic'
    BY <1>0, <2>3, CheckIdlePeersTraffic, ReceiveTraffic
  <2> QED
    BY <1>3, <2>1, <2>2, <2>3 DEF IoStep
<1>4. CASE ClientStep
  BY <1>0, <1>4, ClientTraffic DEF ClientStep
<1>5. CASE UNCHANGED vars
  <2>1. UNCHANGED <<sock, open, peer, peers_, toWrite, writesQueue, app, promise, log>>
    BY <1>5 DEF vars, queues
  <2> QED
    BY <1>0, <2>1, LoopTraffic
<1> QED
  BY <1>1, <1>2, <1>3, <1>4, <1>5 DEF Next

LEMMA TrafficInOrder == ASSUME Traffic PROVE InOrder
<1>1. Logged /\ Spread /\ InTurn
  BY DEF Traffic, Wire
<1>2. ASSUME NEW c \in Conns, NEW w \in Range(log[c]) PROVE \E k \in 0 .. Size : Reached(c, w, k)
  <2>1. log[c] \in Seq(Writes)
    BY <1>1 DEF Logged
  <2>2. w \in Writes
    BY <2>1 DEF Range
  <2> QED
    BY <1>1, <2>2 DEF Spread
<1> QED
  BY <1>1, <1>2 DEF InOrder, InTurn

\* For any number of connections, descriptors, requests and short writes, and in any
\* order of the three kinds of threads: what a client gets of its responses are the
\* bytes written for it, each write from its first byte on without a gap or a
\* repetition, and one after the other in the order they were queued
\* (handleWriteQueue, asyncWriteImpl, BufferHolder::detach).
THEOREM ResponsesAreInOrder == Spec => []InOrder
<1>1. IInv /\ Traffic /\ [Next]_vars => IInv' /\ Traffic'
  BY NextKeeps, NextTraffic
<1>2. Traffic => InOrder
  BY TrafficInOrder
<1>3. Init => IInv /\ Traffic
  BY InitEstablishes, InitTraffic
<1> QED
  BY <1>1, <1>2, <1>3, PTL DEF Spec

\* Whoever holds the promise of asyncWrite learns that it is fulfilled only when the
\* whole write is out, although a descriptor may have passed to another connection
\* between two of its pieces (removePeer, handleWriteQueue, asyncWriteImpl).
THEOREM FulfilledAreSent == Spec => []FulfilledIsSent
<1>1. IInv /\ Traffic /\ [Next]_vars => IInv' /\ Traffic'
  BY NextKeeps, NextTraffic
<1>2. Traffic => FulfilledIsSent
  BY DEF Traffic, Wire
<1>3. Init => IInv /\ Traffic
  BY InitEstablishes, InitTraffic
<1> QED
  BY <1>1, <1>2, <1>3, PTL DEF Spec

=============================================================================
