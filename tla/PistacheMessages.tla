-------------------------- MODULE PistacheMessages --------------------------
(***************************************************************************)
(* Messages for PistacheParser's instance: right and wrong requests and    *)
(* responses as symbols, each with what should come of it.                 *)
(***************************************************************************)
EXTENDS Integers, Sequences

CR == [t |-> "CR", n |-> 0]
LF == [t |-> "LF", n |-> 0]
Ok(body) == [code |-> 200, body |-> body]
Refused(code) == [code |-> code, body |-> <<>>]

S(t, n) == [t |-> t, n |-> n]
Text(t, n) == <<S(t, n), CR, LF>>
Data(from, to) == [i \in 1 .. to - from + 1 |-> S("data", from + i - 1)]
Chunk(from, to) == Text("size", to - from + 1) \o Data(from, to) \o <<CR, LF>>
LastChunk == Text("size", 0) \o <<CR, LF>>

RequestHead == <<S("method", 1), S("target", 1), CR, LF>>
ResponseHead == <<S("version", 1), S("version", 2), S("code", 200), CR, LF>>

\* A message with this start line, these headers and this body.
M(side_, start, headers, body, want) ==
  [side |-> side_, bytes |-> start \o headers \o <<CR, LF>> \o body, want |-> want]

\* A wrong message, which ends where that shows, so that nothing of it is left.
Wrong(bytes, code) == [side |-> "server", bytes |-> bytes, want |-> Refused(code)]

RequestMessages == {
  M("server", RequestHead, <<>>, <<>>, Ok(<<>>)),
  M("server", RequestHead, Text("length", 3), Data(1, 3), Ok(Data(1, 3))),
  M("server", RequestHead, Text("header", 1) \o Text("length", 2), Data(4, 5), Ok(Data(4, 5))),
  M("server", RequestHead, Text("encoding", 0), Chunk(1, 2) \o Chunk(3, 3) \o LastChunk, Ok(Data(1, 3))),
  M("server", RequestHead, Text("length", 20), Data(1, 20), Ok(Data(1, 20))),
  Wrong(<<S("method", 0)>>, 400),
  Wrong(<<S("method", 1), S("target", 0), CR, LF>>, 400),
  Wrong(RequestHead \o Text("header", 0), 500),
  Wrong(RequestHead \o Text("length", 1) \o Text("encoding", 0) \o <<CR, LF>>, 400),
  Wrong(RequestHead \o Text("encoding", 1) \o <<CR, LF>>, 501),
  Wrong(RequestHead \o Text("encoding", 0) \o <<CR, LF, S("data", 1), CR, LF>>, 400) }

Responses == {
  M("client", ResponseHead, Text("length", 2), Data(1, 2), Ok(Data(1, 2))),
  M("client", ResponseHead, Text("encoding", 0), Chunk(1, 2) \o LastChunk, Ok(Data(1, 2))),
  M("client", ResponseHead, <<>>, <<>>, Ok(<<>>)),
  [side |-> "client", bytes |-> <<S("version", 1), S("version", 2), S("code", 0)>>, want |-> Refused(0)] }

Messages == RequestMessages \cup Responses
=============================================================================
