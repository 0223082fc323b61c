--------------------------- MODULE PistacheParser ---------------------------
(***************************************************************************)
(* Pistache's incremental HTTP parser (http.cc, stream.cc) as its two      *)
(* users drive it: Handler::onInput of the server, for requests, and       *)
(* Connection::handleResponsePacket of the client, for responses.          *)
(*                                                                         *)
(* The peer sends one message after another, each once the previous one    *)
(* was answered (or its response delivered), and the network cuts them     *)
(* into reads anywhere.  A byte is a symbol [t, n]: a text that a step of  *)
(* the parser takes whole or not at all is one symbol; CR, LF and the      *)
(* bytes of a body are one each.                                           *)
(***************************************************************************)
EXTENDS Integers, Sequences, FiniteSets, SequencesExt

CONSTANTS
  Sides,        \* who parses: "server" (requests), "client" (responses)
  Messages,     \* what is sent: a sequence of symbols, and what should come of it
  MaxMessages,  \* how many messages on a connection
  MaxSize       \* ArrayStreamBuf::maxSize_, in symbols

Wrap == 2 ^ 16  \* stands for the 2^64 values of size_t

CR == [t |-> "CR", n |-> 0]
LF == [t |-> "LF", n |-> 0]
Symbols == [t : {"method", "target", "version", "code", "header", "length", "encoding", "size", "data", "CR", "LF"},
            n : Nat]

\* The texts with a space in them.
Spaced == {"method", "target", "code", "header", "length", "encoding"}

Headers == {"header", "length", "encoding"}

\* What comes of a message: its body, or a status.
Ok(body) == [code |-> 200, body |-> body]
Refused(code) == [code |-> code, body |-> <<>>]

MessagesAssumption ==
  /\ Sides \subseteq {"server", "client"} /\ MaxMessages \in Nat /\ MaxSize \in Nat
  /\ \A m \in Messages : m.bytes \in Seq(Symbols) /\ m.side \in Sides

VARIABLES
  side,         \* which of the two parsers this is
  sent,         \* the messages sent so far
  wire,         \* the symbols of the last one that were not read yet
  parser,       \* ParserBase, its steps, and the message under construction
  todo,         \* "idle", "parse" (within parse()), "hung"
  out,          \* what came of the messages
  hist          \* which of the code's known deviations happened

vars == <<side, sent, wire, parser, todo, out, hist>>

Fresh == [buf |-> <<>>, pos |-> 1, step |-> 0, length |-> {}, encoding |-> {}, body |-> <<>>,
          bytesRead |-> 0, size |-> -1, already |-> 0]

Init ==
  /\ side \in Sides
  /\ sent = <<>> /\ wire = <<>> /\ parser = Fresh /\ todo = "idle" /\ out = <<>> /\ hist = {}

-----------------------------------------------------------------------------
(* The cursor. *)

Avail == Len(parser.buf) - parser.pos + 1

At(i) == parser.buf[i]

\* StreamCursor::eol, at i.
Eol(i) == i < Len(parser.buf) /\ At(i) = CR /\ At(i + 1) = LF

\* Where the line that starts at the cursor ends, if all of it is there.
Eols == {i \in parser.pos .. Len(parser.buf) : Eol(i) /\ \A j \in parser.pos .. i - 1 : ~Eol(j)}

Rest == SubSeq(parser.buf, parser.pos, Len(parser.buf))

-----------------------------------------------------------------------------
(* How parse() ends. *)

\* A bug: a reset keeps the step that was reached.
ResetKeepsStep(p) == [Fresh EXCEPT !.bytesRead = p.bytesRead, !.size = p.size, !.already = p.already, !.step = p.step]

\* ParserBase::reset and the new Request: the state of BodyStep is not part of it.
Reset(p) == [Fresh EXCEPT !.bytesRead = p.bytesRead, !.size = p.size, !.already = p.already]

Again(p) == todo' = "idle" /\ parser' = p /\ UNCHANGED out

Continue(p) == todo' = "parse" /\ parser' = p /\ UNCHANGED out

\* onRequest() and reset(); resolve(std::move(parser.response)) and reset().
Done(p) == todo' = "idle" /\ out' = Append(out, Ok(p.body)) /\ parser' = Reset(p)

\* An error.  The server answers it and resets; the client rejects its request and keeps the parser.
Raise(p, code) ==
  /\ todo' = "idle"
  /\ IF side = "server"
     THEN out' = Append(out, Refused(code)) /\ parser' = Reset(p)
     ELSE out' = Append(out, Refused(0)) /\ parser' = p

-----------------------------------------------------------------------------
(* The peer and the network. *)

\* The next message, once the last one has its answer.
Send(m) ==
  /\ todo = "idle" /\ wire = <<>> /\ Len(out) = Len(sent) /\ Len(sent) < MaxMessages
  /\ m.side = side
  /\ sent' = Append(sent, m) /\ wire' = m.bytes
  /\ hist' = hist \cup (IF parser.buf # <<>> THEN {"kept"} ELSE {})
                  \cup (IF parser.bytesRead > 0 \/ parser.size # -1 THEN {"stale"} ELSE {})
  /\ UNCHANGED <<side, parser, todo, out>>

\* A bug: what was parsed already does not count.
FitsRest(n) == Avail + n <= MaxSize

\* ArrayStreamBuf::feed: what was parsed already counts.
Fits(n) == Len(parser.buf) + n <= MaxSize

\* One read: onInput() or handleResponsePacket() with the next n symbols.
Feed(n) ==
  /\ todo = "idle" /\ n \in 1 .. Len(wire)
  /\ wire' = SubSeq(wire, n + 1, Len(wire))
  /\ \/ Fits(n) /\ Continue([parser EXCEPT !.buf = @ \o SubSeq(wire, 1, n)])
     \/ ~Fits(n) /\ Raise(parser, 413)
  /\ hist' = hist \cup (IF Len(out) >= Len(sent) THEN {"leftover"} ELSE {})
  /\ UNCHANGED <<side, sent>>

-----------------------------------------------------------------------------
(* RequestLineStep and ResponseLineStep.  A text whose n is 0 is malformed. *)

\* The method ends at the first space of the buffer, whatever comes before it.
RequestLine ==
  /\ todo = "parse" /\ side = "server" /\ parser.step = 0
  /\ LET spaces == {i \in parser.pos .. Len(parser.buf) : At(i).t \in Spaced}
         method == spaces # {} /\ parser.pos \in spaces /\ At(parser.pos).t = "method" /\ At(parser.pos).n > 0
     IN \/ spaces = {} /\ Again(parser)
        \/ spaces # {} /\ ~method /\ Raise(parser, 400)
        \/ method /\ Eols = {} /\ Again(parser)
        \/ method /\ \E e \in Eols :
             IF e = parser.pos + 2 /\ At(parser.pos + 1).t = "target" /\ At(parser.pos + 1).n > 0
             THEN Continue([parser EXCEPT !.pos = e + 2, !.step = 1])
             ELSE Raise(parser, 400)
  /\ UNCHANGED <<side, sent, wire, hist>>

\* "HTTP/1.1" is two symbols: with only the first of them match_raw fails, and that is an error.
ResponseLine ==
  /\ todo = "parse" /\ side = "client" /\ parser.step = 0
  /\ LET version == Avail >= 2 /\ At(parser.pos) = [t |-> "version", n |-> 1]
                               /\ At(parser.pos + 1) = [t |-> "version", n |-> 2]
         code == At(parser.pos + 2)
     IN \/ ~version /\ Raise(parser, 0)
        \/ version /\ Avail = 2 /\ Again(parser)
        \/ version /\ Avail > 2 /\ (code.t # "code" \/ code.n = 0) /\ Raise(parser, 0)
        \/ version /\ Avail > 2 /\ code.t = "code" /\ code.n > 0 /\ Eols = {} /\ Again(parser)
        \/ version /\ Avail > 2 /\ code.t = "code" /\ code.n > 0 /\
             \E e \in Eols : Continue([parser EXCEPT !.pos = e + 2, !.step = 1])
  /\ hist' = hist \cup (IF Avail < 2 THEN {"early"} ELSE {})
  /\ UNCHANGED <<side, sent, wire>>

-----------------------------------------------------------------------------
(* HeadersStep.  The whole step starts again at its first header when the  *)
(* blank line is not there yet; a header that cannot be parsed is an error *)
(* as soon as its line is complete.                                        *)

\* A bug: a header without the blank line after it ends the step.
BlankEarly == Eols

Blank == {i \in parser.pos .. Len(parser.buf) :
            /\ Eol(i) /\ (i = parser.pos \/ (i >= parser.pos + 2 /\ Eol(i - 2)))
            /\ \A j \in parser.pos .. i - 1 : ~(Eol(j) /\ (j = parser.pos \/ (j >= parser.pos + 2 /\ Eol(j - 2))))}

BadHeader == \E i \in parser.pos .. Len(parser.buf) :
               At(i) = [t |-> "header", n |-> 0] /\ Eol(i + 1) /\ \A b \in Blank : i < b

HeadersDone(b) ==
  LET values(t) == {At(i).n : i \in {j \in parser.pos .. b - 1 : At(j).t = t}}
  IN [parser EXCEPT !.pos = b + 2, !.step = 2, !.length = values("length"), !.encoding = values("encoding")]

HeadersStep ==
  /\ todo = "parse" /\ parser.step = 1
  /\ \/ BadHeader /\ Raise(parser, 500)
     \/ ~BadHeader /\ Blank = {} /\ Again(parser)
     \/ ~BadHeader /\ \E b \in Blank : Continue(HeadersDone(b))
  /\ UNCHANGED <<side, sent, wire, hist>>

-----------------------------------------------------------------------------
(* BodyStep. *)

InBody == todo = "parse" /\ parser.step = 2

NoBody ==
  /\ InBody
  /\ \/ parser.length = {} /\ parser.encoding = {} /\ Done(parser)
     \/ parser.length # {} /\ parser.encoding # {} /\ Raise(parser, 400)
     \/ parser.length = {} /\ \E e \in parser.encoding : e # 0 /\ Raise(parser, 501)
  /\ UNCHANGED <<side, sent, wire, hist>>

\* A bug: what is appended is not counted.
ReadBodyUncounted(cl) ==
  LET want == (cl - parser.bytesRead) % Wrap
  IN IF Avail < want
     THEN Again([parser EXCEPT !.pos = @ + Avail, !.body = @ \o Rest])
     ELSE Done([parser EXCEPT !.body = @ \o SubSeq(parser.buf, parser.pos, parser.pos + want - 1), !.bytesRead = 0])

\* readBody: the difference is a size_t.
ReadBody(cl) ==
  LET want == (cl - parser.bytesRead) % Wrap
  IN IF Avail < want
     THEN Again([parser EXCEPT !.pos = @ + Avail, !.body = @ \o Rest, !.bytesRead = @ + Avail])
     ELSE Done([parser EXCEPT !.body = @ \o SubSeq(parser.buf, parser.pos, parser.pos + want - 1), !.bytesRead = 0])

ParseContentLength ==
  /\ InBody /\ parser.encoding = {}
  /\ \E cl \in parser.length : ReadBody(cl)
  /\ UNCHANGED <<side, sent, wire, hist>>

Chunked == InBody /\ parser.length = {} /\ parser.encoding = {0}

\* Chunk::parse, up to the end of the line with the chunk's size.
ChunkSize ==
  /\ Chunked /\ parser.size = -1
  /\ \/ Eols = {} /\ Again(parser)
     \/ \E e \in Eols :
          IF e = parser.pos + 1 /\ At(parser.pos).t = "size"
          THEN Continue([parser EXCEPT !.pos = e + 2, !.size = At(parser.pos).n, !.already = 0])
          ELSE Raise(parser, 400)
  /\ UNCHANGED <<side, sent, wire, hist>>

\* The last chunk: what follows it is left in the buffer.
ChunkFinal ==
  /\ Chunked /\ parser.size = 0
  /\ Done([parser EXCEPT !.size = -1])
  /\ UNCHANGED <<side, sent, wire, hist>>

\* The data, or the two symbols after it, are not all there yet.
DataMissing == Avail + parser.already < parser.size + 2

\* All there is goes to the body, the CR after the data included.
ChunkSome ==
  /\ Chunked /\ parser.size > 0 /\ DataMissing
  /\ Again([parser EXCEPT !.pos = @ + Avail, !.body = @ \o Rest, !.already = @ + Avail])
  /\ hist' = hist \cup (IF Avail + parser.already > parser.size THEN {"torn"} ELSE {})
  /\ UNCHANGED <<side, sent, wire>>

\* The rest of the data and the line's end.  After a CR in the body, advance(-1) does not come back.
ChunkData ==
  /\ Chunked /\ parser.size > 0 /\ ~DataMissing
  /\ LET want == parser.size - parser.already
         p == [parser EXCEPT !.pos = @ + want + 2, !.size = -1,
                             !.body = @ \o SubSeq(parser.buf, parser.pos, parser.pos + want - 1)]
     IN \/ want < 0 /\ todo' = "hung" /\ UNCHANGED <<parser, out>>
        \/ want >= 0 /\ Avail = want + 2 /\ Again(p)
        \/ want >= 0 /\ Avail > want + 2 /\ Continue(p)
  /\ UNCHANGED <<side, sent, wire, hist>>

Next ==
  \/ \E m \in Messages : Send(m)
  \/ \E n \in 1 .. MaxSize : Feed(n)
  \/ RequestLine \/ ResponseLine \/ HeadersStep \/ NoBody \/ ParseContentLength
  \/ ChunkSize \/ ChunkFinal \/ ChunkSome \/ ChunkData

Spec == Init /\ [][Next]_vars

-----------------------------------------------------------------------------
(* Properties. *)

\* Every variable keeps its type, and the cursor (StreamCursor) stays within the buffer.
TypeOK ==
  /\ side \in Sides /\ todo \in {"idle", "parse", "hung"}
  /\ sent \in Seq(Messages) /\ Len(sent) <= MaxMessages
  /\ parser.step \in 0 .. 2 /\ parser.pos \in 1 .. Len(parser.buf) + 1 /\ Len(parser.buf) <= MaxSize
  /\ parser.bytesRead \in Nat /\ parser.size \in Nat \cup {-1} /\ parser.already \in Nat
  /\ hist \subseteq {"kept", "stale", "leftover", "early", "torn"}

\* What should come of a message: one that does not fit in the buffer is refused for that.
Want(m) == IF Len(m.bytes) <= MaxSize THEN m.want
           ELSE Refused(IF side = "server" THEN 413 ELSE 0)

\* What came of the messages is what should, in their order, whichever way they were cut.
Exact ==
  /\ Len(out) <= Len(sent)
  /\ \A i \in DOMAIN out : out[i] = Want(sent[i])

\* Handler::onInput and handleResponsePacket: a message is never taken for
\* complete early, never loses, repeats or mixes up a byte of its body, and is
\* refused only when it is wrong, wherever the reads cut it; as long as none
\* of the deviations recorded in hist has happened.
OutcomesExact == hist = {} => Exact

\* When everything that was sent has been read, everything has its outcome:
\* parse() never waits for bytes that are not going to come.
Answered == (hist = {} /\ todo = "idle" /\ wire = <<>>) => Len(out) = Len(sent)

\* Every message has its outcome, and the right one.
MessagesExact == TypeOK /\ OutcomesExact /\ Answered

\* The same without the exception for a parser that is not as new at the start of a message
\* (ParserBase::reset leaves BodyStep's bytesRead and chunk alone).
ResetIsComplete == hist \subseteq {"stale"} => Exact

\* The same without the exception for a chunk whose CR and LF come in different reads.
ChunkCutAnywhere == hist \subseteq {"torn"} => (Exact /\ todo # "hung")

\* The same without the exception for bytes that follow the end of a message (the empty line after the
\* last chunk) in a later read.
TailCutAnywhere == hist \subseteq {"leftover"} => Exact

\* The same without the exceptions of the client: a version cut in two, and a parser kept after an error.
ClientRecovers == hist \subseteq {"early", "kept"} => Exact
====
