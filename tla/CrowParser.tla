----------------------------- MODULE CrowParser -----------------------------
(***************************************************************************)
(* Crow's HTTP parser: http_parser_execute, which resumes byte by byte     *)
(* where the last buffer ended, and the callbacks of HTTPParser, which     *)
(* build a request out of the pieces they are given (crow_all.h).          *)
(*                                                                         *)
(* A client sends requests one after another; the network cuts them into   *)
(* buffers anywhere, which is the action Cut.  A byte is a symbol: a run   *)
(* of bytes that one state takes alike is one symbol (the rest of a        *)
(* method, of a header's name, of a keyword); CR, LF, digits, separators   *)
(* and the bytes of a body are one each.  One action is one case of the    *)
(* switch over parser->state; where the code says CROW_REEXECUTE the byte  *)
(* is kept (again) for the case of the next state.                         *)
(***************************************************************************)
EXTENDS Integers, Sequences, FiniteSets

CONSTANTS
    Messages,       \* what a client may send, and the request it should come to, if any: [bytes, want]
    MaxMessages,    \* how many on one connection
    MaxHeader,      \* max_header_size, in symbols
    Top             \* stands for CROW_ULLONG_MAX

NoLength == Top
Huge == 10000       \* stands for a pointer less a null pointer

Digits == [d \in {"0", "1", "2", "3"} |->
             CASE d = "0" -> 0 [] d = "1" -> 1 [] d = "2" -> 2 [] OTHER -> 3]
IsNum(ch) == ch \in DOMAIN Digits

VARIABLES
    stream,     \* all that is sent
    sent,       \* the messages it consists of
    pos,        \* the byte *p
    parser,     \* http_parser
    mark,       \* the marks of this call, 0 for null
    again,      \* *p is executed again
    self,       \* HTTPParser
    handled,    \* what process_message was given
    hist        \* which of the code's known deviations happened

vars == <<stream, sent, pos, parser, mark, again, self, handled, hist>>
input == <<stream, sent>>
wrapper == <<self, handled>>

Marks == {"header_field", "header_value", "url", "url_start", "body"}
NoMarks == [m \in Marks |-> 0]

\* http_parser_init, and the members of HTTPParser.
Parser == [state |-> "start_req", header_state |-> "general", flags |-> {}, te |-> FALSE,
           length |-> 0, nread |-> 0, qs_point |-> 0, minor |-> 0, method |-> "none",
           errno |-> "OK", upgrade |-> FALSE]
Clear == [raw_url |-> <<>>, headers |-> <<>>, building |-> 0, field |-> <<>>, value |-> <<>>,
          body |-> <<>>, keep_alive |-> FALSE, close |-> FALSE]

Init ==
    /\ sent \in UNION {[1 .. n -> Messages] : n \in 1 .. MaxMessages}
    /\ stream = (IF Len(sent) = 1 THEN sent[1].bytes ELSE sent[1].bytes \o sent[2].bytes)
    /\ pos = 1 /\ parser = Parser /\ mark = NoMarks /\ again = FALSE
    /\ self = Clear /\ handled = <<>> /\ hist = {}

-----------------------------------------------------------------------------
(* The loop. *)

ch == stream[pos]

\* CROW_PARSING_HEADER.
BodyStates == {"chunk_data", "chunk_data_almost_done", "chunk_data_done", "body_identity", "message_done"}
Counts == ~again /\ parser.state \notin BodyStates

\* The byte is there, and the headers did not grow too long by it.
In(states) ==
    /\ pos <= Len(stream) /\ parser.errno = "OK" /\ parser.state \in states
    /\ Counts => parser.nread < MaxHeader

\* p with the byte counted (CROW_COUNT_HEADER_SIZE).
Read == IF Counts THEN [parser EXCEPT !.nread = @ + 1] ELSE parser

\* The byte is consumed; it is executed again in another state; it is an error.
Consume == pos' = pos + 1 /\ again' = FALSE
Reexecute == pos' = pos /\ again' = TRUE
Error(e) == /\ parser' = [Read EXCEPT !.errno = e] /\ Consume
            /\ UNCHANGED <<input, mark, wrapper, hist>>

Goto(s) == parser' = [Read EXCEPT !.state = s]
Quiet == UNCHANGED <<input, mark, wrapper, hist>>

\* Bytes from a mark up to p.
Marked(m, to) == IF mark[m] = 0 THEN <<>> ELSE SubSeq(stream, mark[m], to)
Set(m) == [mark EXCEPT ![m] = IF @ = 0 THEN pos ELSE @]
Unset(m) == [mark EXCEPT ![m] = 0]

\* CROW_COUNT_HEADER_SIZE refuses the byte.
Overflow ==
    /\ pos <= Len(stream) /\ parser.errno = "OK" /\ Counts /\ parser.nread >= MaxHeader
    /\ Error("HEADER_OVERFLOW")

-----------------------------------------------------------------------------
(* The callbacks. *)

Emplace(s) == [s EXCEPT !.headers = Append(@, [field |-> s.field, value |-> s.value]),
                        !.field = <<>>, !.value = <<>>]

OnUrl(s, bytes) == [s EXCEPT !.raw_url = @ \o bytes]

\* mutant: a second piece of a name replaces the first.
OnHeaderFieldAssigns(s, bytes) ==
    [(IF s.building = 0 /\ s.value # <<>> THEN Emplace(s) ELSE s) EXCEPT !.field = bytes, !.building = 1]

\* The last header is complete when the next one begins, if it has a value.
OnHeaderField(s, bytes) ==
    IF s.building = 0
    THEN [(IF s.value # <<>> THEN Emplace(s) ELSE s) EXCEPT !.field = bytes, !.building = 1]
    ELSE [s EXCEPT !.field = @ \o bytes]

OnHeaderValue(s, bytes) ==
    IF s.building = 0 THEN [s EXCEPT !.value = @ \o bytes]
    ELSE [s EXCEPT !.value = bytes, !.building = 0]

\* With set_connection_parameters.
OnHeadersComplete(s) ==
    [(IF s.field # <<>> THEN Emplace(s) ELSE s) EXCEPT
       !.keep_alive = CASE parser.minor = 10 -> "keep-alive" \in parser.flags
                        [] parser.minor = 11 -> TRUE
                        [] OTHER -> FALSE,
       !.close = CASE parser.minor = 10 -> "keep-alive" \notin parser.flags
                   [] parser.minor = 11 -> "close" \in parser.flags
                   [] OTHER -> FALSE]

OnBody(s, bytes) == [s EXCEPT !.body = @ \o bytes]

\* on_message_complete: the url ends at qs_point, if there is one.
OnMessageComplete(s) ==
    handled' = Append(handled,
        [url |-> SubSeq(s.raw_url, 1, IF parser.qs_point \in 1 .. Len(s.raw_url)
                                      THEN parser.qs_point ELSE Len(s.raw_url)),
         headers |-> s.headers, body |-> s.body, keep_alive |-> s.keep_alive, close |-> s.close,
         upgrade |-> parser.upgrade])

-----------------------------------------------------------------------------
(* The request line. *)

\* Line breaks before a message are skipped.
StartSkip == In({"start_req"}) /\ ch \in {"CR", "LF"} /\ Consume /\ parser' = Read /\ Quiet

\* The first letter of a method; on_message_begin clears the request, qs_point included.
StartReq ==
    /\ In({"start_req"}) /\ ch \in {"G", "P"} /\ Consume
    /\ parser' = [Read EXCEPT !.state = "req_method", !.flags = {}, !.te = FALSE, !.length = NoLength,
                              !.method = ch, !.qs_point = 0, !.minor = 0]
    /\ self' = Clear
    /\ hist' = hist \cup (IF parser.nread > 0 THEN {"carried"} ELSE {})
    /\ UNCHANGED <<input, mark, handled>>

StartError == In({"start_req"}) /\ ch \notin {"CR", "LF", "G", "P"} /\ Error("INVALID_METHOD")

\* The rest of the method, and the space after it.
ReqMethod ==
    /\ In({"req_method"})
    /\ CASE ch = "SP" -> Goto("req_spaces_before_url") /\ Consume /\ Quiet
         [] ch = "rest" -> Goto("req_method") /\ Consume /\ Quiet
         [] OTHER -> Error("INVALID_METHOD")

\* parse_url_char, the states of an absolute URL up to its server taken together.
UrlState(s, c) ==
    CASE s = "req_spaces_before_url" -> IF c = "/" THEN "req_path" ELSE IF c = "http:" THEN "req_schema" ELSE "dead"
      [] s = "req_schema" -> IF c = "//" THEN "req_server" ELSE "dead"
      [] s = "req_server" -> CASE c = "/" -> "req_path" [] c = "?" -> "req_query_string"
                               [] c = "u" -> "req_server" [] OTHER -> "dead"
      [] s = "req_path" -> IF c \in {"/", "u"} THEN "req_path" ELSE IF c = "?" THEN "req_query_string" ELSE "dead"
      [] OTHER -> IF c \in {"/", "u", "?"} THEN "req_query_string" ELSE "dead"

\* Where the query string begins, counted from the start of the URL, which is
\* known only while the buffer that held it is executed.
QsPoint(start) ==
    IF ch = "?" /\ parser.state \in {"req_server", "req_path"}
    THEN IF start = 0 THEN Huge ELSE pos - start
    ELSE parser.qs_point

\* The deviations of that: the URL began in an earlier buffer, or it is not
\* the first one of its buffer and counts from the start of that.
Misplaced(m) ==
    IF QsPoint(m["url_start"]) \in {parser.qs_point, Len(self.raw_url) + pos - m["url"]} THEN {}
    ELSE IF QsPoint(m["url_start"]) = Huge THEN {"query"} ELSE {"piped"}

UrlChar(m) ==
    IF UrlState(parser.state, ch) = "dead" THEN Error("INVALID_URL")
    ELSE /\ parser' = [Read EXCEPT !.state = UrlState(parser.state, ch), !.qs_point = QsPoint(m["url_start"])]
         /\ hist' = hist \cup Misplaced(m)
         /\ mark' = m /\ Consume /\ UNCHANGED <<input, wrapper>>

SpacesBeforeUrl ==
    /\ In({"req_spaces_before_url"})
    /\ IF ch = "SP" THEN parser' = Read /\ Consume /\ Quiet
       ELSE UrlChar([Set("url") EXCEPT !["url_start"] = Set("url_start")["url_start"]])

UrlSchema == In({"req_schema"}) /\ UrlChar(mark)

UrlStates == {"req_server", "req_path", "req_query_string"}
Url == In(UrlStates) /\ ch \notin {"SP", "CR", "LF"} /\ UrlChar(mark)

UrlEnd ==
    /\ In(UrlStates) /\ ch = "SP" /\ Goto("req_http_start") /\ Consume
    /\ self' = OnUrl(self, Marked("url", pos - 1)) /\ mark' = Unset("url")
    /\ UNCHANGED <<input, handled, hist>>

\* No version: HTTP/0.9, for GET only.
UrlEndOld ==
    /\ In(UrlStates) /\ ch \in {"CR", "LF"}
    /\ IF parser.method # "G" THEN Error("INVALID_VERSION")
       ELSE /\ parser' = [Read EXCEPT !.minor = 9,
                            !.state = IF ch = "CR" THEN "req_line_almost_done" ELSE "header_field_start"]
            /\ self' = OnUrl(self, Marked("url", pos - 1)) /\ mark' = Unset("url")
            /\ Consume /\ UNCHANGED <<input, handled, hist>>

\* "HTTP/1." and the minor version.
ReqHttpStart ==
    /\ In({"req_http_start"})
    /\ CASE ch = "SP" -> parser' = Read /\ Consume /\ Quiet
         [] ch = "HTTP/1." -> Goto("req_http_minor") /\ Consume /\ Quiet
         [] OTHER -> Error("INVALID_CONSTANT")

ReqHttpMinor ==
    /\ In({"req_http_minor"})
    /\ IF IsNum(ch)
       THEN /\ parser' = [Read EXCEPT !.state = "req_http_end", !.minor = 10 + Digits[ch]]
            /\ Consume /\ Quiet
       ELSE Error("INVALID_VERSION")

ReqHttpEnd ==
    /\ In({"req_http_end"})
    /\ CASE ch = "CR" -> Goto("req_line_almost_done") /\ Consume /\ Quiet
         [] ch = "LF" -> Goto("header_field_start") /\ Consume /\ Quiet
         [] OTHER -> Error("INVALID_VERSION")

ReqLineAlmostDone ==
    /\ In({"req_line_almost_done"})
    /\ IF ch = "LF" THEN Goto("header_field_start") /\ Consume /\ Quiet ELSE Error("LF_EXPECTED")

-----------------------------------------------------------------------------
(* Headers. *)

Tokens == {"c", "on", "nection", "tent-length", "t", "ransfer-encoding", "u", "pgrade", "x"}

HeaderFieldStart ==
    /\ In({"header_field_start"})
    /\ CASE ch = "CR" -> Goto("headers_almost_done") /\ Consume /\ Quiet
         [] ch = "LF" -> Goto("headers_almost_done") /\ Reexecute /\ Quiet
         [] ch \in Tokens ->
              /\ parser' = [Read EXCEPT !.state = "header_field",
                   !.header_state = IF ch \in {"c", "t", "u"} THEN ch ELSE "general"]
              /\ mark' = Set("header_field") /\ Consume /\ UNCHANGED <<input, wrapper, hist>>
         [] OTHER -> Error("INVALID_HEADER_TOKEN")

\* How a name goes on: the names the parser knows, and every other one.
FieldState(h, c) ==
    CASE h = "c" /\ c = "on" -> "CON"
      [] h = "CON" /\ c = "nection" -> "connection"
      [] h = "CON" /\ c = "tent-length" -> "content_length"
      [] h = "t" /\ c = "ransfer-encoding" -> "transfer_encoding"
      [] h = "u" /\ c = "pgrade" -> "upgrade"
      [] OTHER -> "general"

HeaderField ==
    /\ In({"header_field"}) /\ ch \in Tokens /\ Consume
    /\ LET h == FieldState(parser.header_state, ch)
       IN  parser' = [Read EXCEPT !.header_state = h, !.te = @ \/ h = "transfer_encoding"]
    /\ Quiet

HeaderFieldEnd ==
    /\ In({"header_field"}) /\ ch \notin Tokens
    /\ IF ch = ":"
       THEN /\ Goto("header_value_discard_ws") /\ Consume
            /\ self' = OnHeaderField(self, Marked("header_field", pos - 1))
            /\ mark' = Unset("header_field")
            /\ hist' = hist \cup (IF self.building = 0 /\ self.value = <<>> /\ self.field # <<>> THEN {"empty"} ELSE {})
            /\ UNCHANGED <<input, handled>>
       ELSE Error("INVALID_HEADER_TOKEN")

\* White space before a value; a line break there is the end of an empty value,
\* unless the next line goes on with white space.
DiscardWs ==
    /\ In({"header_value_discard_ws"}) /\ ch \in {"SP", "CR", "LF"} /\ Consume
    /\ Goto(CASE ch = "SP" -> "header_value_discard_ws" [] ch = "CR" -> "discard_ws_almost_done"
              [] OTHER -> "header_value_discard_lws")
    /\ Quiet

DiscardWsAlmostDone ==
    /\ In({"discard_ws_almost_done"})
    /\ IF ch = "LF" THEN Goto("header_value_discard_lws") /\ Consume /\ Quiet ELSE Error("STRICT")

DiscardLws ==
    /\ In({"header_value_discard_lws"})
    /\ IF ch = "SP" THEN Goto("header_value_discard_ws") /\ Consume /\ Quiet
       ELSE /\ Goto("header_field_start") /\ Reexecute
            /\ self' = OnHeaderValue(self, <<>>)
            /\ UNCHANGED <<input, mark, handled, hist>>

\* The first byte of a value, by the header it belongs to.  That of a Connection
\* header is skipped when it is a blank once lowered: a zero byte, and the space
\* a folded line begins with.
Skipped == {"NUL", "SP"}

ValueStart(q) ==
    LET h == q.header_state IN
    CASE h = "upgrade" -> [q EXCEPT !.header_state = "general", !.flags = @ \cup {"upgrade"}]
      [] h = "transfer_encoding" -> [q EXCEPT !.header_state = IF ch = "c" THEN "matching_chunked" ELSE "te_token"]
      [] h = "content_length" ->
           IF ~IsNum(ch) THEN [q EXCEPT !.errno = "INVALID_CONTENT_LENGTH"]
           ELSE IF "length" \in q.flags THEN [q EXCEPT !.errno = "UNEXPECTED_CONTENT_LENGTH"]
           ELSE [q EXCEPT !.header_state = "length_num", !.flags = @ \cup {"length"}, !.length = Digits[ch]]
      [] h = "connection" ->
           [q EXCEPT !.header_state = CASE ch = "k" -> "matching_keep_alive" [] ch = "c" -> "matching_close"
                                        [] ch \in Skipped -> h [] OTHER -> "general"]
      [] h \in {"length_ws", "te_token_start"} -> q
      [] OTHER -> [q EXCEPT !.header_state = "general"]

HeaderValueStart ==
    /\ In({"header_value_start"}) \/ (In({"header_value_discard_ws"}) /\ ch \notin {"SP", "CR", "LF"})
    /\ parser' = ValueStart([Read EXCEPT !.state = "header_value"]) /\ Consume
    /\ mark' = Set("header_value")
    /\ hist' = hist \cup (IF parser.header_state = "connection" /\ ch \in Skipped THEN {"skipped"} ELSE {})
    /\ UNCHANGED <<input, wrapper>>

\* mutant: no check of overflow.
AppendsAlways(length, base) == TRUE

\* Whether another digit may follow; the product is taken modulo 2^64 otherwise.
Appends(length, base) == ~((Top - base) \div base < length)

\* The next byte of a value; one that follows a skipped one runs into assert(0).
ValueNext(q) ==
    LET h == q.header_state
        go(s) == [q EXCEPT !.header_state = s]
        bad == [q EXCEPT !.errno = "INVALID_CONTENT_LENGTH"]
    IN  CASE ch = "NUL" -> [q EXCEPT !.errno = "INVALID_HEADER_TOKEN"]
          [] h \in {"connection", "transfer_encoding"} -> [q EXCEPT !.errno = "ASSERT"]
          [] h = "length_num" /\ ch = "SP" -> go("length_ws")
          [] h = "length_num" -> IF IsNum(ch) /\ Appends(q.length, 10)
                                 THEN [q EXCEPT !.length = @ * 10 + Digits[ch]] ELSE bad
          [] h = "length_ws" -> IF ch = "SP" THEN q ELSE bad
          [] h = "te_token_start" -> CASE ch = "c" -> go("matching_chunked") [] ch = "SP" -> q
                                       [] ch \in Tokens -> go("te_token") [] OTHER -> go("general")
          [] h = "matching_chunked" -> go(IF ch = "hunked" THEN "te_chunked" ELSE "te_token")
          [] h = "te_token" -> IF ch = "," THEN go("te_token_start") ELSE q
          [] h = "matching_keep_alive" -> go(IF ch = "eep-alive" THEN "keep_alive" ELSE "general")
          [] h = "matching_close" -> go(IF ch = "lose" THEN "close" ELSE "general")
          [] h = "te_chunked" -> IF ch = "SP" THEN q ELSE go("te_token")
          [] h \in {"keep_alive", "close"} -> IF ch = "SP" THEN q ELSE go("general")
          [] OTHER -> go("general")

HeaderValue ==
    /\ In({"header_value"}) /\ ch \notin {"CR", "LF"}
    /\ parser' = ValueNext(Read) /\ Consume /\ Quiet

HeaderValueEnd ==
    /\ In({"header_value"}) /\ ch \in {"CR", "LF"} /\ Goto("header_almost_done")
    /\ self' = OnHeaderValue(self, Marked("header_value", pos - 1)) /\ mark' = Unset("header_value")
    /\ IF ch = "CR" THEN Consume ELSE Reexecute
    /\ UNCHANGED <<input, handled, hist>>

HeaderAlmostDone ==
    /\ In({"header_almost_done"})
    /\ IF ch = "LF" THEN Goto("header_value_lws") /\ Consume /\ Quiet ELSE Error("LF_EXPECTED")

\* The line ended: the value goes on if the next one begins with white space.
HeaderValueLws ==
    /\ In({"header_value_lws"}) /\ Reexecute /\ Quiet
    /\ LET h == parser.header_state IN
         IF ch = "SP"
         THEN parser' = [Read EXCEPT !.state = "header_value_start",
                                     !.header_state = IF h = "length_num" THEN "length_ws" ELSE h]
         ELSE parser' = [Read EXCEPT !.state = "header_field_start",
                           !.flags = CASE h = "keep_alive" -> @ \cup {"keep-alive"} [] h = "close" -> @ \cup {"close"}
                                       [] h = "te_chunked" -> @ \cup {"chunked"} [] OTHER -> @]

-----------------------------------------------------------------------------
(* The end of the headers, and the body. *)

HeadersAlmostDone ==
    /\ In({"headers_almost_done"})
    /\ CASE ch # "LF" -> Error("STRICT")
         [] ch = "LF" /\ "trailing" \in parser.flags ->
              /\ Goto("start_req") /\ Consume
              /\ OnMessageComplete(self) /\ UNCHANGED <<input, mark, self, hist>>
         [] ch = "LF" /\ "trailing" \notin parser.flags /\ parser.te /\ "length" \in parser.flags ->
              Error("UNEXPECTED_CONTENT_LENGTH")
         [] OTHER ->
              /\ parser' = [Read EXCEPT !.state = "headers_done", !.upgrade = "upgrade" \in parser.flags]
              /\ self' = OnHeadersComplete(self) /\ Reexecute
              /\ UNCHANGED <<input, mark, handled, hist>>

\* How the body is framed; nread starts again.  After an upgrade the parser is
\* not called again: the rest of the connection is in another protocol.
HeadersDone ==
    /\ In({"headers_done"})
    /\ LET q == [Read EXCEPT !.nread = 0]
           length == parser.length
       IN  CASE parser.upgrade \/ (~parser.te /\ length \in {0, NoLength}) ->
                  /\ parser' = [q EXCEPT !.state = "start_req", !.errno = IF parser.upgrade THEN "upgraded" ELSE @]
                  /\ OnMessageComplete(self) /\ Consume /\ UNCHANGED <<input, mark, self, hist>>
             [] ~parser.upgrade /\ "chunked" \in parser.flags ->
                  parser' = [q EXCEPT !.state = "chunk_size_start"] /\ Consume /\ Quiet
             [] ~parser.upgrade /\ parser.te /\ "chunked" \notin parser.flags ->
                  Error("INVALID_TRANSFER_ENCODING")
             [] OTHER -> parser' = [q EXCEPT !.state = "body_identity"] /\ Consume /\ Quiet

\* A byte of the body; after the last one the message is done, at that byte.
BodyIdentity ==
    /\ In({"body_identity"})
    /\ IF parser.length > 1
       THEN /\ parser' = [Read EXCEPT !.length = @ - 1] /\ mark' = Set("body")
            /\ Consume /\ UNCHANGED <<input, wrapper, hist>>
       ELSE /\ parser' = [Read EXCEPT !.length = @ - 1, !.state = "message_done"]
            /\ self' = OnBody(self, SubSeq(stream, Set("body")["body"], pos)) /\ mark' = Unset("body")
            /\ Reexecute /\ UNCHANGED <<input, handled, hist>>

MessageDone ==
    /\ In({"message_done"}) /\ Goto("start_req") /\ OnMessageComplete(self) /\ Consume
    /\ UNCHANGED <<input, mark, self, hist>>

ChunkSizeStart ==
    /\ In({"chunk_size_start"})
    /\ IF IsNum(ch) THEN /\ parser' = [Read EXCEPT !.length = Digits[ch], !.state = "chunk_size"]
                         /\ Consume /\ Quiet
       ELSE Error("INVALID_CHUNK_SIZE")

ChunkSize ==
    /\ In({"chunk_size"})
    /\ CASE ch = "CR" -> Goto("chunk_size_almost_done") /\ Consume /\ Quiet
         [] ch \in {";", "SP"} -> Goto("chunk_parameters") /\ Consume /\ Quiet
         [] IsNum(ch) /\ Appends(parser.length, 16) ->
              parser' = [Read EXCEPT !.length = @ * 16 + Digits[ch]] /\ Consume /\ Quiet
         [] OTHER -> Error("INVALID_CHUNK_SIZE")

ChunkParameters ==
    /\ In({"chunk_parameters"}) /\ Consume /\ Quiet
    /\ Goto(IF ch = "CR" THEN "chunk_size_almost_done" ELSE "chunk_parameters")

ChunkSizeAlmostDone ==
    /\ In({"chunk_size_almost_done"})
    /\ IF ch # "LF" THEN Error("STRICT")
       ELSE /\ parser' = IF parser.length = 0
                         THEN [parser EXCEPT !.nread = 0, !.flags = @ \cup {"trailing"}, !.state = "header_field_start"]
                         ELSE [parser EXCEPT !.nread = 0, !.state = "chunk_data"]
            /\ Consume /\ Quiet

ChunkData ==
    /\ In({"chunk_data"}) /\ Consume /\ mark' = Set("body")
    /\ parser' = [Read EXCEPT !.length = @ - 1, !.state = IF parser.length = 1 THEN "chunk_data_almost_done" ELSE @]
    /\ UNCHANGED <<input, wrapper, hist>>

ChunkDataAlmostDone ==
    /\ In({"chunk_data_almost_done"})
    /\ IF ch # "CR" THEN Error("STRICT")
       ELSE /\ Goto("chunk_data_done") /\ Consume
            /\ self' = OnBody(self, Marked("body", pos - 1)) /\ mark' = Unset("body")
            /\ UNCHANGED <<input, handled, hist>>

\* mutant: the count of header bytes goes on.
ChunkDataDoneCounts ==
    /\ In({"chunk_data_done"})
    /\ IF ch # "LF" THEN Error("STRICT")
       ELSE parser' = [Read EXCEPT !.nread = @ + 1, !.state = "chunk_size_start"] /\ Consume /\ Quiet

ChunkDataDone ==
    /\ In({"chunk_data_done"})
    /\ IF ch # "LF" THEN Error("STRICT")
       ELSE parser' = [Read EXCEPT !.nread = 0, !.state = "chunk_size_start"] /\ Consume /\ Quiet

-----------------------------------------------------------------------------
(* The end of a buffer *)

\* mutant: a value that the next buffer goes on with has no mark there.
ResumedValueless ==
    [NoMarks EXCEPT !["header_field"] = IF parser.state = "header_field" THEN pos ELSE 0,
                    !["url"] = IF parser.state \in UrlStates \cup {"req_schema"} THEN pos ELSE 0]

\* http_parser_execute sets the marks of what goes on in its buffer.
Resumed ==
    [NoMarks EXCEPT !["header_field"] = IF parser.state = "header_field" THEN pos ELSE 0,
                    !["header_value"] = IF parser.state = "header_value" THEN pos ELSE 0,
                    !["url"] = IF parser.state \in UrlStates \cup {"req_schema"} THEN pos ELSE 0]

\* The buffer ends before *p: the marks that are left are given to their
\* callbacks, and the next call begins with the marks of its own.
Cut ==
    /\ parser.errno = "OK" /\ pos \in 2 .. Len(stream) /\ ~again
    /\ self' = CASE mark["header_field"] # 0 -> OnHeaderField(self, Marked("header_field", pos - 1))
                 [] mark["header_value"] # 0 -> OnHeaderValue(self, Marked("header_value", pos - 1))
                 [] mark["url"] # 0 -> OnUrl(self, Marked("url", pos - 1))
                 [] mark["body"] # 0 -> OnBody(self, Marked("body", pos - 1))
                 [] OTHER -> self
    /\ mark' = Resumed
    /\ hist' = hist \cup (IF mark["header_field"] # 0 /\ self.building = 0 /\ self.value = <<>> /\ self.field # <<>>
                          THEN {"empty"} ELSE {})
    /\ UNCHANGED <<input, pos, parser, again, handled>>

-----------------------------------------------------------------------------

RequestLine ==
    \/ StartSkip \/ StartReq \/ StartError \/ ReqMethod \/ SpacesBeforeUrl \/ UrlSchema \/ Url \/ UrlEnd \/ UrlEndOld
    \/ ReqHttpStart \/ ReqHttpMinor \/ ReqHttpEnd \/ ReqLineAlmostDone
Headers ==
    \/ HeaderFieldStart \/ HeaderField \/ HeaderFieldEnd \/ DiscardWs \/ DiscardWsAlmostDone \/ DiscardLws
    \/ HeaderValueStart \/ HeaderValue \/ HeaderValueEnd \/ HeaderAlmostDone \/ HeaderValueLws
Body ==
    \/ HeadersAlmostDone \/ HeadersDone \/ BodyIdentity \/ MessageDone
    \/ ChunkSizeStart \/ ChunkSize \/ ChunkParameters \/ ChunkSizeAlmostDone
    \/ ChunkData \/ ChunkDataAlmostDone \/ ChunkDataDone

Next == RequestLine \/ Headers \/ Body \/ Overflow \/ Cut
Spec == Init /\ [][Next]_vars

-----------------------------------------------------------------------------
(* Properties *)

Ended == pos > Len(stream) \/ parser.errno # "OK"
Good == {i \in DOMAIN sent : \A j \in 1 .. i : sent[j].want # {}}

\* Types; at most one mark of a piece is set when a buffer ends, as the assertion there says.
TypeOK ==
    /\ pos \in 1 .. Len(stream) + 1 /\ parser.nread \in 0 .. MaxHeader + 1 /\ parser.length \in 0 .. Top
    /\ parser.flags \subseteq {"chunked", "keep-alive", "close", "trailing", "upgrade", "length"}
    /\ self.building \in {0, 1}
    /\ Cardinality({m \in Marks \ {"url_start"} : mark[m] # 0}) <= 1

Exact ==
    /\ \A i \in DOMAIN handled : i \in Good /\ handled[i] \in sent[i].want
    /\ parser.errno = "upgraded" => handled[Len(handled)].upgrade
    /\ Ended /\ parser.errno # "upgraded" =>
         Len(handled) = Cardinality(Good) /\ (parser.errno = "OK") = (Good = DOMAIN sent)

\* However the bytes are cut into buffers, the requests handled are the ones
\* that were sent, in order, each with its own URL, headers and body and with
\* the connection's fate it asks for, up to the first one that is malformed.
RequestsExact == hist \subseteq {"skipped"} => Exact

\* The assertions of http_parser_execute: a body has a length while it is read,
\* chunks are read in a chunked message only, a chunk's size starts a count, and
\* no value is read by a header's state, unless a first byte was skipped.
AssertsHold ==
    /\ parser.errno = "ASSERT" => "skipped" \in hist
    /\ parser.errno = "OK" /\ pos <= Len(stream) =>
       /\ parser.state \in {"body_identity", "chunk_data"} => parser.length \notin {0, NoLength}
       /\ parser.state \in {"chunk_size_start", "chunk_size", "chunk_parameters", "chunk_data", "chunk_data_done"} =>
            "chunked" \in parser.flags
       /\ parser.state = "chunk_size_start" => parser.nread = 0
       /\ parser.state = "header_value" =>
            parser.header_state \notin {"transfer_encoding"} \cup (IF "skipped" \in hist THEN {} ELSE {"connection"})

\* The requests are right and the parser's own assertions hold.
CrowMessagesExact == TypeOK /\ RequestsExact /\ AssertsHold

-----------------------------------------------------------------------------
(* What the code does not keep *)

\* A request that shares a buffer with another has a URL of its own.
PipedUrl == hist \subseteq {"piped"} => Exact

\* The URL of a request does not depend on where it is cut.
UrlCutAnywhere == hist \subseteq {"query"} => Exact

\* A header with an empty value is kept wherever it stands.
EmptyHeaderKept == hist \subseteq {"empty"} => Exact

\* A header's limit is that of its own message.
OwnBudget == hist \subseteq {"carried"} => Exact

\* No request makes an assertion fail.
AlwaysAsserts == parser.errno # "ASSERT"
=============================================================================
