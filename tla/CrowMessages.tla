---------------------------- MODULE CrowMessages ----------------------------
(***************************************************************************)
(* Messages for CrowParser's instance: right and wrong requests as         *)
(* symbols, each with the request it should come to, if any.               *)
(***************************************************************************)
EXTENDS Integers, Sequences

Eol == <<"CR", "LF">>
H(field_, value_) == [field |-> field_, value |-> value_]
Line(h) == h.field \o <<":", "SP">> \o h.value \o Eol

X == H(<<"x", "on">>, <<"v", ",", "v">>)
Close == H(<<"c", "on", "nection">>, <<"c", "lose">>)
Keep == H(<<"c", "on", "nection">>, <<"k", "eep-alive", "SP">>)
CL(value_) == H(<<"c", "on", "tent-length">>, value_)
TE(value_) == H(<<"t", "ransfer-encoding">>, value_)
Chunked == TE(<<"x", ",", "SP", "c", "hunked">>)
Empty == H(<<"x">>, <<>>)
Conn(value_) == H(<<"c", "on", "nection">>, value_)

Get(url_, version) == <<"G", "rest", "SP">> \o url_ \o (IF version = "" THEN <<>> ELSE <<"SP", "HTTP/1.", version>>)
Lines(hs) == IF hs = <<>> THEN <<>> ELSE IF Len(hs) = 1 THEN Line(hs[1]) ELSE Line(hs[1]) \o Line(hs[2])

\* A request with these headers and this body, written as these bytes.
M(start, url_, hs, bytes_, body_, keep_, close_) ==
  [bytes |-> start \o Eol \o Lines(hs) \o Eol \o bytes_,
   want |-> {[url |-> url_, headers |-> hs, body |-> body_, keep_alive |-> keep_, close |-> close_, upgrade |-> FALSE]}]
Bad(start, hs) == [bytes |-> start \o Eol \o Lines(hs) \o Eol, want |-> {}]

A == <<"/", "u">>
Query == <<"/", "u", "?", "u">>
Absolute == <<"http:", "//", "u", "/", "?", "?">>
Two == <<"2">> \o Eol \o <<"CR", "LF">> \o Eol
One == <<"0", "1", ";", "x">> \o Eol \o <<"0">> \o Eol
Last == <<"0">> \o Eol

Plain == M(Get(A, "1"), A, <<>>, <<>>, <<>>, TRUE, FALSE)
Long == M(Get(A, "1"), A, <<X, X>>, <<>>, <<>>, TRUE, FALSE)
Framed == {
  M(Get(Query, "1"), A, <<X, CL(<<"0", "3">>)>>, <<"0", "CR", "b">>, <<"0", "CR", "b">>, TRUE, FALSE),
  M(Get(A, "1"), A, <<Chunked, Close>>, Two \o One \o Last \o Eol, <<"CR", "LF", "0">>, TRUE, TRUE),
  M(Get(A, "0"), A, <<Chunked, Keep>>, Last \o Line(X) \o Eol, <<>>, TRUE, FALSE),
  M(Get(Absolute, "0"), <<"http:", "//", "u", "/">>, <<CL(<<"0">>)>>, <<>>, <<>>, FALSE, TRUE)}

Empties == {M(Get(A, "1"), A, <<Empty, X>>, <<>>, <<>>, TRUE, FALSE),
            M(Get(A, "1"), A, <<X, Empty>>, <<>>, <<>>, TRUE, FALSE)}

\* Line feeds alone, HTTP/0.9, a value on two lines, an upgrade.
Other == {
  [bytes |-> <<"LF">> \o Get(A, "") \o <<"LF", "x", ":", "v", "LF", "SP", "v", "LF", "LF">>,
   want |-> {[url |-> A, headers |-> <<H(<<"x">>, <<"v", "SP", "v">>)>>, body |-> <<>>,
             keep_alive |-> FALSE, close |-> FALSE, upgrade |-> FALSE]}],
  [bytes |-> Get(A, "1") \o <<"LF", "x", ":">> \o Eol \o <<"SP">> \o <<"v">> \o Eol
               \o Line(CL(<<"1", "SP">>)) \o Eol \o <<"b">>,
   want |-> {[url |-> A, headers |-> <<H(<<"x">>, <<"v">>), CL(<<"1", "SP">>)>>, body |-> <<"b">>,
             keep_alive |-> TRUE, close |-> FALSE, upgrade |-> FALSE]}],
  [bytes |-> Get(A, "1") \o Eol \o Line(H(<<"u", "pgrade">>, <<"x">>)) \o Eol,
   want |-> {[url |-> A, headers |-> <<H(<<"u", "pgrade">>, <<"x">>)>>, body |-> <<>>,
             keep_alive |-> TRUE, close |-> FALSE, upgrade |-> TRUE]}]}

Wrong == {
  [bytes |-> <<"x">>, want |-> {}], [bytes |-> <<"G", "SP", "x">>, want |-> {}],
  Bad(<<"P">> \o Tail(Get(A, "")), <<>>), Bad(Get(A, "x"), <<>>),
  Bad(Get(A, "1"), <<CL(<<"3", "0">>)>>), Bad(Get(A, "1"), <<CL(<<"1">>), CL(<<"1">>)>>),
  Bad(Get(A, "1"), <<CL(<<"1", "SP", "1">>)>>), Bad(Get(A, "1"), <<CL(<<"0">>), Chunked>>),
  Bad(Get(A, "1"), <<TE(<<"c", "hunked", ",", "x">>)>>), Bad(Get(A, "1"), <<TE(<<"x">>)>>),
  Bad(Get(A, "1"), <<H(<<":">>, <<"v">>)>>), Bad(Get(A, "1"), <<X, H(<<"x", "SP">>, <<>>)>>),
  [bytes |-> Get(A, "1") \o Eol \o Line(Chunked) \o Eol \o <<"2", "0">>, want |-> {}],
  [bytes |-> Get(A, "1") \o Eol \o Line(Chunked) \o Eol \o <<"1">> \o Eol \o <<"b", "b">>, want |-> {}],
  Bad(Get(A, "1"), <<X, H(<<"x">>, <<"v", "v", "v", "v", "v", "v", "v", "v", "v", "v">>)>>)}

\* Values that begin with a zero byte, which is not looked at there; in one the line is folded.
Zero == {
  M(Get(A, "1"), A, <<Conn(<<"NUL">>)>>, <<>>, <<>>, TRUE, FALSE), Bad(Get(A, "1"), <<Conn(<<"NUL", "v">>)>>),
  Bad(Get(A, "1"), <<Conn(<<"NUL">> \o Eol \o <<"SP", "v">>)>>), Bad(Get(A, "1"), <<H(<<"x">>, <<"NUL", "NUL">>)>>)}

\* Every request with every other one before it, as far as it is of interest.
Messages == {Plain} \cup Framed \cup Empties \cup Other \cup Wrong \cup Zero \cup {Long}
=============================================================================
