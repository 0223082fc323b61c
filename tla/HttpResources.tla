---------------------------- MODULE HttpResources ----------------------------
(***************************************************************************)
(* libhttpserver's table of resources: register_resource and               *)
(* unregister_resource over the two maps registered_resources (ordered by  *)
(* family and normalized url) and registered_resources_str (the urls that  *)
(* are not families, as spelled), and the search of finalize_answer with   *)
(* http_endpoint::match, regex_checking being on.                          *)
(*                                                                         *)
(* Nothing locks the maps: a search of a daemon's thread meets a call of   *)
(* the program half done.  Every operation on one map is a step, and the   *)
(* program's threads make one call at a time.                              *)
(*                                                                         *)
(* A url is a sequence of pieces: literals, the parameters "x" and "y",    *)
(* that is {x} and {y}, and "r", that is {r|.*}, whose expression also     *)
(* takes slashes.  A url as a regular expression is kept as its pieces.    *)
(***************************************************************************)
EXTENDS Integers, Sequences, SequencesExt

CONSTANTS
    Urls,           \* urls a program registers
    Families,       \* the urls registered as families too
    Requests,       \* standardized urls of requests: literal pieces only
    Resources,      \* the http_resource objects
    Unregisters,    \* urls a program unregisters
    MaxCalls        \* calls of register_resource and unregister_resource

Params == {"x", "y", "r"}

\* The map cannot tell two spellings of a plain parameter apart.
Norm(u) == [i \in DOMAIN u |-> IF u[i] \in {"x", "y"} THEN "x" ELSE u[i]]

\* Characters of a piece: as spelled in the url, and in the expression.
Spelled(p) == CASE p \in {"x", "y"} -> 3 [] p = "r" -> 6 [] OTHER -> 1
Expressed(p) == CASE p \in {"x", "y"} -> 8 [] p = "r" -> 2 [] OTHER -> 1
Total(u, Size(_)) == FoldLeft(LAMBDA n, p : n + 1 + Size(p), 0, u)

VARIABLES
    registered,     \* registered_resources: <<family, normalized url>> to url and resource
    str,            \* registered_resources_str: url to resource
    pending,        \* the call whose second map is still to come
    search,         \* the search of a request: where it is, and what it found
    live,           \* history: what was registered and not unregistered since
    calls

vars == <<registered, str, pending, search, live, calls>>

Nothing == [k \in {} |-> k]
Quiet == [op |-> "none"]
\* History: the right answers since it began, the calls that overlapped it, and whether what it found was erased.
Idle == [at |-> "idle", url |-> <<>>, key |-> <<>>, answer |-> {}, right |-> {}, met |-> 0, gone |-> FALSE]

Init ==
    /\ registered = Nothing /\ str = Nothing /\ pending = Quiet /\ search = Idle
    /\ live = {} /\ calls = 0

With(m, k, v) == [x \in DOMAIN m \cup {k} |-> IF x = k THEN v ELSE m[x]]
Without(m, k) == [x \in DOMAIN m \ {k} |-> m[x]]

-----------------------------------------------------------------------------
(* http_endpoint::match *)

\* std::regex_match of a request's pieces with a url's expression.
PieceFits(p, s) == p \in {"x", "y"} \/ p = s
RegexMatch(u, q) ==
    LET n == Len(u)
    IN  IF n > 0 /\ u[n] = "r"
        THEN (n = 1 \/ Len(q) >= n) /\ \A i \in 1 .. n - 1 : PieceFits(u[i], q[i])
        ELSE Len(q) = n /\ \A i \in 1 .. n : PieceFits(u[i], q[i])

\* A family takes the first pieces of the request, as many as it has itself.
Match(k, u, q) ==
    IF k[1] /\ Len(q) >= Len(u) THEN RegexMatch(u, SubSeq(q, 1, Len(u)))
    ELSE RegexMatch(u, q)

-----------------------------------------------------------------------------
(* What a request should be given to, by the urls that are registered: the exact
   url of a resource that is no family; else, of those that fit, one with the
   most pieces and then the most characters. *)

Answers(l, q) ==
    LET exact == {e \in l : ~e[1] /\ e[2] = q}
        fits == {e \in l : Match(e, e[2], q)}
        best == {a \in fits : \A b \in fits :
                    \/ Len(a[2]) > Len(b[2])
                    \/ Len(a[2]) = Len(b[2]) /\ Total(a[2], Spelled) >= Total(b[2], Spelled)}
    IN  IF fits = {} THEN {{}} ELSE {{e[3]} : e \in IF exact # {} THEN exact ELSE best}

-----------------------------------------------------------------------------
(* register_resource, unregister_resource *)

\* A call begins while a search is under way.
Meets(l) ==
    search' = IF search.at \in {"idle", "done"} THEN search
              ELSE [search EXCEPT !.right = @ \cup Answers(l, search.url), !.met = IF @ = 0 THEN 1 ELSE 2]

\* std::map::insert leaves an entry that is there; the resource goes into the
\* second map only when it went into the first.
Register(u, r, family) ==
    LET k == <<family, Norm(u)>>
        inserted == k \notin DOMAIN registered
    IN  /\ pending = Quiet /\ calls < MaxCalls /\ calls' = calls + 1
        /\ registered' = IF inserted THEN With(registered, k, [url |-> u, res |-> r]) ELSE registered
        /\ pending' = IF inserted /\ ~family THEN [op |-> "register", url |-> u, res |-> r, before |-> live] ELSE Quiet
        /\ live' = IF inserted THEN live \cup {<<family, u, r>>} ELSE live
        /\ Meets(live')
        /\ UNCHANGED str

RegisterStr ==
    /\ pending.op = "register" /\ pending' = Quiet
    /\ str' = IF pending.url \in DOMAIN str THEN str ELSE With(str, pending.url, pending.res)
    /\ UNCHANGED <<registered, search, live, calls>>

\* The endpoint made from the url is never a family, and the one made from its
\* complete form is no expression and so equals none of the map's.
Unregister(u) ==
    LET k == <<FALSE, Norm(u)>>
    IN  /\ pending = Quiet /\ calls < MaxCalls /\ calls' = calls + 1
        /\ registered' = Without(registered, k)
        /\ pending' = [op |-> "unregister", url |-> u, before |-> live]
        /\ live' = {e \in live : Norm(e[2]) # Norm(u)}
        /\ search' = IF search.at \in {"idle", "done"} THEN search
                     ELSE [search EXCEPT !.right = @ \cup Answers(live', search.url), !.met = IF @ = 0 THEN 1 ELSE 2,
                                         !.gone = @ \/ (search.at = "map" /\ search.key = k)]
        /\ UNCHANGED str

UnregisterStr ==
    /\ pending.op = "unregister" /\ pending' = Quiet
    /\ str' = Without(str, pending.url)
    /\ search' = [search EXCEPT !.gone = @ \/ (search.at = "str" /\ search.url = pending.url)]
    /\ UNCHANGED <<registered, live, calls>>

-----------------------------------------------------------------------------
(* The search of finalize_answer *)

\* http_endpoint::operator<: families first, then COMPARATOR, which puts the
\* shorter string first.
Rank(p) == CASE p = "x" -> 1 [] p = "r" -> 2 [] p = "a" -> 3 [] OTHER -> 4
KeyLess(a, b) ==
    IF a[1] # b[1] THEN a[1]
    ELSE LET la == Total(a[2], Expressed)  lb == Total(b[2], Expressed)
         IN  \/ la < lb
             \/ /\ la = lb
                /\ \E i \in DOMAIN a[2] \cap DOMAIN b[2] :
                      /\ Rank(a[2][i]) < Rank(b[2][i])
                      /\ \A j \in 1 .. i - 1 : a[2][j] = b[2][j]

Missing == [found |-> FALSE, len |-> 0, tot |-> 0, key |-> <<>>]

\* mutant: the lengths are taken before the match is tried.
TryEager(best, k, q) ==
    LET u == registered[k].url  n == Len(u)  t == Total(u, Spelled)
        better == ~best.found \/ n > best.len \/ (n = best.len /\ t > best.tot)
        fits == Match(k, u, q)
    IN  IF ~better THEN best
        ELSE [found |-> best.found \/ fits, len |-> n, tot |-> t,
              key |-> IF fits THEN k ELSE best.key]

\* One turn of the loop over registered_resources.
Try(best, k, q) ==
    LET u == registered[k].url  n == Len(u)  t == Total(u, Spelled)
    IN  IF (~best.found \/ n > best.len \/ (n = best.len /\ t > best.tot)) /\ Match(k, u, q)
        THEN [found |-> TRUE, len |-> n, tot |-> t, key |-> k] ELSE best

Search(q) ==
    FoldLeft(LAMBDA best, k : Try(best, k, q), Missing,
             SetToSortSeq(DOMAIN registered, KeyLess))

\* The resource a request is given to, {} when none is: not_found_page.
Dispatch(q) ==
    IF q \in DOMAIN str THEN {str[q]}
    ELSE IF Search(q).found THEN {registered[Search(q).key].res} ELSE {}

\* The pieces of the request that the arguments named by the url are set to.
Bound(q) ==
    LET u == registered[Search(q).key].url
    IN  {i \in DOMAIN u : u[i] \in Params}

\* The url as it is, in the second map.
FindStr(q) ==
    /\ search.at = "idle"
    /\ search' = [Idle EXCEPT !.at = IF q \in DOMAIN str THEN "str" ELSE "walk", !.url = q,
                              !.right = Answers(live, q) \cup IF pending = Quiet THEN {} ELSE Answers(pending.before, q),
                              !.met = IF pending = Quiet THEN 0 ELSE 1]
    /\ UNCHANGED <<registered, str, pending, live, calls>>

\* Nothing right can be read from an entry that was erased.
Read(answer) == search' = [search EXCEPT !.at = "done", !.answer = answer]

ReadStr ==
    /\ search.at = "str"
    /\ IF search.gone THEN \E r \in Resources : Read({r}) ELSE Read({str[search.url]})
    /\ UNCHANGED <<registered, str, pending, live, calls>>

\* The loop over the first map.
Walk ==
    /\ search.at = "walk"
    /\ LET best == Search(search.url)
       IN  IF best.found THEN search' = [search EXCEPT !.at = "map", !.key = best.key] ELSE Read({})
    /\ UNCHANGED <<registered, str, pending, live, calls>>

ReadMap ==
    /\ search.at = "map"
    /\ IF search.gone THEN \E r \in Resources : Read({r}) ELSE Read({registered[search.key].res})
    /\ UNCHANGED <<registered, str, pending, live, calls>>

Served == search.at = "done" /\ search' = Idle /\ UNCHANGED <<registered, str, pending, live, calls>>

-----------------------------------------------------------------------------

Next ==
    \/ \E u \in Urls, r \in Resources, f \in BOOLEAN : (f => u \in Families) /\ Register(u, r, f)
    \/ \E u \in Unregisters : Unregister(u)
    \/ RegisterStr \/ UnregisterStr
    \/ \E q \in Requests : FindStr(q)
    \/ ReadStr \/ Walk \/ ReadMap \/ Served

Spec == Init /\ [][Next]_vars

\* Types.
TypeOK ==
    /\ \A k \in DOMAIN registered :
          /\ k[1] \in BOOLEAN /\ registered[k].url \in Urls /\ k[2] = Norm(registered[k].url)
          /\ registered[k].res \in Resources
    /\ \A u \in DOMAIN str : u \in Urls /\ str[u] \in Resources
    /\ live \subseteq BOOLEAN \X Urls \X Resources /\ calls \in 0 .. MaxCalls
    /\ pending.op \in {"none", "register", "unregister"}
    /\ search.at \in {"idle", "str", "walk", "map", "done"} /\ search.met \in 0 .. 2

\* Between calls, a request is answered by the best of the urls that fit it.
BestMatch == pending = Quiet => \A q \in Requests : Dispatch(q) \in Answers(live, q)

\* Between calls the two maps agree: a url kept as spelled stands for an entry of
\* the first map with the same resource, so no pointer outlives its unregistration.
MapsAgree ==
    pending = Quiet => \A u \in DOMAIN str :
        /\ <<FALSE, Norm(u)>> \in DOMAIN registered
        /\ registered[<<FALSE, Norm(u)>>].res = str[u]

\* A search that a call overlaps is answered as before the call or as after it,
\* whichever map either had come to (but for an entry erased in its hands, and
\* for a second call).
BeforeOrAfter ==
    search.at = "done" /\ search.met < 2 /\ ~search.gone => search.answer \in search.right

\* The maps agree and requests find what they should.
ResourcesSound == TypeOK /\ BestMatch /\ MapsAgree /\ BeforeOrAfter

\* What the code does not keep: the same whatever calls overlap the search.
AlwaysRight == search.at = "done" /\ ~search.gone => search.answer \in search.right

\* What the code does not keep: the entry a search found is there when its
\* resource is read ("the library is thread-safe").
FoundThere == ~search.gone

\* What the code does not keep: the pieces an argument is set from exist.
\* {r|.*} at the root fits "/", which has none.
BoundInRange ==
    \A q \in Requests : q \notin DOMAIN str /\ Search(q).found => Bound(q) \subseteq DOMAIN q

=============================================================================
