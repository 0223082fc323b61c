--------------------------- MODULE CrowMiddleware ---------------------------
(***************************************************************************)
(* How Crow runs the middlewares of one request around its handler:        *)
(* Connection::handle and complete_request for the global ones, and        *)
(* handler_middleware_wrapper for the ones listed at a route               *)
(* (crow_all.h).  The middlewares of the application are numbered as they  *)
(* stand in its type; a step calls one before_handle, one after_handle or  *)
(* the handler.  What those do is a choice: end the response, throw, or    *)
(* neither; a handler may also end it later, or end it and then throw.     *)
(* Whether an exception is caught depends on who called: Router::handle    *)
(* catches what its route throws, and nothing else does.                   *)
(***************************************************************************)
EXTENDS Integers, Sequences

CONSTANTS
    N,          \* how many middlewares the application has
    Local,      \* the ones that are called only at the routes that list them
    Faults      \* "throw", "throwLocal", "throwAfter", "throwUncaught", "endThrow", "later" that may happen

MiddlewareAssumption == N \in Nat /\ Local \subseteq 1 .. N

VARIABLES
    listed,     \* the local middlewares of the route
    caller,     \* who is further out: Connection::handle, Router::handle or its catch block ("handle",
                \* "route", "catch"), or whoever ends the response later ("later")
    phase,      \* what runs next
    scope,      \* over which middlewares: "global" or "local"
    n,          \* the middleware the recursion is at
    completed,  \* res.completed_
    onEnd,      \* res.complete_request_handler_
    need,       \* need_to_call_after_handlers_
    frame,      \* handler_middleware_wrapper::operator() has not returned
    thrown,     \* an exception is on its way
    log,        \* history: what was called
    responses,  \* history: calls of complete_request that wrote
    hist        \* history: faults that happened, and uses of a frame that is gone

vars == <<listed, caller, phase, scope, n, completed, onEnd, need, frame, thrown, log, responses, hist>>

Called(s) == IF s = "global" THEN (1 .. N) \ Local ELSE listed

Init ==
    /\ listed \in SUBSET Local /\ caller = "handle" /\ phase = "before" /\ scope = "global" /\ n = 1
    /\ completed = FALSE /\ onEnd = "nothing" /\ need = FALSE /\ frame = FALSE /\ thrown = FALSE
    /\ log = <<>> /\ responses = 0 /\ hist = {}

Did(what, m) == log' = Append(log, <<what, m>>)
Allowed(fault) == fault \in Faults /\ hist' = hist \cup {fault}

-----------------------------------------------------------------------------
(* middleware_call_helper *)

Skip ==
    /\ phase = "before" /\ n <= N /\ n \notin Called(scope) /\ n' = n + 1
    /\ UNCHANGED <<listed, caller, phase, scope, completed, onEnd, need, frame, thrown, log, responses, hist>>

\* before_handle; when it ended the response, the recursion returns through
\* the after_handle of the ones called so far.
Before(ends) ==
    /\ phase = "before" /\ n <= N /\ n \in Called(scope) /\ Did("before", n)
    /\ completed' = ends /\ phase' = (IF ends THEN "unwind" ELSE "before") /\ n' = (IF ends THEN n ELSE n + 1)
    /\ UNCHANGED <<listed, caller, scope, onEnd, need, frame, thrown, responses, hist>>

\* mutant: the middleware that ended the response is not called again.
UnwindFromCaller ==
    /\ phase = "unwind" /\ n >= 1 /\ n' = n - 1
    /\ IF n \in Called(scope) /\ log[Len(log)] # <<"before", n>> THEN Did("after", n) ELSE UNCHANGED log
    /\ UNCHANGED <<listed, caller, phase, scope, completed, onEnd, need, frame, thrown, responses, hist>>

\* mutant: one call too many.
UnwindPast ==
    /\ phase = "unwind" /\ n >= 0 /\ n' = n - 1
    /\ IF n \in Called(scope) THEN Did("after", n) ELSE UNCHANGED log
    /\ UNCHANGED <<listed, caller, phase, scope, completed, onEnd, need, frame, thrown, responses, hist>>

Unwind ==
    /\ phase = "unwind" /\ n >= 1 /\ n' = n - 1
    /\ IF n \in Called(scope) THEN Did("after", n) ELSE UNCHANGED log
    /\ UNCHANGED <<listed, caller, phase, scope, completed, onEnd, need, frame, thrown, responses, hist>>

\* Connection::handle goes on to complete_request, the wrapper to what was the
\* completion handler before it.
Unwound ==
    /\ phase = "unwind" /\ n = 0 /\ phase' = "complete"
    /\ UNCHANGED <<listed, caller, scope, n, completed, onEnd, need, frame, thrown, log, responses, hist>>

\* An exception of a before_handle: nobody answers.  That of a global one leaves
\* the connection as it is; that of a local one is caught by Router::handle,
\* when the completion handler is the empty one.
BeforeThrows ==
    /\ phase = "before" /\ n <= N /\ n \in Called(scope) /\ Did("before", n) /\ frame' = FALSE
    /\ \/ scope = "local" /\ Allowed("throwLocal") /\ thrown' = TRUE /\ phase' = "caught"
       \/ scope = "global" /\ Allowed("throwUncaught") /\ phase' = "returned" /\ UNCHANGED thrown
    /\ UNCHANGED <<listed, caller, scope, n, completed, onEnd, need, responses>>

\* An after_handle that is to be called next.
AfterDue ==
    /\ phase \in {"unwind", "afterLocal", "afterGlobal"}
    /\ n \in Called(CASE phase = "unwind" -> scope [] phase = "afterLocal" -> "local" [] OTHER -> "global")

\* One that throws within the route: Router::handle makes a 500 of it, which is
\* answered if the completion handler is not the empty one.
AfterThrows ==
    /\ AfterDue /\ caller = "route" /\ Did("after", n)
    /\ Allowed(IF onEnd = "nothing" THEN "throwLocal" ELSE "throwAfter")
    /\ thrown' = TRUE /\ frame' = FALSE /\ phase' = "caught"
    /\ UNCHANGED <<listed, caller, scope, n, completed, onEnd, need, responses>>

\* Elsewhere nothing catches it below Server::run, and nobody answers.
AfterUncaught ==
    /\ AfterDue /\ caller # "route" /\ Did("after", n)
    /\ Allowed("throwUncaught") /\ phase' = "returned"
    /\ UNCHANGED <<listed, caller, scope, n, completed, onEnd, need, frame, thrown, responses>>

-----------------------------------------------------------------------------
(* Connection::handle, and the wrapper *)

\* No global middleware ended the response: the route's handler is called.
CallRoute ==
    /\ phase = "before" /\ scope = "global" /\ n > N /\ need' = TRUE /\ caller' = "route"
    /\ IF listed = {}
       THEN onEnd' = "connection" /\ phase' = "handler" /\ UNCHANGED <<scope, n, frame>>
       ELSE onEnd' = "nothing" /\ scope' = "local" /\ n' = 1 /\ frame' = TRUE /\ UNCHANGED phase
    /\ UNCHANGED <<listed, completed, thrown, log, responses, hist>>

\* mutants: the handler is called before the last middleware; the completion
\* handler stays the empty one.
CallHandlerEarly ==
    /\ phase = "before" /\ scope = "local" /\ n >= N /\ onEnd' = "wrapper" /\ phase' = "handler"
    /\ UNCHANGED <<listed, caller, scope, n, completed, need, frame, thrown, log, responses, hist>>
CallHandlerSilent ==
    /\ phase = "before" /\ scope = "local" /\ n > N /\ phase' = "handler"
    /\ UNCHANGED <<listed, caller, scope, n, completed, onEnd, need, frame, thrown, log, responses, hist>>

\* Nor did a local one.
CallHandler ==
    /\ phase = "before" /\ scope = "local" /\ n > N /\ onEnd' = "wrapper" /\ phase' = "handler"
    /\ UNCHANGED <<listed, caller, scope, n, completed, need, frame, thrown, log, responses, hist>>

\* response::end: the handler of the response runs.
Ended == CASE onEnd = "wrapper" -> "afterLocal" [] onEnd = "connection" -> "complete" [] OTHER -> "returned"
EndResponse == ~completed /\ completed' = TRUE /\ phase' = Ended /\ n' = N

\* The handler ends the response, and returns or throws.
HandlerEnds(throws) ==
    /\ phase = "handler" /\ Did("handler", 0) /\ EndResponse
    /\ thrown' = throws /\ IF throws THEN Allowed("endThrow") ELSE UNCHANGED hist
    /\ UNCHANGED <<listed, caller, scope, onEnd, need, frame, responses>>

HandlerThrows ==
    /\ phase = "handler" /\ Did("handler", 0) /\ Allowed("throw")
    /\ thrown' = TRUE /\ frame' = FALSE /\ phase' = "caught"
    /\ UNCHANGED <<listed, caller, scope, n, completed, onEnd, need, responses>>

\* The handler returns, and somebody ends the response later.
HandlerReturns ==
    /\ phase = "handler" /\ Did("handler", 0) /\ Allowed("later")
    /\ frame' = FALSE /\ phase' = "later"
    /\ UNCHANGED <<listed, caller, scope, n, completed, onEnd, need, thrown, responses>>

EndLater ==
    /\ phase = "later" /\ EndResponse /\ caller' = "later"
    /\ UNCHANGED <<listed, scope, onEnd, need, frame, thrown, log, responses, hist>>

\* Router::handle makes a 500 of an exception: the response is a new one, not
\* completed, that keeps the completion handler, and it is ended.
Caught ==
    /\ phase = "caught" /\ thrown' = FALSE /\ completed' = TRUE
    /\ phase' = Ended /\ n' = N /\ caller' = "catch"
    /\ UNCHANGED <<listed, scope, onEnd, need, frame, log, responses, hist>>

-----------------------------------------------------------------------------
(* Completion *)

\* mutant: the local middlewares are called in the order of the before_handle.
AfterLocalForward ==
    /\ phase = "afterLocal" /\ n >= 1 /\ n' = n - 1
    /\ IF N + 1 - n \in listed THEN Did("after", N + 1 - n) ELSE UNCHANGED log
    /\ UNCHANGED <<listed, caller, phase, scope, completed, onEnd, need, frame, thrown, responses, hist>>

\* The wrapper's completion handler: the local middlewares, then the handler it
\* kept, a variable of the wrapper's frame: once that is gone, the call may
\* still find it there, or end anywhere.
AfterLocal ==
    /\ phase = "afterLocal" /\ n >= 1 /\ n' = n - 1
    /\ IF n \in listed THEN Did("after", n) ELSE UNCHANGED log
    /\ UNCHANGED <<listed, caller, phase, scope, completed, onEnd, need, frame, thrown, responses, hist>>

AfterLocalDone ==
    /\ phase = "afterLocal" /\ n = 0
    /\ \/ frame /\ phase' = "complete" /\ UNCHANGED hist
       \/ ~frame /\ phase' \in {"complete", "returned"} /\ hist' = hist \cup {"dangling"}
    /\ UNCHANGED <<listed, caller, scope, n, completed, onEnd, need, frame, thrown, log, responses>>

\* mutant: the global middlewares are always called.
CompleteAlways ==
    /\ phase = "complete" /\ need' = FALSE /\ n' = N /\ phase' = "afterGlobal"
    /\ UNCHANGED <<listed, caller, scope, completed, onEnd, frame, thrown, log, responses, hist>>

\* complete_request: the global middlewares, unless they were called already.
Complete ==
    /\ phase = "complete" /\ need' = FALSE /\ n' = (IF need THEN N ELSE 0) /\ phase' = "afterGlobal"
    /\ UNCHANGED <<listed, caller, scope, completed, onEnd, frame, thrown, log, responses, hist>>

AfterGlobal ==
    /\ phase = "afterGlobal" /\ n >= 1 /\ n' = n - 1
    /\ IF n \in Called("global") THEN Did("after", n) ELSE UNCHANGED log
    /\ UNCHANGED <<listed, caller, phase, scope, completed, onEnd, need, frame, thrown, responses, hist>>

\* mutant: the response keeps its completion handler.
WriteKeepsHandler ==
    /\ phase = "afterGlobal" /\ n = 0 /\ responses' = responses + 1 /\ frame' = FALSE
    /\ phase' = (IF thrown THEN "caught" ELSE "done")
    /\ UNCHANGED <<listed, caller, scope, n, completed, onEnd, need, thrown, log, hist>>

\* prepare_buffers takes the completion handler away and the response is
\* written; then an exception of the handler is still to be caught.
Write ==
    /\ phase = "afterGlobal" /\ n = 0 /\ responses' = responses + 1 /\ frame' = FALSE
    /\ onEnd' = "nothing" /\ phase' = (IF thrown THEN "caught" ELSE "done")
    /\ UNCHANGED <<listed, caller, scope, n, completed, need, thrown, log, hist>>

-----------------------------------------------------------------------------

Calls == Skip \/ (\E ends \in BOOLEAN : Before(ends)) \/ Unwind \/ Unwound \/ BeforeThrows
Handler ==
    \/ CallRoute \/ CallHandler \/ (\E throws \in BOOLEAN : HandlerEnds(throws))
    \/ HandlerThrows \/ HandlerReturns \/ EndLater \/ Caught
Completion == AfterLocal \/ AfterLocalDone \/ Complete \/ AfterGlobal \/ Write \/ AfterThrows \/ AfterUncaught

Next == Calls \/ Handler \/ Completion
Fairness == WF_vars(Next)
Spec == Init /\ [][Next]_vars /\ Fairness

-----------------------------------------------------------------------------
(* Properties *)

\* The middlewares whose handler of a kind was called, and when.
Ran(what) == {m \in 1 .. N : \E i \in DOMAIN log : log[i] = <<what, m>>}
Place(what, m) == CHOOSE i \in DOMAIN log : log[i] = <<what, m>>

\* The global middlewares are around the local ones, and the first of either around the next.
Around(l, m) ==
    \/ l \in Called("global") /\ m \in listed
    \/ \E s \in {"global", "local"} : {l, m} \subseteq Called(s) /\ l < m

\* Types.
TypeOK ==
    /\ listed \subseteq Local /\ caller \in {"handle", "route", "catch", "later"} /\ n \in 0 .. N + 1 /\ {completed, need, frame, thrown} \subseteq BOOLEAN
    /\ phase \in {"before", "unwind", "handler", "later", "caught", "afterLocal", "complete", "afterGlobal",
                  "done", "returned"}
    /\ onEnd \in {"nothing", "connection", "wrapper"} /\ responses \in 0 .. 2

\* No call is made twice, and when a response is written, the after_handle of
\* every middleware whose before_handle ran has run, in the opposite order, and
\* of no other one.
NothingTwice == \A i, j \in DOMAIN log : log[i] = log[j] => i = j

Mirrored ==
    responses > 0 =>
        /\ Ran("after") = Ran("before")
        /\ \A l, m \in Ran("before") :
             Place("before", l) < Place("before", m) <=> Place("after", m) < Place("after", l)

\* So it is when a middleware in the middle ended the response, when the handler
\* or a before_handle threw, or the response is ended later: always but when an
\* after_handle threw within the route.
AfterMirrorsBefore == "throwAfter" \notin hist => NothingTwice /\ Mirrored

\* The global middlewares run around the local ones, and the handler runs only
\* after all of them let the request through.
HandlerLast ==
    \A i \in DOMAIN log : log[i] = <<"handler", 0>> =>
        /\ Ran("before") = Called("global") \cup listed
        /\ \A m \in Ran("before") : Place("before", m) < i
        /\ \A l, m \in Ran("before") : Around(l, m) => Place("before", l) < Place("before", m)

\* No request is answered twice: not when its handler threw, before or after it
\* ended the response, nor when an after_handle did.
AnsweredOnce == responses <= 1
MiddlewareSound == TypeOK /\ AfterMirrorsBefore /\ HandlerLast /\ AnsweredOnce

\* And each is answered, also when an after_handle threw within the route: but
\* not when nothing catches an exception, when one is caught while the completion
\* handler is the empty one, or through a frame that is gone.
EventuallyAnswered == <>(responses = 1 \/ hist \cap {"throwLocal", "throwUncaught", "dangling"} # {})

-----------------------------------------------------------------------------
(* What the code does not keep *)

\* Any uncaught exception becomes a 500: the request is answered.
ThrownAnswered == <>(responses >= 1)

\* The completion handler runs while the variables that it refers to exist.
FrameAlive == "dangling" \notin hist

\* The after_handle run once each, and mirror the before_handle, whoever throws.
AlwaysMirrored == NothingTwice /\ Mirrored
=============================================================================
