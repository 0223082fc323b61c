------------------------------- MODULE MCCrow -------------------------------
(***************************************************************************)
(* Instances of CrowWebSocket, CrowServer and CrowMiddleware for TLC, in   *)
(* one state space: the initial state picks the part that moves, and the   *)
(* others rest in a state in which nothing of theirs is under way.         *)
(***************************************************************************)
EXTENDS CrowWebSocket, TLC

CONSTANTS
  Components,           \* the parts to check
  Conns, NWorkers, Kinds, MaxReads, Piped, Elsewhere, Garbage, None,      \* of CrowServer
  N, Local, Failures                                                      \* of CrowMiddleware

VARIABLES
  part,
  conn, timer, jobs, load, accepting,                                     \* CrowServer
  lConn, lTimer, lJobs, lLoad, lAccepting,                                \* CrowServer, one connection
  listed, caller, phase, scope, at, completed, onEnd, need, inside, thrown, log, responses, hist    \* CrowMiddleware

serverVars == <<conn, timer, jobs, load, accepting>>
lifeVars == <<lConn, lTimer, lJobs, lLoad, lAccepting>>
middleVars == <<listed, caller, phase, scope, at, completed, onEnd, need, inside, thrown, log, responses, hist>>

K(how, close, long, expect) == [how |-> how, close |-> close, long |-> long, expect |-> expect]

\* Every way of answering on a connection that stays, and the ways of ending one.
MCKinds ==
  {K("now", FALSE, FALSE, "no"), K("now", TRUE, FALSE, "no"), K("now", TRUE, TRUE, "no"),
   K("later", FALSE, FALSE, "no"), K("later", FALSE, TRUE, "no"), K("middleware", FALSE, TRUE, "no"),
   K("invalid", FALSE, FALSE, "no"), K("upgrade", TRUE, FALSE, "no"), K("now", FALSE, FALSE, "wait")}

\* Answered later, on a connection the client asked to be closed.
MCLaterClose == {K("now", FALSE, FALSE, "no"), K("later", TRUE, FALSE, "no")}

\* The body is sent without waiting for 100 Continue, and the connection is to be closed.
MCHurry == {K("now", FALSE, FALSE, "no"), K("now", TRUE, FALSE, "hurry")}

MCGarbage == {0, 1}

Frame(op, fin, mask, len, pieces) == [op |-> op, fin |-> fin, mask |-> mask, len |-> len, pieces |-> pieces]

MCFrames ==
  {Frame("text", TRUE, FALSE, "16", 1), Frame("binary", FALSE, TRUE, "64", 2), Frame("cont", TRUE, TRUE, "7", 1),
   Frame("ping", TRUE, TRUE, "7", 0), Frame("close", TRUE, TRUE, "7", 1)}

Server == INSTANCE CrowServer WITH queue <- jobs

\* One connection, for the liveness property: connections have nothing in
\* common but the timer, and that property excepts erased deadlines.
Life == INSTANCE CrowServer WITH
          Conns <- {"c"}, conn <- lConn, timer <- lTimer, queue <- lJobs, load <- lLoad, accepting <- lAccepting

Middle == INSTANCE CrowMiddleware WITH n <- at, frame <- inside, Faults <- Failures

ASSUME ServerAssumption == Server!CrowAssumption
ASSUME Life!CrowAssumption
ASSUME MiddlewaresAssumption == Middle!MiddlewareAssumption

MiddlewareRests ==
  /\ phase = "done" /\ listed = {} /\ caller = "handle" /\ scope = "global" /\ at = 0 /\ completed = TRUE /\ onEnd = "nothing"
  /\ need = FALSE /\ inside = FALSE /\ thrown = FALSE /\ log = <<>> /\ responses = 1 /\ hist = {}

SocketRests ==
  /\ ws = [Start.k EXCEPT !.open = FALSE] /\ queue = <<>> /\ out = <<>> /\ asked = <<>>
  /\ calls = [messages |-> <<>>, closes |-> <<>>, errors |-> 0]
  /\ client = [frames |-> <<>>, gone |-> FALSE, posts |-> 0]

MCInit ==
  /\ part \in Components /\ Server!Init /\ Life!Init
  /\ IF part = "websocket" THEN Init ELSE SocketRests
  /\ IF part = "middleware" THEN Middle!Init ELSE MiddlewareRests

MCNext ==
  \/ part = "server" /\ Server!Next /\ UNCHANGED <<part, vars, lifeVars, middleVars>>
  \/ part = "life" /\ Life!Next /\ UNCHANGED <<part, vars, serverVars, middleVars>>
  \/ part = "websocket" /\ Next /\ UNCHANGED <<part, serverVars, lifeVars, middleVars>>
  \/ part = "middleware" /\ Middle!Next /\ UNCHANGED <<part, vars, serverVars, lifeVars>>

MCSpec ==
  /\ MCInit /\ [][MCNext]_<<part, vars, serverVars, lifeVars, middleVars>>
  /\ Life!Fairness /\ Fairness /\ Middle!Fairness

-----------------------------------------------------------------------------
\* CrowServer: connections, timers and counters agree, no handler is left for a
\* deleted connection, and responses are not mixed up.
ServerSound == Server!ConnectionsSound

\* CrowMiddleware: the handlers of a request are called in order, the
\* after_handle of each middleware mirrors its before_handle, and the request
\* is answered once.
MiddlewareSound == Middle!MiddlewareSound

\* Connections and WebSockets are deleted in the end, except in the cases the
\* two modules name.
ObjectsDeleted == Life!EventuallyDeleted /\ EventuallyDeleted

\* Every request is answered, except in the cases the module names: a middleware
\* whose exception nothing answers, and a completion handler that is gone.
EventuallyAnswered == Middle!EventuallyAnswered

\* What the code does not keep, for the runs the README describes.
DeadlineArmed == Server!DeadlineArmed
ResponsesOwned == Server!ResponsesOwned
ThrownAnswered == Middle!ThrownAnswered
FrameAlive == Middle!FrameAlive
AlwaysMirrored == Middle!AlwaysMirrored
=============================================================================
