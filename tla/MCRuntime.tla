----------------------------- MODULE MCRuntime -----------------------------
(***************************************************************************)
(* Instances of CrowSession, EventMeth, PistacheServer and WebServer for   *)
(* TLC, in one state space: the initial state picks the one that moves,    *)
(* and the others rest where nothing of theirs is under way.               *)
(***************************************************************************)
EXTENDS CrowSession, TLC

CONSTANTS
    Components,                     \* the ones to check
    Registered, Apart, MaxWrites, MaxSets, MaxSock, CounterLimit,   \* of EventMeth
    Workers, Peers, Blocking, Inside, Early,                        \* of PistacheServer
    Stoppers, Uploaders, Body, Killers, RandomNames, Targets, ContentLimit    \* of WebServer, the first of PistacheServer too

VARIABLES
    component,
    interest, ready, ev, pend, act, alive, art, counter, lockS, lockI, lockC,
    pc, at, why, ran, out, fired, writes, sets, socks,                          \* EventMeth
    blocking, life, run, reactor, bound, told, conn, given, worker, flag, note,
    lockR, lockD, handlers, failed, stop, left,                                         \* PistacheServer
    target, main, running, daemon, stopper, twice, request, disk, inode         \* WebServer

loopVars == <<interest, ready, ev, pend, act, alive, art, counter, lockS, lockI, lockC,
              pc, at, why, ran, out, fired, writes, sets, socks>>
serverVars == <<blocking, life, run, reactor, bound, told, conn, given, worker, flag, note,
                lockR, lockD, handlers, failed, stop, left>>
webVars == <<target, main, running, daemon, stopper, twice, request, disk, inode>>

E == INSTANCE EventMeth WITH
       Fd <- "fd", Tmr <- "tmr", Sock <- "sock", Limit <- CounterLimit

P == INSTANCE PistacheServer WITH
       Conns <- Peers, main <- life, at <- given, lockS <- lockD

Call(key, file, more, data) == [key |-> key, file |-> file, more |-> more, data |-> data]

\* Two clients that upload a file of the same name under the same key.
MCBody == [c \in {"c1", "c2"} |->
             IF c = "c1" THEN <<Call("k", "f", FALSE, 1), Call("k", "f", TRUE, 2), Call("m", "f", FALSE, 3)>>
             ELSE <<Call("a", None, FALSE, 4), Call("a", None, TRUE, 5), Call("k", "f", FALSE, 6)>>]

W == INSTANCE WebServer WITH
       Conns <- Uploaders, Limit <- ContentLimit, req <- request

ASSUME LoopAssumption == E!BoundsAssumption /\ E!KindsAssumption
ASSUME ServerAssumption == P!WorkersAssumption /\ P!KindsAssumption
ASSUME UploadsAssumption == W!TargetAssumption /\ W!KillersAssumption /\ W!LimitAssumption /\ W!BodyAssumption

LoopRests ==
    /\ interest = {} /\ ready = {} /\ ev = {} /\ pend = {} /\ act = {} /\ alive = E!Events /\ art = {}
    /\ counter = [e \in E!Counters |-> 0] /\ lockS = E!Nobody /\ lockI = E!Nobody
    /\ lockC = [e \in E!Counters |-> E!Nobody] /\ pc = [t \in E!Threads |-> "off"] /\ at = [t \in E!Threads |-> "fd"]
    /\ why = "read" /\ ran = FALSE /\ out = {} /\ fired = FALSE /\ writes = 0 /\ sets = 0 /\ socks = 0

ServerRests ==
    /\ blocking = TRUE /\ life = "gone" /\ run = "returned" /\ reactor = TRUE /\ bound = TRUE /\ told = TRUE
    /\ conn = [c \in Peers |-> "closed"] /\ given = [c \in Peers |-> P!Nowhere]
    /\ worker = [w \in Workers |-> "exited"] /\ flag = [w \in Workers |-> TRUE] /\ note = [w \in Workers |-> FALSE]
    /\ lockR = [w \in Workers |-> P!Free] /\ lockD = [w \in Workers |-> P!Free]
    /\ handlers = [w \in Workers |-> "gone"] /\ failed = [w \in Workers |-> FALSE]
    /\ stop = [t \in P!Callers |-> "done"] /\ left = [t \in P!Callers |-> {}]

WebRests ==
    /\ target = "memory" /\ main = "returned" /\ running = FALSE /\ daemon = "none" /\ twice = FALSE
    /\ stopper = [s \in Stoppers \cup Killers |-> "idle"] /\ request = [c \in Uploaders |-> W!NoRequest]
    /\ disk = [p \in {} |-> 0] /\ inode = <<>>

MCInit ==
    /\ component \in Components /\ Init /\ (component # "session" => files = TRUE)
    /\ IF component = "loop" THEN E!Init ELSE LoopRests
    /\ IF component = "server" THEN P!Init ELSE ServerRests
    /\ IF component = "web" THEN W!Init ELSE WebRests

MCNext ==
    \/ component = "session" /\ Next /\ UNCHANGED <<component, loopVars, serverVars, webVars>>
    \/ component = "loop" /\ E!Next /\ UNCHANGED <<component, vars, serverVars, webVars>>
    \/ component = "server" /\ P!Next /\ UNCHANGED <<component, vars, loopVars, webVars>>
    \/ component = "web" /\ W!Next /\ UNCHANGED <<component, vars, loopVars, serverVars>>

MCSpec ==
    /\ MCInit /\ [][MCNext]_<<component, vars, loopVars, serverVars, webVars>>
    /\ E!Fairness /\ P!Fairness /\ W!Fairness

-----------------------------------------------------------------------------
\* EventMeth: no event is reported or read once it is unwanted or deleted.
\* PistacheServer: threads, handlers and connections end in order.
LoopSound == E!LoopSound /\ P!LifeSound

\* EventMeth: a value written to a counter and the expiry of a timer reach the
\* handler.
EventsSeen == E!EventsSeen

\* WebServer: what a resource is given of an upload is whole, and no file
\* outlives its request.
UploadsSound == W!UploadsSound

\* WebServer: a stop() that returned TRUE releases the thread in start().
\* PistacheServer: shutdown() makes run() return, the destructor returns, and
\* a connection that was accepted is opened.
StartReturns == W!StartReturns /\ P!ServerServes

\* What the code does not keep, for the runs the README describes.
NoCrossedLocks == E!NoCrossedLocks
HandlerThere == P!HandlerThere
StoppedOnce == W!StoppedOnce
StopNeverLost == W!StopNeverLost
ArgsBounded == W!ArgsBounded
=============================================================================
