--------------------------- MODULE RuntimeProofs ---------------------------
(***************************************************************************)
(* Parts of MCRuntime for any values of their constants.  LoopSound: the   *)
(* event loop of eventmeth.cc never reports an event that was deleted, and *)
(* a Pistache server's handlers outlive the batches that use them.         *)
(* SessionsSound and SessionsHonoured: Crow's session middleware keeps     *)
(* exactly the sessions that requests use, and what they are told to keep. *)
(* UploadsSound: what libhttpserver gives a resource is what the client    *)
(* sent, and no uploaded file outlives its request.                        *)
(*                                                                         *)
(* Each component has an inductive invariant of its own; the steps of the  *)
(* others leave its variables alone.                                       *)
(***************************************************************************)
EXTENDS MCRuntime, FiniteSetTheorems, SequenceTheorems, TLAPS

-----------------------------------------------------------------------------
(* The event loop *)

\* What the variables of EventMeth hold.
LoopTypes ==
    /\ interest \subseteq E!Events /\ ready \subseteq E!Events /\ ev \subseteq E!Events
    /\ pend \subseteq ev /\ act \subseteq ev \X {"read", "timeout"}
    /\ art \subseteq {"tmr"} /\ counter \in [E!Counters -> 0 .. CounterLimit]
    /\ lockS \in {E!Nobody, "closer"} /\ lockI \in {E!Nobody, "loop"}
    /\ lockC \in [E!Counters -> {E!Nobody, "loop", "setter"}] /\ out \subseteq E!Events
    /\ pc \in [E!Threads -> {"off", "idle", "found", "callback", "expire", "process", "handle", "read", "renew",
                             "renewAdd", "renewIn", "arm", "armIn", "register", "addIn", "close", "done"}]
    /\ at \in [E!Threads -> E!Events]
    /\ why \in {"read", "timeout"}

\* Only the socket is ever deleted, and what is deleted is neither wanted nor
\* ready; what is ready is wanted.
Living ==
    /\ alive \subseteq E!Events /\ E!Counters \subseteq alive
    /\ ready \subseteq interest /\ interest \subseteq alive

\* Only counters are read and renewed, and only the timer has a timeout.
Renewing ==
    \A t \in {"loop", "setter"} : pc[t] \in {"read", "renew", "renewAdd", "renewIn"} => at[t] \in E!Counters
Timing ==
    /\ \A a \in act : a[2] = "timeout" => a[1] = "tmr"
    /\ pc["loop"] \in {"found", "callback"} /\ why = "timeout" => at["loop"] = "tmr"

\* The loop holds interest_mutex_ while it writes an expired timer's counter
\* and while Epoll::poll copies the flags of the events it was given; so
\* nobody deletes these in between.
Holding ==
    /\ pc["loop"] = "expire" => lockI = "loop" /\ "tmr" \in interest
    /\ pc["loop"] = "process" => lockI = "loop" /\ out \subseteq alive

LoopInv == LoopTypes /\ Living /\ Renewing /\ Timing /\ Holding

-----------------------------------------------------------------------------
(* The life of a server *)

ServerTypes ==
    /\ life \in {"made", "bound", "serving", "free", "ending", "detach", "gone"}
    /\ run \in {"no", "bind", "workers", "poll", "returned"} /\ {reactor, bound, told} \subseteq BOOLEAN
    /\ conn \in [Peers -> {"out", "backlog", "queued", "open", "closed"}]
    /\ worker \in [Workers -> {"none", "spawned", "each", "loop", "lock", "poll", "polled", "handle", "exited",
                               "null", "threw"}]
    /\ flag \in [Workers -> BOOLEAN]
    /\ lockR \in [Workers -> {P!Free, P!Owner} \cup Workers]
    /\ handlers \in [Workers -> {"there", "emptied", "gone"}]
    /\ stop \in [P!Callers -> {"idle", "notify", "workers", "done"} \cup Workers]
    /\ left \in [P!Callers -> SUBSET Workers]

\* From its poll to the end of the batch a worker holds reg_unreg_mutex_, and
\* so does the destructor from the first half of detachAndRemoveAllHandlers to
\* the second.
Locked ==
    \A w \in Workers :
        /\ worker[w] \in {"poll", "polled", "handle"} => lockR[w] = w
        /\ handlers[w] = "emptied" => lockR[w] = P!Owner

\* The destructor's own shutdown() begins with the destructor, finds a reactor,
\* and has set shutdown_ of the workers it is done with.
Shutting ==
    /\ life # "made" => reactor
    /\ life \in {"made", "bound", "serving", "free"} => stop[P!Owner] = "idle"
    /\ stop[P!Owner] \in {"workers", "done"} \cup Workers => \A w \in Workers \ left[P!Owner] : flag[w]
    /\ stop[P!Owner] = "done" => left[P!Owner] = {}

\* Handlers are taken away only after that, and after run() has returned; a
\* worker that handles a batch has not seen its flag set.
Taken ==
    /\ life \in {"detach", "gone"} => stop[P!Owner] = "done" /\ run = "returned"
    /\ \A w \in Workers : handlers[w] # "there" => life \in {"detach", "gone"}

ServerInv ==
    /\ ServerTypes /\ Locked /\ Shutting /\ Taken
    /\ P!HandlersKept /\ P!NeverThrows /\ P!NothingLeft

IInv == LoopInv /\ ServerInv

-----------------------------------------------------------------------------
\* Every step of the loop, of libevent and of the threads that write, set,
\* register and close events keeps the invariant (eventCallbackFn,
\* handleEventCallback, getReadyEmEvents, renewEv, settime, ctl, closeEvent).
LEMMA LoopKeeps == ASSUME LoopInv, E!Next PROVE LoopInv'
<1>. USE DEF LoopTypes, Living, Renewing, Timing, Holding, E!Events, E!Counters, E!Threads, E!Nobody
<1>0. LoopTypes /\ Living /\ Renewing /\ Timing /\ Holding /\ CounterLimit \in Nat
  BY LoopAssumption DEF LoopInv, E!BoundsAssumption
<1>1. ASSUME E!SockReadable PROVE LoopInv'
  <2>1. LoopTypes'
    BY <1>0, <1>1 DEF E!SockReadable, E!InLoop, E!LoopMayRun, E!sets1, E!locks, E!where
  <2>2. Living' /\ Renewing' /\ Timing' /\ Holding'
    BY <1>0, <1>1 DEF E!SockReadable, E!InLoop, E!LoopMayRun, E!sets1, E!locks, E!where
  <2>. QED BY <2>1, <2>2 DEF LoopInv
<1>2. ASSUME E!TimerExpires PROVE LoopInv'
  <2>1. LoopTypes'
    BY <1>0, <1>2 DEF E!TimerExpires, E!InLoop, E!LoopMayRun, E!sets1, E!locks, E!where
  <2>2. Living' /\ Renewing' /\ Timing' /\ Holding'
    BY <1>0, <1>2 DEF E!TimerExpires, E!InLoop, E!LoopMayRun, E!sets1, E!locks, E!where
  <2>. QED BY <2>1, <2>2 DEF LoopInv
<1>3. ASSUME E!Dispatch PROVE LoopInv'
  <2>. PICK a \in act : act' = act \ {a} /\ why' = a[2] /\ at' = [at EXCEPT !["loop"] = a[1]]
    BY <1>3 DEF E!Dispatch, E!GoAt
  <2>a. a[1] \in E!Events /\ a[2] \in {"read", "timeout"}
    BY <1>0
  <2>1. LoopTypes'
    BY <1>0, <1>3, <2>a DEF E!Dispatch, E!GoAt, E!Go, E!sets1, E!locks
  <2>2. Living' /\ Renewing' /\ Timing' /\ Holding'
    BY <1>0, <1>3 DEF E!Dispatch, E!InLoop, E!LoopMayRun, E!GoAt, E!Go, E!sets1, E!locks, E!ghosts
  <2>. QED BY <2>1, <2>2 DEF LoopInv
<1>4. ASSUME E!CallbackFind PROVE LoopInv'
  <2>1. LoopTypes'
    BY <1>0, <1>4 DEF E!CallbackFind, E!Free, E!Go, E!sets1, E!lib, E!locks, E!ghosts
  <2>2. Living' /\ Renewing' /\ Timing' /\ Holding'
    BY <1>0, <1>4 DEF E!CallbackFind, E!Free, E!Go, E!sets1, E!lib, E!locks, E!ghosts
  <2>. QED BY <2>1, <2>2 DEF LoopInv
<1>5. ASSUME E!CallbackReady PROVE LoopInv'
  <2>a. /\ UNCHANGED <<interest, ev, pend, act, art, counter, lockS, lockC, out, at, why>>
        /\ ready' \subseteq ready \cup {at["loop"]} /\ lockI' \in {lockI, "loop"}
        /\ \E l \in {"expire", "idle"} : pc' = [pc EXCEPT !["loop"] = l]
    BY <1>5 DEF E!CallbackReady, E!Go, E!lib, E!ghosts
  <2>1. LoopTypes'
    BY <1>0, <2>a
  <2>2. Living' /\ Renewing' /\ Timing' /\ Holding'
    BY <1>0, <1>5, ZenonT(60) DEF E!CallbackReady, E!Free, E!Go, E!lib, E!ghosts
  <2>. QED BY <2>1, <2>2 DEF LoopInv
<1>6. ASSUME E!CallbackExpire PROVE LoopInv'
  <2>1. LoopTypes'
    BY <1>0, <1>6 DEF E!CallbackExpire, E!Free, E!Go, E!Counted, E!Activated, E!ghosts
  <2>2. Living' /\ Renewing' /\ Timing' /\ Holding'
    BY <1>0, <1>6 DEF E!CallbackExpire, E!Free, E!Go, E!Counted, E!Activated, E!ghosts
  <2>. QED BY <2>1, <2>2 DEF LoopInv
<1>7. ASSUME E!Collect PROVE LoopInv'
  <2>1. LoopTypes'
    BY <1>0, <1>7 DEF E!Collect, E!InLoop, E!LoopMayRun, E!Free, E!Go, E!Persist, E!lib, E!ghosts
  <2>2. Living' /\ Renewing' /\ Timing' /\ Holding'
    BY <1>0, <1>7 DEF E!Collect, E!InLoop, E!LoopMayRun, E!Free, E!Go, E!Persist, E!lib, E!ghosts
  <2>. QED BY <2>1, <2>2 DEF LoopInv
<1>8. ASSUME E!PollDone PROVE LoopInv'
  <2>1. LoopTypes'
    BY <1>0, <1>8 DEF E!PollDone, E!Go, E!sets1, E!lib, E!ghosts
  <2>2. Living' /\ Renewing' /\ Timing' /\ Holding'
    BY <1>0, <1>8 DEF E!PollDone, E!Go, E!sets1, E!lib, E!ghosts
  <2>. QED BY <2>1, <2>2 DEF LoopInv
<1>9. ASSUME E!Handle PROVE LoopInv'
  <2>a. /\ UNCHANGED <<interest, ready, ev, pend, act, alive, art, counter, lockS, lockI, lockC, why>>
        /\ out' \subseteq out
        /\ pc' = pc \/ \E l \in {"idle", "read"} : pc' = [pc EXCEPT !["loop"] = l]
        /\ at' = at \/ \E e \in out : at' = [at EXCEPT !["loop"] = e]
    BY <1>9 DEF E!Handle, E!Go, E!GoAt, E!sets1, E!lib, E!locks
  <2>1. LoopTypes'
    BY <1>0, <2>a
  <2>2. Living' /\ Renewing' /\ Timing' /\ Holding'
    BY <1>0, <1>9 DEF E!Handle, E!LoopMayRun, E!Go, E!GoAt, E!sets1, E!lib, E!locks, E!ghosts
  <2>. QED BY <2>1, <2>2 DEF LoopInv
<1>10. ASSUME E!Write PROVE LoopInv'
  <2>1. LoopTypes'
    BY <1>0, <1>10 DEF E!Write, E!Free, E!Counted, E!Activated, E!sets1, E!locks, E!where
  <2>2. Living' /\ Renewing' /\ Timing' /\ Holding'
    BY <1>0, <1>10 DEF E!Write, E!Free, E!Counted, E!Activated, E!sets1, E!locks, E!where
  <2>. QED BY <2>1, <2>2 DEF LoopInv
<1>11. ASSUME E!SetTime PROVE LoopInv'
  <2>1. LoopTypes'
    BY <1>0, <1>11 DEF E!SetTime, E!Go, E!GoAt, E!sets1, E!lib, E!locks
  <2>2. Living' /\ Renewing' /\ Timing' /\ Holding'
    BY <1>0, <1>11 DEF E!SetTime, E!Go, E!GoAt, E!sets1, E!lib, E!locks
  <2>. QED BY <2>1, <2>2 DEF LoopInv
<1>12. ASSUME E!Disarm PROVE LoopInv'
  <2>1. LoopTypes'
    BY <1>0, <1>12 DEF E!Disarm, E!Free, E!Go, E!NoLongerActive, E!sets1, E!locks
  <2>2. Living' /\ Renewing' /\ Timing' /\ Holding'
    BY <1>0, <1>12 DEF E!Disarm, E!Free, E!Go, E!NoLongerActive, E!sets1, E!locks
  <2>. QED BY <2>1, <2>2 DEF LoopInv
<1>13. ASSUME E!ArmRefused PROVE LoopInv'
  <2>1. LoopTypes'
    BY <1>0, <1>13 DEF E!ArmRefused, E!Free, E!Go, E!sets1, E!lib, E!locks, E!ghosts
  <2>2. Living' /\ Renewing' /\ Timing' /\ Holding'
    BY <1>0, <1>13 DEF E!ArmRefused, E!Free, E!Go, E!sets1, E!lib, E!locks, E!ghosts
  <2>. QED BY <2>1, <2>2 DEF LoopInv
<1>14. ASSUME E!Arm PROVE LoopInv'
  <2>1. LoopTypes'
    BY <1>0, <1>14 DEF E!Arm, E!Free, E!Go, E!EventAdd, E!sets1, E!locks, E!ghosts
  <2>2. Living' /\ Renewing' /\ Timing' /\ Holding'
    BY <1>0, <1>14 DEF E!Arm, E!Free, E!Go, E!EventAdd, E!sets1, E!locks, E!ghosts
  <2>. QED BY <2>1, <2>2 DEF LoopInv
<1>15. ASSUME E!ArmIn PROVE LoopInv'
  <2>1. LoopTypes'
    BY <1>0, <1>15 DEF E!ArmIn, E!Free, E!Go, E!lib, E!locks, E!ghosts
  <2>2. Living' /\ Renewing' /\ Timing' /\ Holding'
    BY <1>0, <1>15 DEF E!ArmIn, E!Free, E!Go, E!lib, E!locks, E!ghosts
  <2>. QED BY <2>1, <2>2 DEF LoopInv
<1>16. ASSUME E!Register PROVE LoopInv'
  <2>1. LoopTypes'
    BY <1>0, <1>16 DEF E!Register, E!Free, E!Go, E!EventAdd, E!locks, E!ghosts
  <2>2. Living' /\ Renewing' /\ Timing' /\ Holding'
    BY <1>0, <1>16 DEF E!Register, E!Free, E!Go, E!EventAdd, E!locks, E!ghosts
  <2>. QED BY <2>1, <2>2 DEF LoopInv
<1>17. ASSUME E!Add PROVE LoopInv'
  <2>1. LoopTypes'
    BY <1>0, <1>17 DEF E!Add, E!Free, E!Go, E!sets1, E!locks, E!ghosts
  <2>2. Living' /\ Renewing' /\ Timing' /\ Holding'
    BY <1>0, <1>17 DEF E!Add, E!Free, E!Go, E!sets1, E!locks, E!ghosts
  <2>. QED BY <2>1, <2>2 DEF LoopInv
<1>18. ASSUME E!AddIn PROVE LoopInv'
  <2>1. LoopTypes'
    BY <1>0, <1>18 DEF E!AddIn, E!Free, E!Go, E!lib, E!locks, E!ghosts
  <2>2. Living' /\ Renewing' /\ Timing' /\ Holding'
    BY <1>0, <1>18 DEF E!AddIn, E!Free, E!Go, E!lib, E!locks, E!ghosts
  <2>. QED BY <2>1, <2>2 DEF LoopInv
<1>19. ASSUME E!CloseLock PROVE LoopInv'
  <2>1. LoopTypes'
    BY <1>0, <1>19 DEF E!CloseLock, E!Free, E!Go, E!sets1, E!lib, E!ghosts
  <2>2. Living' /\ Renewing' /\ Timing' /\ Holding'
    BY <1>0, <1>19 DEF E!CloseLock, E!Free, E!Go, E!sets1, E!lib, E!ghosts
  <2>. QED BY <2>1, <2>2 DEF LoopInv
<1>20. ASSUME E!Close PROVE LoopInv'
  <2>1. LoopTypes'
    BY <1>0, <1>20 DEF E!Close, E!Free, E!Go, E!NoLongerActive, E!ghosts
  <2>2. Living' /\ Renewing' /\ Timing' /\ Holding'
    BY <1>0, <1>20 DEF E!Close, E!Free, E!Go, E!NoLongerActive, E!ghosts
  <2>. QED BY <2>1, <2>2 DEF LoopInv
<1>21. ASSUME NEW t \in {"loop", "setter"}, E!Reset(t) PROVE LoopInv'
  <2>1. LoopTypes'
    BY <1>0, <1>21 DEF E!Reset, E!Free, E!Go, E!After, E!sets1, E!lib
  <2>2. Living' /\ Renewing' /\ Timing' /\ Holding'
    BY <1>0, <1>21 DEF E!Reset, E!Free, E!Go, E!After, E!sets1, E!lib
  <2>. QED BY <2>1, <2>2 DEF LoopInv
<1>22. ASSUME NEW t \in {"loop", "setter"}, E!RenewDel(t) PROVE LoopInv'
  <2>a. UNCHANGED <<art, counter, lockI, out, why, at>>
    BY <1>22 DEF E!RenewDel
  <2>b. /\ interest' \subseteq interest /\ ready' \subseteq ready
        /\ ev' = ev \ {at[t]} /\ pend' = pend \ {at[t]} /\ act' = {a \in act : a[1] # at[t]}
    BY <1>22 DEF E!RenewDel, E!NoLongerActive
  <2>c. pend' \subseteq ev' /\ act' \subseteq ev' \X {"read", "timeout"}
    BY <1>0, <2>b
  <2>d. pc' \in [E!Threads -> {"off", "idle", "found", "callback", "expire", "process", "handle", "read", "renew",
                               "renewAdd", "renewIn", "arm", "armIn", "register", "addIn", "close", "done"}]
    BY <1>0, <1>22 DEF E!RenewDel, E!Go, E!After
  <2>e. lockS' = lockS /\ lockC' \in [E!Counters -> {E!Nobody, "loop", "setter"}]
    BY <1>0, <1>22 DEF E!RenewDel
  <2>1. LoopTypes'
    BY <1>0, <2>a, <2>b, <2>c, <2>d, <2>e
  <2>2. Living' /\ Renewing' /\ Timing' /\ Holding'
    BY <1>0, <1>22, ZenonT(60) DEF E!RenewDel, E!Free, E!Go, E!After, E!NoLongerActive, E!ghosts
  <2>. QED BY <2>1, <2>2 DEF LoopInv
<1>23. ASSUME NEW t \in {"loop", "setter"}, E!RenewAdd(t) PROVE LoopInv'
  <2>1. LoopTypes'
    BY <1>0, <1>23 DEF E!RenewAdd, E!Free, E!Go, E!sets1, E!locks, E!ghosts
  <2>2. Living' /\ Renewing' /\ Timing' /\ Holding'
    BY <1>0, <1>23 DEF E!RenewAdd, E!Free, E!Go, E!sets1, E!locks, E!ghosts
  <2>. QED BY <2>1, <2>2 DEF LoopInv
<1>24. ASSUME NEW t \in {"loop", "setter"}, E!RenewIn(t) PROVE LoopInv'
  <2>1. LoopTypes'
    BY <1>0, <1>24 DEF E!RenewIn, E!Free, E!Go, E!After, E!lib, E!ghosts
  <2>2. Living' /\ Renewing' /\ Timing' /\ Holding'
    BY <1>0, <1>24, ZenonT(60) DEF E!RenewIn, E!Free, E!Go, E!After, E!lib, E!ghosts
  <2>. QED BY <2>1, <2>2 DEF LoopInv
<1>. QED
  BY <1>1, <1>2, <1>3, <1>4, <1>5, <1>6, <1>7, <1>8, <1>9, <1>10, <1>11, <1>12, <1>13, <1>14, <1>15, <1>16, <1>17, <1>18, <1>19, <1>20, <1>21, <1>22, <1>23, <1>24
  DEF E!Next, E!Poll, E!Callback, E!Renew, E!Setter

\* Every step of the owner, of Listener::run, of the callers of shutdown() and
\* of the workers keeps the server's invariant.
LEMMA ServerKeeps == ASSUME ServerInv, P!Next PROVE ServerInv'
<1>. USE DEF ServerTypes, Locked, Shutting, Taken, P!HandlersKept, P!NeverThrows, P!NothingLeft,
             P!Owner, P!Free, P!Callers
<1>0. /\ ServerTypes /\ Locked /\ Shutting /\ Taken
      /\ P!HandlersKept /\ P!NeverThrows /\ P!NothingLeft
      /\ "owner" \notin Stoppers \cup Workers /\ "free" \notin Workers
      /\ Workers \cap {"idle", "notify", "workers", "done"} = {}
  BY ServerAssumption DEF ServerInv, P!WorkersAssumption
<1>1. ASSUME P!Bind PROVE ServerInv'
  <2>1. ServerTypes'
    BY <1>0, <1>1 DEF P!Bind, P!Go, P!clients, P!thread, P!signal, P!callers
  <2>2. Locked' /\ Shutting' /\ Taken'
    BY <1>0, <1>1 DEF P!Bind, P!Go, P!clients, P!thread, P!signal, P!callers
  <2>3. P!HandlersKept' /\ P!NeverThrows' /\ P!NothingLeft'
    BY <1>0, <1>1 DEF P!Bind, P!Go, P!clients, P!thread, P!signal, P!callers
  <2>. QED BY <2>1, <2>2, <2>3 DEF ServerInv
<1>2. ASSUME P!Serve PROVE ServerInv'
  <2>1. ServerTypes'
    BY <1>0, <1>2 DEF P!Serve, P!Go, P!clients, P!thread, P!signal, P!callers
  <2>2. Locked' /\ Shutting' /\ Taken'
    BY <1>0, <1>2 DEF P!Serve, P!Go, P!clients, P!thread, P!signal, P!callers
  <2>3. P!HandlersKept' /\ P!NeverThrows' /\ P!NothingLeft'
    BY <1>0, <1>2 DEF P!Serve, P!Go, P!clients, P!thread, P!signal, P!callers
  <2>. QED BY <2>1, <2>2, <2>3 DEF ServerInv
<1>3. ASSUME P!Destroy PROVE ServerInv'
  <2>1. ServerTypes'
    BY <1>0, <1>3 DEF P!Destroy, P!Go, P!listener, P!clients, P!thread, P!signal
  <2>2. Locked' /\ Shutting' /\ Taken'
    BY <1>0, <1>3 DEF P!Destroy, P!Go, P!listener, P!clients, P!thread, P!signal
  <2>3. P!HandlersKept' /\ P!NeverThrows' /\ P!NothingLeft'
    BY <1>0, <1>3 DEF P!Destroy, P!Go, P!listener, P!clients, P!thread, P!signal
  <2>. QED BY <2>1, <2>2, <2>3 DEF ServerInv
<1>4. ASSUME P!Joined PROVE ServerInv'
  <2>1. ServerTypes'
    BY <1>0, <1>4 DEF P!Joined, P!Go, P!listener, P!clients, P!thread, P!signal, P!callers
  <2>2. Locked' /\ Shutting' /\ Taken'
    BY <1>0, <1>4 DEF P!Joined, P!Go, P!listener, P!clients, P!thread, P!signal, P!callers
  <2>3. P!HandlersKept' /\ P!NeverThrows' /\ P!NothingLeft'
    BY <1>0, <1>4 DEF P!Joined, P!Go, P!listener, P!clients, P!thread, P!signal, P!callers
  <2>. QED BY <2>1, <2>2, <2>3 DEF ServerInv
<1>5. ASSUME NEW w \in Workers, P!Detach(w) PROVE ServerInv'
  <2>1. ServerTypes'
    BY <1>0, <1>5 DEF P!Detach, P!owner, P!listener, P!clients, P!signal, P!callers
  <2>2. Locked' /\ Shutting' /\ Taken'
    BY <1>0, <1>5 DEF P!Detach, P!owner, P!listener, P!clients, P!signal, P!callers
  <2>3. P!HandlersKept' /\ P!NeverThrows' /\ P!NothingLeft'
    BY <1>0, <1>5 DEF P!Detach, P!owner, P!listener, P!clients, P!signal, P!callers
  <2>. QED BY <2>1, <2>2, <2>3 DEF ServerInv
<1>6. ASSUME NEW w \in Workers, P!Remove(w) PROVE ServerInv'
  <2>1. ServerTypes'
    BY <1>0, <1>6 DEF P!Remove, P!owner, P!listener, P!signal, P!callers
  <2>2. Locked' /\ Shutting' /\ Taken'
    BY <1>0, <1>6 DEF P!Remove, P!owner, P!listener, P!signal, P!callers
  <2>3. P!HandlersKept' /\ P!NeverThrows' /\ P!NothingLeft'
    BY <1>0, <1>6 DEF P!Remove, P!owner, P!listener, P!signal, P!callers
  <2>. QED BY <2>1, <2>2, <2>3 DEF ServerInv
<1>7. ASSUME P!Destroyed PROVE ServerInv'
  <2>1. ServerTypes'
    BY <1>0, <1>7 DEF P!Destroyed, P!Go, P!listener, P!thread, P!signal, P!callers
  <2>2. Locked' /\ Shutting' /\ Taken'
    BY <1>0, <1>7 DEF P!Destroyed, P!Go, P!listener, P!thread, P!signal, P!callers
  <2>3. P!HandlersKept' /\ P!NeverThrows' /\ P!NothingLeft'
    BY <1>0, <1>7 DEF P!Destroyed, P!Go, P!listener, P!thread, P!signal, P!callers
  <2>. QED BY <2>1, <2>2, <2>3 DEF ServerInv
<1>8. ASSUME P!RunBind PROVE ServerInv'
  <2>1. ServerTypes'
    BY <1>0, <1>8 DEF P!RunBind, P!owner, P!clients, P!thread, P!signal, P!callers
  <2>2. Locked' /\ Shutting' /\ Taken'
    BY <1>0, <1>8 DEF P!RunBind, P!owner, P!clients, P!thread, P!signal, P!callers
  <2>3. P!HandlersKept' /\ P!NeverThrows' /\ P!NothingLeft'
    BY <1>0, <1>8 DEF P!RunBind, P!owner, P!clients, P!thread, P!signal, P!callers
  <2>. QED BY <2>1, <2>2, <2>3 DEF ServerInv
<1>9. ASSUME P!RunWorkers PROVE ServerInv'
  <2>1. ServerTypes'
    BY <1>0, <1>9 DEF P!RunWorkers, P!owner, P!clients, P!signal, P!callers
  <2>2. Locked' /\ Shutting' /\ Taken'
    BY <1>0, <1>9 DEF P!RunWorkers, P!owner, P!clients, P!signal, P!callers
  <2>3. P!HandlersKept' /\ P!NeverThrows' /\ P!NothingLeft'
    BY <1>0, <1>9 DEF P!RunWorkers, P!owner, P!clients, P!signal, P!callers
  <2>. QED BY <2>1, <2>2, <2>3 DEF ServerInv
<1>10. ASSUME NEW c \in Peers, NEW w \in Workers, P!Accept(c, w) PROVE ServerInv'
  <2>1. ServerTypes'
    BY <1>0, <1>10 DEF P!Accept, P!owner, P!listener, P!thread, P!signal, P!callers
  <2>2. Locked' /\ Shutting' /\ Taken'
    BY <1>0, <1>10 DEF P!Accept, P!owner, P!listener, P!thread, P!signal, P!callers
  <2>3. P!HandlersKept' /\ P!NeverThrows' /\ P!NothingLeft'
    BY <1>0, <1>10 DEF P!Accept, P!owner, P!listener, P!thread, P!signal, P!callers
  <2>. QED BY <2>1, <2>2, <2>3 DEF ServerInv
<1>11. ASSUME NEW c \in Peers, P!AcceptFails(c) PROVE ServerInv'
  <2>1. ServerTypes'
    BY <1>0, <1>11 DEF P!AcceptFails, P!owner, P!listener, P!thread, P!signal, P!callers
  <2>2. Locked' /\ Shutting' /\ Taken'
    BY <1>0, <1>11 DEF P!AcceptFails, P!owner, P!listener, P!thread, P!signal, P!callers
  <2>3. P!HandlersKept' /\ P!NeverThrows' /\ P!NothingLeft'
    BY <1>0, <1>11 DEF P!AcceptFails, P!owner, P!listener, P!thread, P!signal, P!callers
  <2>. QED BY <2>1, <2>2, <2>3 DEF ServerInv
<1>12. ASSUME P!RunReturns PROVE ServerInv'
  <2>1. ServerTypes'
    BY <1>0, <1>12 DEF P!RunReturns, P!owner, P!clients, P!thread, P!signal, P!callers
  <2>2. Locked' /\ Shutting' /\ Taken'
    BY <1>0, <1>12 DEF P!RunReturns, P!owner, P!clients, P!thread, P!signal, P!callers
  <2>3. P!HandlersKept' /\ P!NeverThrows' /\ P!NothingLeft'
    BY <1>0, <1>12 DEF P!RunReturns, P!owner, P!clients, P!thread, P!signal, P!callers
  <2>. QED BY <2>1, <2>2, <2>3 DEF ServerInv
<1>13. ASSUME NEW t \in P!Callers, P!StopBegins(t) PROVE ServerInv'
  <2>1. ServerTypes'
    BY <1>0, <1>13 DEF P!StopBegins, P!owner, P!listener, P!clients, P!thread, P!signal
  <2>2. Locked' /\ Shutting' /\ Taken'
    BY <1>0, <1>13 DEF P!StopBegins, P!owner, P!listener, P!clients, P!thread, P!signal
  <2>3. P!HandlersKept' /\ P!NeverThrows' /\ P!NothingLeft'
    BY <1>0, <1>13 DEF P!StopBegins, P!owner, P!listener, P!clients, P!thread, P!signal
  <2>. QED BY <2>1, <2>2, <2>3 DEF ServerInv
<1>14. ASSUME NEW t \in P!Callers, P!StopNotify(t) PROVE ServerInv'
  <2>1. ServerTypes'
    BY <1>0, <1>14 DEF P!StopNotify, P!owner, P!clients, P!thread, P!signal
  <2>2. Locked' /\ Shutting' /\ Taken'
    BY <1>0, <1>14 DEF P!StopNotify, P!owner, P!clients, P!thread, P!signal
  <2>3. P!HandlersKept' /\ P!NeverThrows' /\ P!NothingLeft'
    BY <1>0, <1>14 DEF P!StopNotify, P!owner, P!clients, P!thread, P!signal
  <2>. QED BY <2>1, <2>2, <2>3 DEF ServerInv
<1>15. ASSUME NEW t \in P!Callers, NEW w \in Workers, P!StopStore(t, w) PROVE ServerInv'
  <2>1. ServerTypes'
    BY <1>0, <1>15 DEF P!StopStore, P!owner, P!listener, P!clients, P!thread
  <2>2. Locked' /\ Shutting' /\ Taken'
    BY <1>0, <1>15 DEF P!StopStore, P!owner, P!listener, P!clients, P!thread
  <2>3. P!HandlersKept' /\ P!NeverThrows' /\ P!NothingLeft'
    BY <1>0, <1>15 DEF P!StopStore, P!owner, P!listener, P!clients, P!thread
  <2>. QED BY <2>1, <2>2, <2>3 DEF ServerInv
<1>16. ASSUME NEW t \in P!Callers, NEW w \in Workers, P!StopWorker(t, w) PROVE ServerInv'
  <2>1. ServerTypes'
    BY <1>0, <1>16 DEF P!StopWorker, P!owner, P!listener, P!clients, P!thread
  <2>2. Locked' /\ Shutting' /\ Taken'
    BY <1>0, <1>16 DEF P!StopWorker, P!owner, P!listener, P!clients, P!thread
  <2>3. P!HandlersKept' /\ P!NeverThrows' /\ P!NothingLeft'
    BY <1>0, <1>16 DEF P!StopWorker, P!owner, P!listener, P!clients, P!thread
  <2>. QED BY <2>1, <2>2, <2>3 DEF ServerInv
<1>17. ASSUME NEW t \in P!Callers, P!StopEnds(t) PROVE ServerInv'
  <2>1. ServerTypes'
    BY <1>0, <1>17 DEF P!StopEnds, P!owner, P!listener, P!clients, P!thread, P!signal
  <2>2. Locked' /\ Shutting' /\ Taken'
    BY <1>0, <1>17 DEF P!StopEnds, P!owner, P!listener, P!clients, P!thread, P!signal
  <2>3. P!HandlersKept' /\ P!NeverThrows' /\ P!NothingLeft'
    BY <1>0, <1>17 DEF P!StopEnds, P!owner, P!listener, P!clients, P!thread, P!signal
  <2>. QED BY <2>1, <2>2, <2>3 DEF ServerInv
<1>18. ASSUME NEW w \in Workers, P!WorkerStarts(w) PROVE ServerInv'
  <2>1. ServerTypes'
    BY <1>0, <1>18 DEF P!WorkerStarts, P!Step, P!owner, P!listener, P!clients, P!signal, P!callers
  <2>2. Locked' /\ Shutting' /\ Taken'
    BY <1>0, <1>18 DEF P!WorkerStarts, P!Step, P!owner, P!listener, P!clients, P!signal, P!callers
  <2>3. P!HandlersKept' /\ P!NeverThrows' /\ P!NothingLeft'
    BY <1>0, <1>18 DEF P!WorkerStarts, P!Step, P!owner, P!listener, P!clients, P!signal, P!callers
  <2>. QED BY <2>1, <2>2, <2>3 DEF ServerInv
<1>19. ASSUME NEW w \in Workers, P!WorkerIds(w) PROVE ServerInv'
  <2>1. ServerTypes'
    BY <1>0, <1>19 DEF P!WorkerIds, P!Step, P!owner, P!listener, P!clients, P!signal, P!callers
  <2>2. Locked' /\ Shutting' /\ Taken'
    BY <1>0, <1>19 DEF P!WorkerIds, P!Step, P!owner, P!listener, P!clients, P!signal, P!callers
  <2>3. P!HandlersKept' /\ P!NeverThrows' /\ P!NothingLeft'
    BY <1>0, <1>19 DEF P!WorkerIds, P!Step, P!owner, P!listener, P!clients, P!signal, P!callers
  <2>. QED BY <2>1, <2>2, <2>3 DEF ServerInv
<1>20. ASSUME NEW w \in Workers, P!WorkerLoops(w) PROVE ServerInv'
  <2>1. ServerTypes'
    BY <1>0, <1>20 DEF P!WorkerLoops, P!Step, P!owner, P!listener, P!clients, P!signal, P!callers
  <2>2. Locked' /\ Shutting' /\ Taken'
    BY <1>0, <1>20 DEF P!WorkerLoops, P!Step, P!owner, P!listener, P!clients, P!signal, P!callers
  <2>3. P!HandlersKept' /\ P!NeverThrows' /\ P!NothingLeft'
    BY <1>0, <1>20 DEF P!WorkerLoops, P!Step, P!owner, P!listener, P!clients, P!signal, P!callers
  <2>. QED BY <2>1, <2>2, <2>3 DEF ServerInv
<1>21. ASSUME NEW w \in Workers, P!WorkerLocks(w) PROVE ServerInv'
  <2>1. ServerTypes'
    BY <1>0, <1>21 DEF P!WorkerLocks, P!Step, P!owner, P!listener, P!clients, P!signal, P!callers
  <2>2. Locked' /\ Shutting' /\ Taken'
    BY <1>0, <1>21 DEF P!WorkerLocks, P!Step, P!owner, P!listener, P!clients, P!signal, P!callers
  <2>3. P!HandlersKept' /\ P!NeverThrows' /\ P!NothingLeft'
    BY <1>0, <1>21 DEF P!WorkerLocks, P!Step, P!owner, P!listener, P!clients, P!signal, P!callers
  <2>. QED BY <2>1, <2>2, <2>3 DEF ServerInv
<1>22. ASSUME NEW w \in Workers, P!WorkerPolls(w) PROVE ServerInv'
  <2>1. ServerTypes'
    BY <1>0, <1>22 DEF P!WorkerPolls, P!Step, P!owner, P!listener, P!clients, P!callers
  <2>2. Locked' /\ Shutting' /\ Taken'
    BY <1>0, <1>22 DEF P!WorkerPolls, P!Step, P!owner, P!listener, P!clients, P!callers
  <2>3. P!HandlersKept' /\ P!NeverThrows' /\ P!NothingLeft'
    BY <1>0, <1>22 DEF P!WorkerPolls, P!Step, P!owner, P!listener, P!clients, P!callers
  <2>. QED BY <2>1, <2>2, <2>3 DEF ServerInv
<1>23. ASSUME NEW w \in Workers, P!PollFails(w) PROVE ServerInv'
  <2>1. ServerTypes'
    BY <1>0, <1>23 DEF P!PollFails, P!Step, P!owner, P!listener, P!clients, P!signal, P!callers
  <2>2. Locked' /\ Shutting' /\ Taken'
    BY <1>0, <1>23 DEF P!PollFails, P!Step, P!owner, P!listener, P!clients, P!signal, P!callers
  <2>3. P!HandlersKept' /\ P!NeverThrows' /\ P!NothingLeft'
    BY <1>0, <1>23 DEF P!PollFails, P!Step, P!owner, P!listener, P!clients, P!signal, P!callers
  <2>. QED BY <2>1, <2>2, <2>3 DEF ServerInv
<1>24. ASSUME NEW w \in Workers, P!WorkerTests(w) PROVE ServerInv'
  <2>1. ServerTypes'
    BY <1>0, <1>24 DEF P!WorkerTests, P!Step, P!owner, P!listener, P!clients, P!signal, P!callers
  <2>2. Locked' /\ Shutting' /\ Taken'
    BY <1>0, <1>24 DEF P!WorkerTests, P!Step, P!owner, P!listener, P!clients, P!signal, P!callers
  <2>3. P!HandlersKept' /\ P!NeverThrows' /\ P!NothingLeft'
    BY <1>0, <1>24 DEF P!WorkerTests, P!Step, P!owner, P!listener, P!clients, P!signal, P!callers
  <2>. QED BY <2>1, <2>2, <2>3 DEF ServerInv
<1>25. ASSUME NEW w \in Workers, P!WorkerHandles(w) PROVE ServerInv'
  <2>1. ServerTypes'
    BY <1>0, <1>25 DEF P!WorkerHandles, P!Step, P!owner, P!listener, P!signal, P!callers
  <2>2. Locked' /\ Shutting' /\ Taken'
    BY <1>0, <1>25 DEF P!WorkerHandles, P!Step, P!owner, P!listener, P!signal, P!callers
  <2>3. P!HandlersKept' /\ P!NeverThrows' /\ P!NothingLeft'
    BY <1>0, <1>25 DEF P!WorkerHandles, P!Step, P!owner, P!listener, P!signal, P!callers
  <2>. QED BY <2>1, <2>2, <2>3 DEF ServerInv
<1>26. ASSUME NEW c \in Peers, P!Connect(c) PROVE ServerInv'
  <2>1. ServerTypes'
    BY <1>0, <1>26 DEF P!Connect, P!owner, P!listener, P!thread, P!signal, P!callers
  <2>2. Locked' /\ Shutting' /\ Taken'
    BY <1>0, <1>26 DEF P!Connect, P!owner, P!listener, P!thread, P!signal, P!callers
  <2>3. P!HandlersKept' /\ P!NeverThrows' /\ P!NothingLeft'
    BY <1>0, <1>26 DEF P!Connect, P!owner, P!listener, P!thread, P!signal, P!callers
  <2>. QED BY <2>1, <2>2, <2>3 DEF ServerInv
<1>. QED
  BY <1>1, <1>2, <1>3, <1>4, <1>5, <1>6, <1>7, <1>8, <1>9, <1>10, <1>11, <1>12, <1>13, <1>14, <1>15, <1>16, <1>17, <1>18, <1>19, <1>20, <1>21, <1>22, <1>23, <1>24, <1>25, <1>26
  DEF P!Next, P!Progress, P!Owning, P!Running, P!Stopping, P!Working

-----------------------------------------------------------------------------
(* Both *)

LEMMA InitEstablishes == MCInit => IInv
<1>1. ASSUME E!Init PROVE LoopInv
  BY <1>1, LoopAssumption
  DEF LoopInv, LoopTypes, Living, Renewing, Timing, Holding, E!Init, E!Events, E!Counters, E!Threads, E!Nobody,
      E!BoundsAssumption
<1>2. ASSUME LoopRests PROVE LoopInv
  BY <1>2, LoopAssumption
  DEF LoopInv, LoopTypes, Living, Renewing, Timing, Holding, LoopRests, E!Events, E!Counters, E!Threads, E!Nobody,
      E!BoundsAssumption
<1>3. ASSUME P!Init PROVE ServerInv
  BY <1>3, ServerAssumption
  DEF ServerInv, ServerTypes, Locked, Shutting, Taken, P!Init, P!HandlersKept, P!NeverThrows, P!NothingLeft,
      P!Owner, P!Free, P!Callers, P!WorkersAssumption, P!KindsAssumption
<1>4. ASSUME ServerRests PROVE ServerInv
  BY <1>4, ServerAssumption
  DEF ServerInv, ServerTypes, Locked, Shutting, Taken, ServerRests, P!HandlersKept, P!NeverThrows, P!NothingLeft,
      P!Owner, P!Free, P!Callers, P!WorkersAssumption
<1>. QED BY <1>1, <1>2, <1>3, <1>4 DEF MCInit, IInv

\* A step of one part, or of a part proved elsewhere, leaves the others alone.
LEMMA NextKeeps ==
  ASSUME IInv, [MCNext]_<<component, vars, loopVars, serverVars, webVars>>
  PROVE  IInv'
<1>1. ASSUME UNCHANGED loopVars PROVE LoopInv'
  BY <1>1 DEF IInv, LoopInv, LoopTypes, Living, Renewing, Timing, Holding, loopVars
<1>2. ASSUME UNCHANGED serverVars PROVE ServerInv'
  BY <1>2 DEF IInv, ServerInv, ServerTypes, Locked, Shutting, Taken, serverVars,
              P!HandlersKept, P!NeverThrows, P!NothingLeft
<1>3. \/ UNCHANGED <<loopVars, serverVars>>
      \/ E!Next /\ UNCHANGED serverVars
      \/ P!Next /\ UNCHANGED loopVars
  BY DEF MCNext
<1>. QED BY <1>1, <1>2, <1>3, LoopKeeps, ServerKeeps DEF IInv

\* However callbacks, writes, timers, registration and closing interleave, no
\* event is reported or read once it is unwanted or deleted (eventmeth.cc); and
\* whoever stops a Pistache server, and whenever, no worker handles a batch
\* without its handlers or throws for want of them, and nothing is left open
\* (endpoint.cc, listener.cc, reactor.cc).
THEOREM RuntimeIsSound == MCSpec => []LoopSound
<1>1. IInv /\ [MCNext]_<<component, vars, loopVars, serverVars, webVars>> => IInv'
  BY NextKeeps
<1>2. IInv => LoopSound
  <2>1. LoopInv => E!LoopSound
    BY DEF LoopInv, LoopTypes, Living, Holding, E!LoopSound, E!TypeOK, E!ReadyInInterest, E!NoUseAfterDelete, E!Events
  <2>2. ServerInv => P!LifeSound
    BY DEF ServerInv, ServerTypes, P!LifeSound, P!TypeOK
  <2>. QED BY <2>1, <2>2 DEF IInv, LoopSound
<1>. QED BY <1>1, <1>2, InitEstablishes, PTL DEF MCSpec

-----------------------------------------------------------------------------
(* The session middleware *)

Node == [in : BOOLEAN, entries : SUBSET Values, dirty : BOOLEAN, refresh : BOOLEAN, referrers : Nat]
Entry == [there : BOOLEAN, entries : SUBSET Values, torn : BOOLEAN]
Request == [at : {"idle", "handle"}, ask : Ids \cup {None}, id : Ids \cup {None, New}]
Times == NoTime .. MaxTime + Lifetime

Shapes ==
  /\ files \in BOOLEAN /\ clock \in 0 .. MaxTime /\ uses \in 0 .. MaxUses /\ cookie \subseteq Ids
  /\ cache \in [Ids -> Node] /\ own \in [Requests -> Node] /\ req \in [Requests -> Request]
  /\ store \in [Ids -> Entry] /\ expires \in [Ids -> Times] /\ saved \in [Ids -> Times]
  /\ truth \in [Ids -> SUBSET Values]

Resting == \A r \in Requests : req[r].at = "idle" => req[r] = Idle

\* Nobody made up a session; only a crash leaves the file of one that nobody was given.
Given == \A i \in Ids : Cached(i) \/ (Stored(i) /\ ~store[i].torn) => i \in cookie

\* A session in the cache that nobody changed is what its file says; a file
\* that a crash emptied says nothing.
Clean == /\ files => \A i \in Ids :
              Cached(i) /\ ~cache[i].dirty /\ Stored(i) => store[i].entries = cache[i].entries
         /\ \A i \in Ids : store[i].torn => files /\ store[i].entries = {}

\* A session keeps its time while it is in the cache, or it would be saved
\* without one.
Timed == /\ files /\ hist \cap {"evicted", "crash"} = {} =>
              \A i \in Ids : Cached(i) \/ Stored(i) => expires[i] # NoTime
         /\ ~files => \A i \in Ids : expires[i] = NoTime

\* While nothing that the code is known for has happened, a session stays in
\* the store until it expires, even while it is in the cache.
Lasting ==
  hist \subseteq {"late"} =>
    /\ \A i \in Ids : Cached(i) => Stored(i)
    /\ \A i \in cookie : (files => expires[i] >= clock) => Stored(i)

SessionInv ==
  /\ Shapes /\ Resting /\ CacheExact /\ Given /\ NothingLost /\ Clean /\ Timed /\ Lasting

Honours == CookieHonoured /\ NotAfterExpiry

\* Users for any version of req, so that a lemma can speak of the next one.
Of(f, i) == {r \in Requests : f[r].id = i}

LEMMA UsersFinite ==
  ASSUME NEW f, NEW i
  PROVE  /\ Of(f, i) \in SUBSET Requests /\ IsFiniteSet(Of(f, i))
         /\ Cardinality(Of(f, i)) \in 0 .. Cardinality(Requests)
         /\ (Of(f, i) = {}) <=> (Cardinality(Of(f, i)) = 0)
<1>1. Of(f, i) \in SUBSET Requests
  BY DEF Of
<1>2. IsFiniteSet(Of(f, i)) /\ Cardinality(Of(f, i)) <= Cardinality(Requests)
  BY <1>1, FS_Subset, RequestsAssumption
<1>3. Cardinality(Of(f, i)) \in Nat /\ Cardinality(Requests) \in Nat
  BY <1>2, FS_CardinalityType, RequestsAssumption
<1>4. (Of(f, i) = {}) <=> (Cardinality(Of(f, i)) = 0)
  BY <1>2, FS_EmptySet
<1>. QED BY <1>1, <1>2, <1>3, <1>4

OnlyOne(r, f, g) == \A s \in Requests \ {r} : g[s].id = f[s].id

\* One request that takes a session, gives it up or stays with it.
LEMMA UsersChange ==
  ASSUME NEW f, NEW g, NEW r \in Requests, NEW i, OnlyOne(r, f, g)
  PROVE  /\ f[r].id # i /\ g[r].id = i =>
              Cardinality(Of(g, i)) = Cardinality(Of(f, i)) + 1
         /\ f[r].id = i /\ g[r].id # i =>
              Cardinality(Of(f, i)) = Cardinality(Of(g, i)) + 1
         /\ (f[r].id = i <=> g[r].id = i) => Of(g, i) = Of(f, i)
<1>1. CASE f[r].id # i /\ g[r].id = i
  <2>1. Of(g, i) = Of(f, i) \cup {r} /\ r \notin Of(f, i)
    BY <1>1 DEF Of, OnlyOne
  <2>. QED BY <1>1, <2>1, UsersFinite, FS_AddElement, ZenonT(60)
<1>2. CASE f[r].id = i /\ g[r].id # i
  <2>1. Of(f, i) = Of(g, i) \cup {r} /\ r \notin Of(g, i)
    BY <1>2 DEF Of, OnlyOne
  <2>. QED BY <1>2, <2>1, UsersFinite, FS_AddElement, ZenonT(60)
<1>3. CASE f[r].id = i <=> g[r].id = i
  BY <1>3 DEF Of, OnlyOne
<1>. QED BY <1>1, <1>2, <1>3

LEMMA Exact ==
  Shapes =>
    (CacheExact <=>
       /\ \A i \in Ids : /\ cache[i].in <=> (Cardinality(Of(req, i)) # 0)
                         /\ cache[i].referrers = Cardinality(Of(req, i))
       /\ \A r \in Requests : own[r].in <=> (req[r].id = New))
<1>1. \A i \in Ids : Users(i) = Of(req, i)
  BY DEF Users, Of
<1>2. ASSUME Shapes
      PROVE  /\ \A i \in Ids : cache[i].in \in BOOLEAN
             /\ \A r \in Requests : own[r].in \in BOOLEAN
  BY <1>2 DEF Shapes, Node
<1>. QED BY <1>1, <1>2, UsersFinite DEF CacheExact, Cached

LEMMA ExactPrimed ==
  Shapes' =>
    (CacheExact' <=>
       /\ \A i \in Ids : /\ cache'[i].in <=> (Cardinality(Of(req', i)) # 0)
                         /\ cache'[i].referrers = Cardinality(Of(req', i))
       /\ \A r \in Requests : own'[r].in <=> (req'[r].id = New))
<1>1. \A i \in Ids : Users(i)' = Of(req', i)
  BY DEF Users, Of
<1>2. ASSUME Shapes'
      PROVE  /\ \A i \in Ids : cache'[i].in \in BOOLEAN
             /\ \A r \in Requests : own'[r].in \in BOOLEAN
  BY <1>2 DEF Shapes, Node
<1>. QED BY <1>1, <1>2, UsersFinite DEF CacheExact, Cached

\* The count of a session changes with its users, by one step of one request.
LEMMA CountsFollow ==
  ASSUME SessionInv, Shapes', NEW r \in Requests,
         \A s \in Requests \ {r} : req'[s].id = req[s].id /\ own'[s].in = own[s].in,
         own'[r].in <=> (req'[r].id = New),
         \A i \in Ids :
           \/ /\ (req[r].id = i) <=> (req'[r].id = i)
              /\ cache'[i].in = cache[i].in /\ cache'[i].referrers = cache[i].referrers
           \/ /\ req[r].id # i /\ req'[r].id = i
              /\ cache'[i].in /\ cache'[i].referrers = cache[i].referrers + 1
           \/ /\ req[r].id = i /\ req'[r].id # i
              /\ cache'[i].referrers = cache[i].referrers - 1
              /\ cache'[i].in <=> (cache[i].referrers # 1)
  PROVE  CacheExact'
<1>1. /\ \A i \in Ids : /\ cache[i].in <=> (Cardinality(Of(req, i)) # 0)
                        /\ cache[i].referrers = Cardinality(Of(req, i))
      /\ \A s \in Requests : own[s].in <=> (req[s].id = New)
  BY Exact DEF SessionInv
<1>2. ASSUME NEW i \in Ids
      PROVE  /\ cache'[i].in <=> (Cardinality(Of(req', i)) # 0)
             /\ cache'[i].referrers = Cardinality(Of(req', i))
  <2>1. Cardinality(Of(req, i)) \in Nat /\ Cardinality(Of(req', i)) \in Nat
    BY UsersFinite
  <2>2. /\ req[r].id # i /\ req'[r].id = i =>
             Cardinality(Of(req', i)) = Cardinality(Of(req, i)) + 1
        /\ req[r].id = i /\ req'[r].id # i =>
             Cardinality(Of(req, i)) = Cardinality(Of(req', i)) + 1
        /\ (req[r].id = i <=> req'[r].id = i) => Of(req', i) = Of(req, i)
    <3>1. OnlyOne(r, req, req')
      BY DEF OnlyOne
    <3>. QED BY <3>1, UsersChange
  <2>. QED BY <2>1, <2>2, <1>1
<1>3. \A s \in Requests : own'[s].in <=> (req'[s].id = New)
  BY <1>1
<1>. QED BY <1>2, <1>3, ExactPrimed

LEMMA SessionInit == Init => SessionInv
<1>. SUFFICES ASSUME Init PROVE SessionInv
  OBVIOUS
<1>1. NoTime \in Times /\ 0 \in 0 .. MaxTime /\ 0 \in 0 .. MaxUses /\ NoNode \in Node
  BY BoundsAssumption DEF NoTime, Times, NoNode, Node
<1>2. Shapes
  BY <1>1, StoresAssumption DEF Init, Shapes, Idle, Request, NoSession, Absent, Entry
<1>3. \A i \in Ids : Of(req, i) = {}
  BY IdsAssumption DEF Init, Idle, Of
<1>4. CacheExact
  <2>1. Cardinality({}) = 0
    BY FS_EmptySet
  <2>. QED BY <2>1, <1>2, <1>3, Exact DEF Init, NoNode, Idle, None, New
<1>. QED
  BY <1>2, <1>4
  DEF Init, SessionInv, Resting, Given, NothingLost, Clean, Timed, Lasting, Cached, Stored, NoNode,
      NoSession, Absent

-----------------------------------------------------------------------------
\* The steps that change no session: its values, its file and its time.
SameSessions ==
  /\ UNCHANGED <<files, store, expires, saved, cookie, truth, clock, hist>>
  /\ \A i \in Ids : /\ cache'[i].in = cache[i].in /\ cache'[i].entries = cache[i].entries
                    /\ cache'[i].dirty = cache[i].dirty

LEMMA SameSessionsKeep ==
  ASSUME SessionInv, Shapes', SameSessions
  PROVE  Given' /\ NothingLost' /\ Clean' /\ Timed' /\ Lasting'
<1>1. \A i \in Ids : /\ Cached(i)' = Cached(i) /\ Stored(i)' = Stored(i)
                     /\ cache'[i].entries = cache[i].entries /\ cache'[i].dirty = cache[i].dirty
  BY DEF SameSessions, Cached, Stored
<1>2. cookie \subseteq Ids
  BY DEF SessionInv, Shapes
<1>3. Given' /\ NothingLost'
  BY <1>1, <1>2 DEF SessionInv, SameSessions, Given, NothingLost
<1>4. Clean' /\ Timed'
  BY <1>1 DEF SessionInv, SameSessions, Clean, Timed
<1>5. Lasting'
  BY <1>1, <1>2 DEF SessionInv, SameSessions, Lasting
<1>. QED BY <1>3, <1>4, <1>5

\* No request begins: one that was at rest stays so, and a running one ends or
\* has a new session.
NoneBegins ==
  \A r \in Requests : \/ req'[r] = req[r]
                      \/ req'[r] = Idle
                      \/ req[r].at = "handle" /\ req'[r] = [req[r] EXCEPT !.id = New]

LEMMA NoneBeginsKeeps ==
  ASSUME SessionInv, NoneBegins
  PROVE  Resting' /\ Honours
<1>1. /\ \A r \in Requests : req[r] \in Request /\ (req[r].at = "idle" => req[r] = Idle)
      /\ cookie \subseteq Ids
  BY DEF SessionInv, Shapes, Resting
<1>2. ASSUME NEW r \in Requests
      PROVE  /\ req'[r].at = "idle" => req'[r] = Idle
             /\ req[r].at = "idle" => req'[r].ask \notin Ids
             /\ req'[r].id \in Ids => req'[r].id = req[r].id
  <2>1. CASE req'[r] = req[r]
    BY <2>1, <1>1, IdsAssumption DEF Idle
  <2>2. CASE req'[r] = Idle
    BY <2>2, IdsAssumption DEF Idle
  <2>3. CASE req[r].at = "handle" /\ req'[r] = [req[r] EXCEPT !.id = New]
    <3>1. req'[r].at = "handle" /\ req'[r].id = New
      BY <2>3, <1>1 DEF Request
    <3>. QED BY <3>1, <2>3, IdsAssumption
  <2>. QED BY <2>1, <2>2, <2>3 DEF NoneBegins
<1>3. Honoured
  BY <1>1, <1>2 DEF Honoured
<1>. QED BY <1>2, <1>3 DEF Resting, Honours, CookieHonoured, NotAfterExpiry

-----------------------------------------------------------------------------
(* before_handle *)

LEMMA BeginShapes ==
  ASSUME SessionInv, NEW r \in Requests, NEW i \in Ids \cup {None}, NEW found \in Ids \cup {None},
         Begin(r, i, found)
  PROVE  /\ uses' \in 0 .. MaxUses /\ req' \in [Requests -> Request] /\ Resting'
         /\ req[r] = Idle /\ req'[r] = [at |-> "handle", ask |-> i, id |-> found]
         /\ \A s \in Requests \ {r} : req'[s] = req[s]
         /\ i \in Ids => i \in cookie
<1>1. /\ req \in [Requests -> Request] /\ uses \in 0 .. MaxUses /\ uses < MaxUses
      /\ uses' = uses + 1 /\ req[r] = Idle
      /\ req' = [req EXCEPT ![r] = [at |-> "handle", ask |-> i, id |-> found]]
  BY DEF Begin, SessionInv, Shapes, Resting
<1>2. uses' \in 0 .. MaxUses
  BY <1>1, BoundsAssumption
<1>3. /\ req'[r] = [at |-> "handle", ask |-> i, id |-> found] /\ req' \in [Requests -> Request]
      /\ \A s \in Requests \ {r} : req'[s] = req[s]
  BY <1>1 DEF Request
<1>4. Resting'
  BY <1>3 DEF SessionInv, Resting
<1>5. i \in Ids => i \in cookie
  BY IdsAssumption DEF Begin
<1>. QED BY <1>1, <1>2, <1>3, <1>4, <1>5

LEMMA BeforeWithoutKeeps ==
  ASSUME SessionInv, UNCHANGED files, NEW r \in Requests, NEW i \in Ids \cup {None}, BeforeWithout(r, i)
  PROVE  SessionInv' /\ Honours
<1>1. /\ uses' \in 0 .. MaxUses /\ req' \in [Requests -> Request] /\ Resting'
      /\ req[r] = Idle /\ req'[r] = [at |-> "handle", ask |-> i, id |-> None]
      /\ \A s \in Requests \ {r} : req'[s] = req[s]
      /\ i \in Ids => i \in cookie /\ ~Cached(i) /\ ~Stored(i)
  BY BeginShapes, IdsAssumption DEF BeforeWithout
<1>2. UNCHANGED <<files, cache, own, store, expires, saved, cookie, truth, clock, hist>>
  BY DEF BeforeWithout
<1>3. Shapes'
  BY <1>1, <1>2 DEF SessionInv, Shapes
<1>4. CacheExact'
  <2>1. /\ \A s \in Requests : req'[s].id = req[s].id
        /\ own[r].in <=> (req[r].id = New)
    BY <1>1, Exact DEF SessionInv, Idle
  <2>. QED BY <2>1, <1>2, <1>3, CountsFollow
<1>5. Given' /\ NothingLost' /\ Clean' /\ Timed' /\ Lasting'
  BY <1>2, <1>3, SameSessionsKeep DEF SameSessions
<1>6. NotAfterExpiry
  BY <1>1, IdsAssumption DEF NotAfterExpiry
<1>7. CookieHonoured
  <2>1. ASSUME hist' \subseteq {"late"}, NEW s \in Requests, NEW j \in cookie, req[s].at = "idle",
               req'[s].ask = j, files => expires[j] >= clock
        PROVE  req'[s].id = j
    <3>1. j \in Ids /\ Stored(j)
      BY <2>1, <1>2 DEF SessionInv, Shapes, Lasting
    <3>2. s = r
      <4>1. s # r => req'[s].ask = None
        BY <2>1, <1>1 DEF SessionInv, Resting, Idle
      <4>. QED BY <4>1, <3>1, <2>1, IdsAssumption
    <3>. QED BY <3>1, <3>2, <2>1, <1>1
  <2>. QED BY <2>1 DEF CookieHonoured, Honoured
<1>. QED BY <1>1, <1>3, <1>4, <1>5, <1>6, <1>7 DEF SessionInv, Honours

LEMMA BeforeCachedKeeps ==
  ASSUME SessionInv, UNCHANGED files, NEW r \in Requests, NEW i \in Ids, BeforeCached(r, i)
  PROVE  SessionInv' /\ Honours
<1>1. /\ uses' \in 0 .. MaxUses /\ req' \in [Requests -> Request] /\ Resting'
      /\ req[r] = Idle /\ req'[r] = [at |-> "handle", ask |-> i, id |-> i]
      /\ \A s \in Requests \ {r} : req'[s] = req[s]
      /\ i \in cookie /\ Cached(i)
  BY BeginShapes DEF BeforeCached
<1>2. /\ UNCHANGED <<files, own, store, expires, saved, cookie, truth, clock, hist>>
      /\ cache \in [Ids -> Node]
      /\ cache' = [cache EXCEPT ![i].referrers = @ + 1]
  BY DEF BeforeCached, SessionInv, Shapes
<1>3. /\ \A j \in Ids : /\ cache'[j].in = cache[j].in /\ cache'[j].entries = cache[j].entries
                        /\ cache'[j].dirty = cache[j].dirty
      /\ cache'[i].referrers = cache[i].referrers + 1
      /\ \A j \in Ids \ {i} : cache'[j] = cache[j]
      /\ cache' \in [Ids -> Node]
  BY <1>2 DEF Node
<1>4. Shapes'
  BY <1>1, <1>2, <1>3 DEF SessionInv, Shapes
<1>5. CacheExact'
  <2>1. own[r].in <=> (req[r].id = New)
    BY Exact DEF SessionInv
  <2>2. /\ req[r].id = None /\ req'[r].id = i /\ i # New
        /\ \A s \in Requests \ {r} : req'[s].id = req[s].id
    BY <1>1, IdsAssumption DEF Idle
  <2>. QED BY <2>1, <2>2, <1>1, <1>2, <1>3, <1>4, IdsAssumption, CountsFollow DEF Cached, None, New
<1>6. Given' /\ NothingLost' /\ Clean' /\ Timed' /\ Lasting'
  BY <1>2, <1>3, <1>4, SameSessionsKeep DEF SameSessions
<1>7. NotAfterExpiry
  BY <1>1 DEF NotAfterExpiry
<1>8. Honoured
  BY <1>1, IdsAssumption DEF SessionInv, Resting, Idle, Honoured, Shapes
<1>. QED BY <1>1, <1>4, <1>5, <1>6, <1>7, <1>8 DEF SessionInv, Honours, CookieHonoured

\* load gives the values that are stored, and deletes what expired: of the
\* sessions in use only together with "evicted".
LEMMA BeforeLoadKeeps ==
  ASSUME SessionInv, UNCHANGED files, NEW r \in Requests, NEW i \in Ids, NEW S \in SUBSET Ids,
         BeforeLoad(r, i, S)
  PROVE  SessionInv' /\ Honours
<1>. DEFINE found == IF Unreadable(i, S) THEN None ELSE i
            node == [NoNode EXCEPT !.in = TRUE, !.entries = store[i].entries, !.referrers = 1]
<1>1. Begin(r, i, found)
  BY DEF BeforeLoad
<1>2. /\ uses' \in 0 .. MaxUses /\ req' \in [Requests -> Request] /\ Resting'
      /\ req[r] = Idle /\ req'[r] = [at |-> "handle", ask |-> i, id |-> found]
      /\ \A s \in Requests \ {r} : req'[s] = req[s]
      /\ i \in cookie
  BY <1>1, BeginShapes
<1>3. /\ UNCHANGED <<files, own, saved, cookie, truth, clock>>
      /\ cache \in [Ids -> Node] /\ store \in [Ids -> Entry] /\ expires \in [Ids -> Times]
      /\ ~Cached(i) /\ Stored(i) /\ HandleExpired(i, S)
      /\ cache' = IF Unreadable(i, S) THEN cache ELSE [cache EXCEPT ![i] = node]
      /\ hist \subseteq hist'
      /\ (\E j \in S : Cached(j)) => "evicted" \in hist'
      /\ i \notin S /\ Cardinality(Expired(expires)) > Evictions => "late" \in hist'
      /\ files /\ store[i].entries = {} => "null" \in hist'
  BY DEF BeforeLoad, SessionInv, Shapes
<1>4. /\ node \in Node /\ node.in /\ node.entries = store[i].entries /\ ~node.dirty
      /\ node.referrers = 1
  BY <1>3 DEF NoNode, Node, Entry
<1>. HIDE DEF node
<1>5. /\ \A j \in Ids \ {i} : cache'[j] = cache[j]
      /\ Unreadable(i, S) => cache'[i] = cache[i]
      /\ ~Unreadable(i, S) => cache'[i] = node
      /\ cache' \in [Ids -> Node]
  BY <1>3, <1>4
<1>6. /\ store' \in [Ids -> Entry] /\ expires' \in [Ids -> Times]
      /\ S # {} => files
      /\ files => \A j \in Ids : /\ j \in S => ~Stored(j)' /\ expires'[j] = NoTime
                                 /\ j \notin S => store'[j] = store[j] /\ expires'[j] = expires[j]
      /\ ~files => /\ \A j \in Ids : Stored(j)' = Stored(j) /\ expires'[j] = expires[j]
                   /\ \A j \in Ids \ {i} : store'[j] = store[j]
                   /\ store'[i].torn = store[i].torn
                   /\ ~Unreadable(i, S)
  <2>1. NoTime \in Times
    BY BoundsAssumption DEF NoTime, Times
  <2>2. CASE files
    <3>1. /\ store' = [j \in Ids |-> IF j \in S THEN Absent ELSE store[j]]
          /\ expires' = [j \in Ids |-> IF j \in S THEN NoTime ELSE expires[j]]
      BY <2>2, <1>3 DEF HandleExpired
    <3>2. Absent \in Entry /\ ~Absent.there
      BY DEF Absent, Entry
    <3>. QED BY <3>1, <3>2, <2>1, <2>2, <1>3 DEF Stored
  <2>3. CASE ~files
    BY <2>3, <1>3 DEF HandleExpired, Entry, Stored, Unreadable
  <2>. QED BY <2>2, <2>3
<1>7. Shapes'
  BY <1>2, <1>3, <1>5, <1>6 DEF SessionInv, Shapes
<1>8. CacheExact'
  <2>1. own[r].in <=> (req[r].id = New)
    BY Exact DEF SessionInv
  <2>2. /\ req[r].id = None /\ req'[r].id = found /\ found # New /\ i # None
        /\ \A s \in Requests \ {r} : req'[s].id = req[s].id
    BY <1>2, IdsAssumption DEF Idle, None, New
  <2>3. cache[i].referrers = 0
    BY <1>3, Exact DEF SessionInv, Cached
  <2>4. ASSUME NEW j \in Ids
        PROVE  \/ /\ (req[r].id = j) <=> (req'[r].id = j)
                  /\ cache'[j].in = cache[j].in /\ cache'[j].referrers = cache[j].referrers
               \/ /\ req[r].id # j /\ req'[r].id = j
                  /\ cache'[j].in /\ cache'[j].referrers = cache[j].referrers + 1
    BY <2>2, <2>3, <1>4, <1>5, IdsAssumption
  <2>. QED BY <2>1, <2>2, <2>4, <1>2, <1>3, <1>7, CountsFollow DEF None, New
<1>9. /\ \A j \in Ids : Cached(j)' => Cached(j) \/ (j = i /\ ~Unreadable(i, S))
      /\ \A j \in Ids : Stored(j)' => Stored(j) /\ j \notin S
      /\ \A j \in Ids : Cached(j) => j # i /\ Cached(j)' /\ cache'[j] = cache[j]
  <2>1. \A j \in Ids : Stored(j)' => Stored(j) /\ j \notin S
    BY <1>6 DEF Stored
  <2>. QED BY <2>1, <1>3, <1>5 DEF Cached
<1>10. Given'
  <2>1. ASSUME NEW j \in Ids, Stored(j)', ~store'[j].torn, j # i PROVE Stored(j) /\ ~store[j].torn
    BY <2>1, <1>6, <1>9
  <2>. QED BY <2>1, <1>2, <1>3, <1>9 DEF SessionInv, Given
<1>11. ~Unreadable(i, S) => store[i].entries = truth[i]
  BY <1>2, <1>3 DEF SessionInv, NothingLost, Clean, Unreadable
<1>12. NothingLost'
  <2>1. ASSUME NEW j \in cookie, Cached(j)'
        PROVE  cache'[j].entries = truth[j]
    <3>1. j \in Ids
      BY DEF SessionInv, Shapes
    <3>. QED BY <3>1, <2>1, <1>4, <1>5, <1>9, <1>11 DEF SessionInv, NothingLost
  <2>2. ASSUME NEW j \in cookie, ~Cached(j)', Stored(j)', ~store'[j].torn
        PROVE  store'[j].entries = truth[j]
    <3>1. j \in Ids
      BY DEF SessionInv, Shapes
    <3>2. store'[j] = store[j]
      BY <3>1, <2>2, <1>4, <1>5, <1>6 DEF Cached
    <3>. QED BY <3>1, <3>2, <2>2, <1>9 DEF SessionInv, NothingLost
  <2>. QED BY <2>1, <2>2, <1>3 DEF NothingLost
<1>13. Clean'
  <2>1. ASSUME files, NEW j \in Ids, Cached(j)', ~cache'[j].dirty, Stored(j)'
        PROVE  store'[j].entries = cache'[j].entries
    <3>1. store'[j] = store[j]
      BY <2>1, <1>6, <1>9
    <3>. QED BY <3>1, <2>1, <1>4, <1>5, <1>9 DEF SessionInv, Clean
  <2>2. ASSUME NEW j \in Ids, store'[j].torn PROVE files /\ store'[j].entries = {}
    <3>1. \A k \in Ids : store[k].torn => files /\ store[k].entries = {}
      BY DEF SessionInv, Clean
    <3>2. CASE files /\ j \notin S
      BY <3>1, <3>2, <2>2, <1>6
    <3>3. CASE files /\ j \in S
      BY <3>3, <2>2, <1>3 DEF HandleExpired, Absent
    <3>4. CASE ~files
      BY <3>1, <3>4, <2>2, <1>6
    <3>. QED BY <3>2, <3>3, <3>4
  <2>. QED BY <2>1, <2>2, <1>3 DEF Clean
<1>14. Timed'
  <2>1. ASSUME files, hist' \cap {"evicted", "crash"} = {}, NEW j \in Ids, Cached(j)' \/ Stored(j)'
        PROVE  expires'[j] # NoTime
    <3>1. hist \cap {"evicted", "crash"} = {} /\ ~\E k \in S : Cached(k)
      BY <2>1, <1>3
    <3>2. j \notin S
      BY <3>1, <2>1, <1>9 DEF Unreadable
    <3>3. Cached(j) \/ Stored(j)
      BY <2>1, <1>3, <1>9
    <3>. QED BY <3>1, <3>2, <3>3, <2>1, <1>6 DEF SessionInv, Timed
  <2>2. ~files => \A j \in Ids : expires'[j] = NoTime
    BY <1>6 DEF SessionInv, Timed
  <2>. QED BY <2>1, <2>2, <1>3 DEF Timed
<1>15. Lasting'
  <2>1. ASSUME hist' \subseteq {"late"} PROVE hist \subseteq {"late"} /\ ~\E k \in S : Cached(k)
    BY <2>1, <1>3
  <2>2. ASSUME hist' \subseteq {"late"}, NEW j \in Ids, Cached(j)' PROVE Stored(j)'
    <3>1. j \notin S
      BY <2>1, <2>2, <1>6, <1>9 DEF Unreadable
    <3>2. Stored(j)
      BY <2>1, <2>2, <1>3, <1>9 DEF SessionInv, Lasting
    <3>. QED BY <3>1, <3>2, <1>6 DEF Stored
  <2>3. ASSUME hist' \subseteq {"late"}, NEW j \in cookie, files => expires'[j] >= clock
        PROVE  Stored(j)'
    <3>1. j \in Ids /\ clock >= 0
      BY DEF SessionInv, Shapes
    <3>2. files => j \notin S /\ expires'[j] = expires[j]
      BY <3>1, <2>3, <1>6 DEF NoTime, SessionInv, Shapes
    <3>3. Stored(j)
      BY <3>1, <3>2, <2>1, <2>3 DEF SessionInv, Lasting
    <3>. QED BY <3>1, <3>2, <3>3, <1>6 DEF Stored
  <2>. QED BY <2>2, <2>3, <1>3 DEF Lasting
\* What is left of Expired when fewer than Evictions expired is nothing.
<1>16. i \in Expired(expires) /\ i \notin S /\ files => "late" \in hist'
  <2>1. ASSUME i \in Expired(expires), i \notin S, files, ~(Cardinality(Expired(expires)) > Evictions)
        PROVE  FALSE
    <3>1. /\ IsFiniteSet(Expired(expires)) /\ Cardinality(Expired(expires)) \in Nat
          /\ S \in SUBSET Expired(expires)
      <4>1. Expired(expires) \in SUBSET Ids
        BY DEF Expired
      <4>2. IsFiniteSet(Expired(expires))
        BY <4>1, FS_Subset, IdsAssumption
      <4>. QED BY <4>2, FS_CardinalityType, <2>1, <1>3 DEF HandleExpired, Evicted
    <3>2. Cardinality(S) = Cardinality(Expired(expires))
      BY <3>1, <2>1, <1>3, BoundsAssumption DEF HandleExpired, Evicted
    <3>3. Expired(expires) = S
      BY <3>1, <3>2, FS_Subset
    <3>. QED BY <3>3, <2>1
  <2>. QED BY <2>1, <1>3
<1>17. NotAfterExpiry
  <2>1. ASSUME hist' \cap {"late"} = {}, NEW s \in Requests, NEW j \in Ids, req[s].id # j,
               req'[s].id = j, ~Cached(j)
        PROVE  expires[j] = NoTime \/ clock <= expires[j]
    <3>1. j = i /\ ~Unreadable(i, S)
      BY <2>1, <1>2, IdsAssumption
    <3>2. CASE ~files
      BY <3>2 DEF SessionInv, Timed
    <3>3. CASE files
      <4>1. i \notin S
        BY <3>1, <3>3 DEF Unreadable
      <4>2. i \notin Expired(expires)
        BY <4>1, <3>3, <2>1, <1>16
      <4>3. expires[i] \in Int /\ clock \in Int
        BY <1>3, BoundsAssumption DEF Times, NoTime, SessionInv, Shapes
      <4>. QED BY <4>2, <4>3, <3>1 DEF Expired
    <3>. QED BY <3>2, <3>3
  <2>. QED BY <2>1 DEF NotAfterExpiry
<1>18. CookieHonoured
  <2>1. ASSUME hist' \subseteq {"late"}, NEW s \in Requests, NEW j \in cookie, req[s].at = "idle",
               req'[s].ask = j, files => expires[j] >= clock
        PROVE  req'[s].id = j
    <3>1. s = r /\ j = i
      BY <2>1, <1>2, IdsAssumption DEF SessionInv, Resting, Idle, Shapes
    <3>2. ~Unreadable(i, S)
      <4>1. files => store[i].entries # {}
        BY <2>1, <1>3
      <4>2. files => i \notin S
        <5>1. expires[i] \in Int /\ clock \in Int
          BY <1>3, BoundsAssumption DEF Times, NoTime, SessionInv, Shapes
        <5>. QED BY <5>1, <3>1, <2>1, <1>3 DEF HandleExpired, Evicted, Expired
      <4>. QED BY <4>1, <4>2 DEF Unreadable
    <3>. QED BY <3>1, <3>2, <1>2
  <2>. QED BY <2>1 DEF CookieHonoured, Honoured
<1>. QED
  BY <1>2, <1>7, <1>8, <1>10, <1>12, <1>13, <1>14, <1>15, <1>17, <1>18 DEF SessionInv, Honours

-----------------------------------------------------------------------------
(* The handler *)

\* set and remove change what is in the cache and what should be there.
LEMMA ValueKeeps ==
  ASSUME SessionInv, NEW i \in Ids, NEW w \in SUBSET Values, Cached(i),
         cache' = [cache EXCEPT ![i].entries = w, ![i].dirty = TRUE],
         truth' = [truth EXCEPT ![i] = w],
         UNCHANGED <<files, own, req, store, expires, saved, cookie, clock, uses, stops, hist>>
  PROVE  SessionInv' /\ Honours
<1>1. /\ cache \in [Ids -> Node] /\ truth \in [Ids -> SUBSET Values] /\ cookie \subseteq Ids
  BY DEF SessionInv, Shapes
<1>2. /\ cache'[i].entries = w /\ cache'[i].dirty
      /\ \A j \in Ids : /\ cache'[j].in = cache[j].in /\ cache'[j].referrers = cache[j].referrers
                        /\ Cached(j)' = Cached(j) /\ Stored(j)' = Stored(j)
      /\ \A j \in Ids \ {i} : cache'[j] = cache[j] /\ truth'[j] = truth[j]
      /\ truth'[i] = w
      /\ cache' \in [Ids -> Node] /\ truth' \in [Ids -> SUBSET Values]
  <2>1. [cache[i] EXCEPT !.entries = w, !.dirty = TRUE] \in Node
    BY <1>1 DEF Node
  <2>2. /\ cache'[i] = [cache[i] EXCEPT !.entries = w, !.dirty = TRUE]
        /\ \A j \in Ids \ {i} : cache'[j] = cache[j]
        /\ cache' \in [Ids -> Node]
    BY <2>1, <1>1
  <2>3. /\ cache'[i].entries = w /\ cache'[i].dirty
        /\ cache'[i].in = cache[i].in /\ cache'[i].referrers = cache[i].referrers
    BY <2>2, <1>1 DEF Node
  <2>. QED BY <2>2, <2>3, <1>1 DEF Cached, Stored
<1>3. Shapes'
  BY <1>2 DEF SessionInv, Shapes
<1>4. CacheExact'
  BY <1>2, <1>3, Exact, ExactPrimed DEF SessionInv
<1>5. Given' /\ NothingLost'
  BY <1>1, <1>2 DEF SessionInv, Given, NothingLost
<1>6. Clean' /\ Timed'
  BY <1>2 DEF SessionInv, Clean, Timed
<1>7. Lasting'
  BY <1>1, <1>2 DEF SessionInv, Lasting
<1>8. Resting' /\ Honours
  BY NoneBeginsKeeps DEF NoneBegins
<1>. QED BY <1>3, <1>4, <1>5, <1>6, <1>7, <1>8 DEF SessionInv

\* The session of a running request is in the cache.
LEMMA UsedIsCached ==
  ASSUME SessionInv, NEW r \in Requests, req[r].id \in Ids
  PROVE  Cached(req[r].id) /\ cache[req[r].id].referrers \in Nat \ {0}
<1>1. r \in Of(req, req[r].id)
  BY DEF Of
<1>2. Cardinality(Of(req, req[r].id)) # 0 /\ Cardinality(Of(req, req[r].id)) \in Nat
  BY <1>1, UsersFinite
<1>. QED BY <1>2, Exact DEF SessionInv, Cached

\* A request without a session is given one of its own.
LEMMA OwnSessionKeeps ==
  ASSUME SessionInv, NEW r \in Requests, NEW node \in Node, node.in, InHandler(r), req[r].id \notin Ids,
         own' = [own EXCEPT ![r] = node], req' = [req EXCEPT ![r].id = New],
         UNCHANGED <<files, cache, store, expires, saved, cookie, truth, clock, uses, stops, hist>>
  PROVE  SessionInv' /\ Honours
<1>1. req \in [Requests -> Request] /\ own \in [Requests -> Node]
  BY DEF SessionInv, Shapes
<1>2. /\ req'[r].id = New /\ req'[r] = [req[r] EXCEPT !.id = New]
      /\ \A s \in Requests \ {r} : req'[s] = req[s] /\ own'[s] = own[s]
      /\ own'[r] = node
      /\ req' \in [Requests -> Request] /\ own' \in [Requests -> Node]
  BY <1>1 DEF Request
<1>3. Shapes'
  BY <1>2 DEF SessionInv, Shapes
<1>4. CacheExact'
  <2>1. New \notin Ids
    BY IdsAssumption
  <2>. QED BY <2>1, <1>2, <1>3, CountsFollow
<1>5. Resting' /\ Honours
  BY <1>2, NoneBeginsKeeps DEF NoneBegins, InHandler
<1>6. Given' /\ NothingLost' /\ Clean' /\ Timed' /\ Lasting'
  BY <1>3, SameSessionsKeep DEF SameSessions
<1>. QED BY <1>3, <1>4, <1>5, <1>6 DEF SessionInv

LEMMA HandlerKeeps ==
  ASSUME SessionInv, UNCHANGED files, NEW r \in Requests,
         \/ \E v \in Values : SetValue(r, v)
         \/ TakeMutex(r) \/ Remove(r) \/ RefreshExpiration(r)
  PROVE  SessionInv' /\ Honours
<1>1. req \in [Requests -> Request] /\ own \in [Requests -> Node] /\ cache \in [Ids -> Node]
  BY DEF SessionInv, Shapes
<1>2. ASSUME NEW v \in Values, SetValue(r, v) PROVE SessionInv' /\ Honours
  <2>1. {v} \in SUBSET Values
    OBVIOUS
  <2>2. CASE req[r].id \in Ids
    <3>1. Cached(req[r].id)
      BY <2>2, UsedIsCached
    <3>. QED BY <3>1, <2>1, <2>2, <1>2, ValueKeeps DEF SetValue
  <2>3. CASE req[r].id \notin Ids
    <3>. DEFINE node == [own[r] EXCEPT !.in = TRUE, !.entries = {v}, !.dirty = TRUE]
    <3>1. node \in Node /\ node.in
      BY <2>1, <1>1 DEF Node
    <3>2. /\ own' = [own EXCEPT ![r] = node] /\ req' = [req EXCEPT ![r].id = New]
          /\ InHandler(r)
          /\ UNCHANGED <<cache, store, expires, saved, cookie, truth, clock, uses, stops, hist>>
      BY <2>3, <1>2 DEF SetValue
    <3>. HIDE DEF node
    <3>. QED BY <3>1, <3>2, <2>3, OwnSessionKeeps
  <2>. QED BY <2>2, <2>3
<1>3. ASSUME TakeMutex(r) PROVE SessionInv' /\ Honours
  <2>. DEFINE node == [own[r] EXCEPT !.in = TRUE]
  <2>1. node \in Node /\ node.in
    BY <1>1 DEF Node
  <2>2. /\ own' = [own EXCEPT ![r] = node] /\ req' = [req EXCEPT ![r].id = New]
        /\ InHandler(r) /\ req[r].id = None
        /\ UNCHANGED <<cache, store, expires, saved, cookie, truth, clock, uses, stops, hist>>
    BY <1>3 DEF TakeMutex
  <2>. HIDE DEF node
  <2>. QED BY <2>1, <2>2, IdsAssumption, OwnSessionKeeps
<1>4. ASSUME Remove(r) PROVE SessionInv' /\ Honours
  <2>1. {} \in SUBSET Values
    OBVIOUS
  <2>2. CASE req[r].id \in Ids
    <3>1. Cached(req[r].id) /\ req[r].id # New
      BY <2>2, UsedIsCached, IdsAssumption
    <3>. QED BY <3>1, <2>1, <2>2, <1>4, ValueKeeps DEF Remove
  <2>3. CASE req[r].id \notin Ids
    <3>. DEFINE node == [own[r] EXCEPT !.entries = {}, !.dirty = TRUE]
    <3>1. /\ req[r].id = New /\ InHandler(r) /\ own' = [own EXCEPT ![r] = node]
          /\ UNCHANGED <<req, cache, store, expires, saved, cookie, truth, clock, uses, stops, hist>>
      BY <2>3, <1>4, <1>1 DEF Remove
    <3>2. own[r].in
      BY <3>1, Exact DEF SessionInv
    <3>3. node \in Node /\ node.in
      BY <3>2, <2>1, <1>1 DEF Node
    <3>4. req' = [req EXCEPT ![r].id = New]
      BY <3>1, <1>1 DEF Request
    <3>. HIDE DEF node
    <3>. QED BY <3>1, <3>3, <3>4, <2>3, OwnSessionKeeps
  <2>. QED BY <2>2, <2>3
<1>5. ASSUME RefreshExpiration(r) PROVE SessionInv' /\ Honours
  <2>1. /\ req[r].id \in Ids /\ cache' = [cache EXCEPT ![req[r].id].refresh = TRUE]
        /\ UNCHANGED <<files, own, req, store, expires, saved, cookie, truth, clock, uses, hist>>
    BY <1>5 DEF RefreshExpiration
  <2>2. /\ \A j \in Ids : /\ cache'[j].in = cache[j].in /\ cache'[j].entries = cache[j].entries
                          /\ cache'[j].dirty = cache[j].dirty
                          /\ cache'[j].referrers = cache[j].referrers
        /\ cache' \in [Ids -> Node]
    BY <1>1, <2>1 DEF Node
  <2>3. Shapes'
    BY <2>1, <2>2 DEF SessionInv, Shapes
  <2>4. CacheExact'
    BY <2>1, <2>2, <2>3, Exact, ExactPrimed DEF SessionInv
  <2>5. Resting' /\ Honours
    BY <2>1, NoneBeginsKeeps DEF NoneBegins
  <2>6. Given' /\ NothingLost' /\ Clean' /\ Timed' /\ Lasting'
    BY <2>1, <2>2, <2>3, SameSessionsKeep DEF SameSessions
  <2>. QED BY <2>3, <2>4, <2>5, <2>6 DEF SessionInv
<1>. QED BY <1>2, <1>3, <1>4, <1>5

-----------------------------------------------------------------------------
(* after_handle *)

LEMMA EndShapes ==
  ASSUME SessionInv, NEW r \in Requests, End(r)
  PROVE  /\ req' \in [Requests -> Request] /\ req'[r] = Idle /\ req'[r].id = None
         /\ \A s \in Requests \ {r} : req'[s] = req[s]
         /\ Resting' /\ Honours
<1>1. Idle \in Request
  BY DEF Idle, Request
<1>2. req \in [Requests -> Request] /\ req' = [req EXCEPT ![r] = Idle]
  BY DEF SessionInv, Shapes, End
<1>3. /\ req' \in [Requests -> Request] /\ req'[r] = Idle
      /\ \A s \in Requests \ {r} : req'[s] = req[s]
  BY <1>1, <1>2
<1>4. Resting' /\ Honours
  BY <1>3, NoneBeginsKeeps DEF NoneBegins
<1>. QED BY <1>3, <1>4 DEF Idle

LEMMA AfterWithoutKeeps ==
  ASSUME SessionInv, UNCHANGED files, NEW r \in Requests, AfterWithout(r)
  PROVE  SessionInv' /\ Honours
<1>1. /\ req' \in [Requests -> Request] /\ req'[r].id = None
      /\ \A s \in Requests \ {r} : req'[s] = req[s]
      /\ Resting' /\ Honours
      /\ UNCHANGED <<files, cache, own, store, expires, saved, cookie, truth, clock, uses, hist>>
      /\ req[r].id = None
  BY EndShapes DEF AfterWithout
<1>2. Shapes'
  BY <1>1 DEF SessionInv, Shapes
<1>3. CacheExact'
  <2>1. own[r].in <=> (req[r].id = New)
    BY Exact DEF SessionInv
  <2>. QED BY <2>1, <1>1, <1>2, CountsFollow
<1>4. Given' /\ NothingLost' /\ Clean' /\ Timed' /\ Lasting'
  BY <1>1, <1>2, SameSessionsKeep DEF SameSessions
<1>. QED BY <1>1, <1>2, <1>3, <1>4 DEF SessionInv

LEMMA AfterSharedKeeps ==
  ASSUME SessionInv, UNCHANGED files, NEW r \in Requests, AfterShared(r)
  PROVE  SessionInv' /\ Honours
<1>. DEFINE i == req[r].id
<1>1. /\ req' \in [Requests -> Request] /\ req'[r].id = None
      /\ \A s \in Requests \ {r} : req'[s] = req[s]
      /\ Resting' /\ Honours
      /\ UNCHANGED <<files, own, store, expires, saved, cookie, truth, clock, uses, hist>>
      /\ i \in Ids /\ cache[i].referrers > 1 /\ cache' = [cache EXCEPT ![i].referrers = @ - 1]
  BY EndShapes DEF AfterShared
<1>2. cache \in [Ids -> Node] /\ Cached(i) /\ cache[i].referrers - 1 \in Nat
  BY <1>1, UsedIsCached DEF SessionInv, Shapes
<1>3. /\ \A j \in Ids : /\ cache'[j].in = cache[j].in /\ cache'[j].entries = cache[j].entries
                        /\ cache'[j].dirty = cache[j].dirty
      /\ cache'[i].referrers = cache[i].referrers - 1
      /\ \A j \in Ids \ {i} : cache'[j] = cache[j]
      /\ cache' \in [Ids -> Node]
  BY <1>1, <1>2 DEF Node
<1>4. Shapes'
  BY <1>1, <1>3 DEF SessionInv, Shapes
<1>5. CacheExact'
  <2>1. own[r].in <=> (req[r].id = New)
    BY Exact DEF SessionInv
  <2>2. i # None /\ i # New /\ None # New /\ \A j \in Ids : j # None
    BY <1>1, IdsAssumption DEF None, New
  <2>. QED BY <2>1, <2>2, <1>1, <1>2, <1>3, <1>4, CountsFollow, SMTT(60) DEF Cached
<1>6. Given' /\ NothingLost' /\ Clean' /\ Timed' /\ Lasting'
  BY <1>1, <1>3, <1>4, SameSessionsKeep DEF SameSessions
<1>. QED BY <1>1, <1>4, <1>5, <1>6 DEF SessionInv

\* save: the file and its time after it.
LEMMA SaveWrites ==
  ASSUME SessionInv, NEW i \in Ids, NEW n \in Node, Save(i, n)
  PROVE  /\ store' \in [Ids -> Entry] /\ expires' \in [Ids -> Times]
         /\ \A j \in Ids \ {i} : store'[j] = store[j] /\ expires'[j] = expires[j]
         /\ expires'[i] = IF files /\ n.refresh THEN clock + Lifetime ELSE expires[i]
         /\ clock + Lifetime # NoTime
         /\ n.dirty \/ ~files => store'[i].there /\ store'[i].entries = n.entries /\ ~store'[i].torn
         /\ ~(n.dirty \/ ~files) => store'[i] = store[i]
<1>1. store \in [Ids -> Entry] /\ expires \in [Ids -> Times] /\ clock \in 0 .. MaxTime
  BY DEF SessionInv, Shapes
<1>2. clock + Lifetime \in Times /\ clock + Lifetime # NoTime
  BY <1>1, BoundsAssumption DEF Times, NoTime
<1>3. [there |-> TRUE, entries |-> n.entries, torn |-> FALSE] \in Entry
  BY DEF Node, Entry
<1>4. /\ expires' = [expires EXCEPT ![i] = IF files /\ n.refresh THEN clock + Lifetime ELSE @]
      /\ store' = [store EXCEPT ![i] = IF n.dirty \/ ~files THEN [there |-> TRUE, entries |-> n.entries, torn |-> FALSE] ELSE @]
  BY DEF Save
<1>. QED BY <1>1, <1>2, <1>3, <1>4

LEMMA AfterLastKeeps ==
  ASSUME SessionInv, UNCHANGED files, NEW r \in Requests, AfterLast(r)
  PROVE  SessionInv' /\ Honours
<1>0. PICK i \in Ids : req[r].id = i
  BY DEF AfterLast
<1>. DEFINE written == cache[i].dirty \/ ~files
<1>1. /\ req' \in [Requests -> Request] /\ req'[r].id = None
      /\ \A s \in Requests \ {r} : req'[s] = req[s]
      /\ Resting' /\ Honours
      /\ UNCHANGED <<files, own, saved, cookie, truth, clock, uses, hist>>
      /\ cache[i].referrers <= 1 /\ cache' = [cache EXCEPT ![i] = NoNode]
      /\ Save(i, cache[i])
  BY <1>0, EndShapes DEF AfterLast
<1>2. cache \in [Ids -> Node] /\ Cached(i) /\ cache[i].referrers = 1 /\ i \in cookie
  <2>1. cache \in [Ids -> Node] /\ \A j \in Ids : Cached(j) => j \in cookie
    BY DEF SessionInv, Shapes, Given
  <2>2. Cached(i) /\ cache[i].referrers \in Nat \ {0}
    BY <1>0, UsedIsCached
  <2>. QED BY <1>1, <2>1, <2>2
<1>3. /\ store' \in [Ids -> Entry] /\ expires' \in [Ids -> Times]
      /\ \A j \in Ids \ {i} : store'[j] = store[j] /\ expires'[j] = expires[j]
      /\ (expires'[i] = clock + Lifetime /\ files) \/ expires'[i] = expires[i]
      /\ clock + Lifetime # NoTime
      /\ written => store'[i].there /\ store'[i].entries = cache[i].entries /\ ~store'[i].torn
      /\ ~written => store'[i] = store[i]
  BY <1>1, <1>2, SaveWrites
<1>4. /\ ~cache'[i].in /\ cache'[i].referrers = 0
      /\ \A j \in Ids \ {i} : cache'[j] = cache[j]
      /\ cache' \in [Ids -> Node]
  <2>1. NoNode \in Node /\ ~NoNode.in /\ NoNode.referrers = 0
    BY DEF NoNode, Node
  <2>. QED BY <2>1, <1>1, <1>2
<1>5. Shapes'
  BY <1>1, <1>3, <1>4 DEF SessionInv, Shapes
<1>6. CacheExact'
  <2>1. own[r].in <=> (req[r].id = New)
    BY Exact DEF SessionInv
  <2>2. req[r].id = i /\ i # None /\ i # New /\ None # New /\ \A j \in Ids : j # None
    BY <1>0, IdsAssumption DEF None, New
  <2>. QED BY <2>1, <2>2, <1>1, <1>2, <1>4, <1>5, CountsFollow
<1>7. Given'
  BY <1>1, <1>2, <1>3, <1>4 DEF SessionInv, Given, Cached, Stored
<1>8. NothingLost'
  <2>1. cache[i].entries = truth[i]
    BY <1>2 DEF SessionInv, NothingLost
  <2>2. Stored(i)' => store'[i].entries = truth[i]
    <3>1. CASE written
      BY <2>1, <3>1, <1>3
    <3>2. CASE ~written
      BY <2>1, <3>2, <1>1, <1>2, <1>3 DEF SessionInv, Clean, Stored
    <3>. QED BY <3>1, <3>2
  <2>3. cookie \subseteq Ids
    BY DEF SessionInv, Shapes
  <2>4. ASSUME NEW j \in cookie, j # i
        PROVE  /\ Cached(j)' => cache'[j].entries = truth[j]
               /\ ~Cached(j)' /\ Stored(j)' /\ ~store'[j].torn => store'[j].entries = truth[j]
    BY <2>3, <2>4, <1>3, <1>4 DEF SessionInv, NothingLost, Cached, Stored
  <2>. QED BY <2>2, <2>4, <1>1, <1>4 DEF NothingLost, Cached
<1>9. Clean'
  BY <1>1, <1>3, <1>4 DEF SessionInv, Clean, Cached, Stored
<1>10. Timed'
  BY <1>1, <1>2, <1>3, <1>4 DEF SessionInv, Timed, Cached, Stored
<1>11. Lasting'
  <2>1. hist \subseteq {"late"} => Stored(i)'
    <3>1. hist \subseteq {"late"} => Stored(i)
      BY <1>1, <1>2 DEF SessionInv, Lasting
    <3>. QED BY <3>1, <1>3 DEF Stored
  <2>2. cookie \subseteq Ids
    BY DEF SessionInv, Shapes
  <2>3. ASSUME hist \subseteq {"late"}, NEW j \in Ids, j # i
        PROVE  /\ Cached(j)' => Stored(j)'
               /\ j \in cookie /\ (files => expires'[j] >= clock) => Stored(j)'
    BY <2>3, <1>3, <1>4 DEF SessionInv, Lasting, Cached, Stored
  <2>. QED BY <2>1, <2>2, <2>3, <1>1 DEF Lasting
<1>. QED BY <1>1, <1>5, <1>6, <1>7, <1>8, <1>9, <1>10, <1>11 DEF SessionInv

\* A new session is one nobody was given, and is not in the cache.
LEMMA AfterNewKeeps ==
  ASSUME SessionInv, UNCHANGED files, NEW r \in Requests, NEW i \in Ids, AfterNew(r, i)
  PROVE  SessionInv' /\ Honours
<1>. DEFINE n == [own[r] EXCEPT !.refresh = TRUE]
            written == own[r].dirty \/ ~files
<1>1. /\ req' \in [Requests -> Request] /\ req'[r].id = None
      /\ \A s \in Requests \ {r} : req'[s] = req[s]
      /\ Resting' /\ Honours
      /\ UNCHANGED <<files, cache, saved, clock, uses>>
      /\ req[r].id = New /\ i \notin cookie /\ ~Stored(i) /\ cookie' = cookie \cup {i}
      /\ own' = [own EXCEPT ![r] = NoNode]
      /\ truth' = [truth EXCEPT ![i] = own[r].entries]
      /\ hist \subseteq hist' /\ (files /\ ~own[r].dirty => "unwritten" \in hist')
      /\ Save(i, n)
  BY EndShapes DEF AfterNew
<1>2. /\ own \in [Requests -> Node] /\ truth \in [Ids -> SUBSET Values] /\ cookie \subseteq Ids
      /\ ~Cached(i) /\ ~Stored(i)
  BY <1>1 DEF SessionInv, Shapes, Given
<1>3. n \in Node /\ n.refresh /\ n.dirty = own[r].dirty /\ n.entries = own[r].entries
  BY <1>2 DEF Node
<1>. HIDE DEF n
<1>4. /\ store' \in [Ids -> Entry] /\ expires' \in [Ids -> Times]
      /\ \A j \in Ids \ {i} : store'[j] = store[j] /\ expires'[j] = expires[j]
      /\ files => expires'[i] # NoTime
      /\ ~files => expires'[i] = expires[i]
      /\ written => store'[i].there /\ store'[i].entries = own[r].entries /\ ~store'[i].torn
      /\ ~written => store'[i] = store[i]
  BY <1>1, <1>3, SaveWrites
<1>5. /\ own' \in [Requests -> Node] /\ ~own'[r].in
      /\ \A s \in Requests \ {r} : own'[s] = own[s]
      /\ truth' \in [Ids -> SUBSET Values] /\ truth'[i] = own[r].entries
      /\ \A j \in Ids \ {i} : truth'[j] = truth[j]
      /\ cookie' \subseteq Ids
  <2>1. NoNode \in Node /\ ~NoNode.in
    BY DEF NoNode, Node
  <2>2. own[r].entries \in SUBSET Values
    BY <1>2 DEF Node
  <2>. QED BY <2>1, <2>2, <1>1, <1>2
<1>6. Shapes'
  BY <1>1, <1>4, <1>5 DEF SessionInv, Shapes
<1>7. CacheExact'
  <2>1. None # New /\ \A j \in Ids : j # None /\ j # New
    BY IdsAssumption DEF None, New
  <2>. QED BY <2>1, <1>1, <1>5, <1>6, CountsFollow
<1>8. \A j \in Ids : Cached(j)' = Cached(j)
  BY <1>1 DEF Cached
<1>9. Given'
  BY <1>1, <1>4, <1>8 DEF SessionInv, Given, Stored
<1>10. NothingLost'
  <2>1. Stored(i)' => store'[i].entries = truth'[i]
    BY <1>2, <1>4, <1>5 DEF Stored
  <2>2. ASSUME NEW j \in cookie
        PROVE  j \in Ids \ {i} /\ truth'[j] = truth[j] /\ store'[j] = store[j]
    BY <1>1, <1>2, <1>4, <1>5
  <2>. QED BY <2>1, <2>2, <1>1, <1>2, <1>8 DEF SessionInv, NothingLost, Stored
<1>11. Clean'
  BY <1>1, <1>2, <1>4, <1>8 DEF SessionInv, Clean, Stored
<1>12. Timed'
  BY <1>1, <1>4, <1>8 DEF SessionInv, Timed, Stored
<1>13. Lasting'
  <2>1. hist' \subseteq {"late"} => hist \subseteq {"late"} /\ written
    BY <1>1
  <2>2. written => Stored(i)'
    BY <1>4 DEF Stored
  <2>. QED BY <2>1, <2>2, <1>1, <1>2, <1>4, <1>8 DEF SessionInv, Lasting, Stored
<1>. QED BY <1>1, <1>6, <1>7, <1>9, <1>10, <1>11, <1>12, <1>13 DEF SessionInv

-----------------------------------------------------------------------------
(* The process *)

LEMMA TickKeeps ==
  ASSUME SessionInv, UNCHANGED files, Tick
  PROVE  SessionInv' /\ Honours
<1>1. /\ UNCHANGED <<files, cache, own, req, store, expires, saved, cookie, truth, uses, hist>>
      /\ clock < MaxTime /\ clock' = clock + 1 /\ clock \in 0 .. MaxTime
  BY DEF Tick, SessionInv, Shapes
<1>2. Shapes'
  <2>1. clock' \in 0 .. MaxTime
    BY <1>1, BoundsAssumption
  <2>. QED BY <2>1, <1>1 DEF SessionInv, Shapes
<1>3. CacheExact'
  BY <1>1, <1>2, Exact, ExactPrimed DEF SessionInv
<1>4. Resting' /\ Honours
  BY <1>1, NoneBeginsKeeps DEF NoneBegins
<1>5. Given' /\ NothingLost' /\ Clean' /\ Timed'
  BY <1>1 DEF SessionInv, Given, NothingLost, Clean, Timed, Cached, Stored
<1>6. Lasting'
  <2>1. ASSUME NEW i \in cookie, expires[i] >= clock + 1 PROVE expires[i] >= clock
    <3>1. expires[i] \in Int /\ clock \in Int
      BY <1>1, BoundsAssumption DEF SessionInv, Shapes, Times, NoTime
    <3>. QED BY <2>1, <3>1
  <2>. QED BY <2>1, <1>1 DEF SessionInv, Lasting, Cached, Stored
<1>. QED BY <1>2, <1>3, <1>4, <1>5, <1>6 DEF SessionInv

\* A FileStore that starts has the sessions that are left, and no requests.
LEMMA RestartClears ==
  ASSUME SessionInv, UNCHANGED files, NEW times \in [Ids -> Times], NEW kept \in [Ids -> Entry],
         Restart(times, kept), truth' \in [Ids -> SUBSET Values], saved' \in [Ids -> Times]
  PROVE  /\ Shapes' /\ CacheExact' /\ Resting' /\ Honours
         /\ UNCHANGED <<files, cookie, clock>> /\ files
         /\ \A i \in Ids : /\ ~Cached(i)'
                           /\ Stored(i)' <=> (kept[i].there /\ i \notin Expired(times))
                           /\ Stored(i)' => store'[i] = kept[i] /\ expires'[i] = times[i]
                           /\ ~Stored(i)' => expires'[i] = NoTime
                           /\ store'[i].torn => store'[i] = kept[i]
<1>1. /\ store' = [i \in Ids |-> IF i \in Expired(times) THEN Absent ELSE kept[i]]
      /\ expires' = [i \in Ids |-> IF store'[i].there THEN times[i] ELSE NoTime]
      /\ cache' = [i \in Ids |-> NoNode] /\ own' = [r \in Requests |-> NoNode]
      /\ req' = [r \in Requests |-> Idle]
      /\ UNCHANGED <<files, cookie, clock, uses>> /\ files
  BY DEF Restart
<1>2. /\ NoNode \in Node /\ Idle \in Request /\ Absent \in Entry /\ NoTime \in Times
      /\ ~NoNode.in /\ NoNode.referrers = 0 /\ ~Absent.there /\ ~Absent.torn /\ Idle.id = None
  BY BoundsAssumption DEF NoNode, Node, Idle, Request, Absent, Entry, NoTime, Times
<1>3. store' \in [Ids -> Entry]
  BY <1>1, <1>2
<1>4. Shapes'
  BY <1>1, <1>2, <1>3 DEF SessionInv, Shapes
<1>5. CacheExact'
  <2>1. \A i \in Ids : Of(req', i) = {}
    BY <1>1, <1>2, IdsAssumption DEF Of
  <2>2. \A i \in Ids : Cardinality(Of(req', i)) = 0
    BY <2>1, UsersFinite
  <2>. QED BY <2>2, <1>1, <1>2, <1>4, ExactPrimed DEF None, New
<1>6. Resting' /\ Honours
  BY <1>1, NoneBeginsKeeps DEF NoneBegins
<1>7. \A i \in Ids : /\ ~Cached(i)'
                     /\ Stored(i)' <=> (kept[i].there /\ i \notin Expired(times))
                     /\ Stored(i)' => store'[i] = kept[i] /\ expires'[i] = times[i]
                     /\ ~Stored(i)' => expires'[i] = NoTime
                     /\ store'[i].torn => store'[i] = kept[i]
  BY <1>1, <1>2, <1>3 DEF Cached, Stored
<1>. QED BY <1>1, <1>4, <1>5, <1>6, <1>7

LEMMA StopKeeps ==
  ASSUME SessionInv, UNCHANGED files, Stop \/ \E S \in SUBSET Ids : CrashStopping(S)
  PROVE  SessionInv' /\ Honours
<1>0. PICK times \in [Ids -> Times] :
        /\ Restart(times, store) /\ saved' = times /\ hist \subseteq hist'
        /\ "crash" \in hist' \/ times = expires
  <2>1. CASE Stop
    BY <2>1 DEF Stop, SessionInv, Shapes
  <2>2. ASSUME NEW S \in SUBSET Ids, CrashStopping(S)
        PROVE  /\ Restart(saved', store) /\ hist \subseteq hist' /\ "crash" \in hist'
               /\ saved' \in [Ids -> Times]
    <3>1. expires \in [Ids -> Times] /\ NoTime \in Times
      BY BoundsAssumption DEF SessionInv, Shapes, NoTime, Times
    <3>. QED BY <2>2, <3>1 DEF CrashStopping
  <2>. QED BY <2>1, <2>2
<1>1. /\ expires \in [Ids -> Times] /\ truth' = truth /\ truth' \in [Ids -> SUBSET Values]
      /\ store \in [Ids -> Entry] /\ saved' \in [Ids -> Times]
      /\ \A r \in Requests : req[r].at = "idle"
  BY <1>0 DEF Stop, CrashStopping, SessionInv, Shapes
<1>2. /\ Shapes' /\ CacheExact' /\ Resting' /\ Honours
      /\ UNCHANGED <<files, cookie, clock>> /\ files
      /\ \A i \in Ids : /\ ~Cached(i)'
                        /\ Stored(i)' <=> (store[i].there /\ i \notin Expired(times))
                        /\ Stored(i)' => store'[i] = store[i] /\ expires'[i] = times[i]
                        /\ ~Stored(i)' => expires'[i] = NoTime
                        /\ store'[i].torn => store'[i] = store[i]
  BY <1>0, <1>1, RestartClears
<1>3. \A i \in Ids : ~Cached(i)
  <2>1. \A i \in Ids : Of(req, i) = {}
    BY <1>1, IdsAssumption DEF SessionInv, Resting, Idle, Of
  <2>. QED BY <2>1, UsersFinite, Exact DEF SessionInv, Cached
<1>4. cookie \subseteq Ids /\ clock \in 0 .. MaxTime
  BY DEF SessionInv, Shapes
<1>5. Given' /\ NothingLost' /\ Clean'
  BY <1>1, <1>2, <1>3, <1>4 DEF SessionInv, Given, NothingLost, Clean, Stored
<1>6. Timed'
  BY <1>0, <1>1, <1>2 DEF SessionInv, Timed, Stored
<1>7. Lasting'
  <2>1. ASSUME hist' \subseteq {"late"}, NEW i \in cookie, expires'[i] >= clock PROVE Stored(i)'
    <3>1. i \in Ids /\ clock >= 0
      BY <1>4
    <3>2. expires'[i] # NoTime
      BY <3>1, <2>1, <1>4 DEF NoTime
    <3>. QED BY <3>1, <3>2, <1>2
  <2>. QED BY <2>1, <1>1, <1>2 DEF Lasting
<1>. QED BY <1>2, <1>5, <1>6, <1>7 DEF SessionInv

\* A crash leaves what the files say, one of them perhaps emptied.
LEMMA DiesKeeps ==
  ASSUME SessionInv, UNCHANGED files, NEW kept, Dies(kept), kept \in [Ids -> Entry],
         \A i \in Ids : kept[i] = store[i] \/ kept[i] = Torn
  PROVE  SessionInv' /\ Honours
<1>1. /\ saved \in [Ids -> Times] /\ saved' \in [Ids -> Times] /\ Restart(saved, kept)
      /\ truth' = [i \in Ids |-> IF Cached(i) THEN store[i].entries ELSE truth[i]]
      /\ "crash" \in hist'
      /\ store \in [Ids -> Entry] /\ truth \in [Ids -> SUBSET Values] /\ cookie \subseteq Ids
  BY DEF Dies, SessionInv, Shapes
<1>2. truth' \in [Ids -> SUBSET Values]
  BY <1>1 DEF Entry
<1>3. /\ Shapes' /\ CacheExact' /\ Resting' /\ Honours
      /\ UNCHANGED <<files, cookie, clock>> /\ files
      /\ \A i \in Ids : /\ ~Cached(i)'
                        /\ Stored(i)' <=> (kept[i].there /\ i \notin Expired(saved))
                        /\ Stored(i)' => store'[i] = kept[i] /\ expires'[i] = saved[i]
                        /\ ~Stored(i)' => expires'[i] = NoTime
                        /\ store'[i].torn => store'[i] = kept[i]
  BY <1>1, <1>2, RestartClears
<1>4. Torn.torn /\ Torn.entries = {}
  BY DEF Torn
<1>5. \A i \in Ids : Stored(i)' /\ ~store'[i].torn => Stored(i) /\ store'[i] = store[i] /\ ~store[i].torn
  BY <1>3, <1>4 DEF Stored
<1>6. Given' /\ Clean'
  <2>1. \A i \in Ids : store'[i].torn => files /\ store'[i].entries = {}
    BY <1>3, <1>4 DEF SessionInv, Clean
  <2>. QED BY <2>1, <1>3, <1>5 DEF SessionInv, Given, Clean
<1>7. NothingLost'
  BY <1>1, <1>3, <1>5 DEF SessionInv, NothingLost
<1>8. Timed' /\ Lasting'
  BY <1>1, <1>3 DEF Timed, Lasting
<1>. QED BY <1>3, <1>6, <1>7, <1>8 DEF SessionInv

LEMMA CrashKeeps ==
  ASSUME SessionInv, UNCHANGED files,
         Crash \/ \E r \in Requests, i \in Ids : CrashSaving(r, i)
  PROVE  SessionInv' /\ Honours
<1>1. store \in [Ids -> Entry] /\ Torn \in Entry
  BY DEF SessionInv, Shapes, Torn, Entry
<1>2. CASE Crash
  BY <1>1, <1>2, DiesKeeps DEF Crash
<1>3. ASSUME NEW r \in Requests, NEW i \in Ids, CrashSaving(r, i) PROVE SessionInv' /\ Honours
  <2>. DEFINE kept == [store EXCEPT ![i] = Torn]
  <2>1. /\ Dies(kept) /\ kept \in [Ids -> Entry]
        /\ \A j \in Ids : kept[j] = store[j] \/ kept[j] = Torn
    BY <1>1, <1>3 DEF CrashSaving
  <2>. HIDE DEF kept
  <2>. QED BY <2>1, DiesKeeps
<1>. QED BY <1>2, <1>3

-----------------------------------------------------------------------------
LEMMA StepKeeps ==
  ASSUME SessionInv, Next
  PROVE  SessionInv' /\ Honours
<1>1. Step /\ UNCHANGED files
  BY DEF Next
<1>2. CASE Tick \/ Stop \/ Crash \/ \E S \in SUBSET {i \in Ids : expires[i] # NoTime} : CrashStopping(S)
  BY <1>1, <1>2, TickKeeps, StopKeeps, CrashKeeps
<1>3. ASSUME NEW r \in Requests,
             \/ \E i \in Ids \cup {None} : BeforeWithout(r, i)
             \/ \E i \in Ids : BeforeCached(r, i) \/ \E S \in SUBSET Ids : BeforeLoad(r, i, S)
      PROVE  SessionInv' /\ Honours
  BY <1>1, <1>3, BeforeWithoutKeeps, BeforeCachedKeeps, BeforeLoadKeeps
<1>4. ASSUME NEW r \in Requests,
             \/ \E v \in Values : SetValue(r, v)
             \/ TakeMutex(r) \/ Remove(r) \/ RefreshExpiration(r)
      PROVE  SessionInv' /\ Honours
  BY <1>1, <1>4, HandlerKeeps
<1>5. ASSUME NEW r \in Requests,
             \/ AfterWithout(r) \/ AfterShared(r) \/ AfterLast(r)
             \/ \E i \in Ids : AfterNew(r, i) \/ CrashSaving(r, i)
      PROVE  SessionInv' /\ Honours
  BY <1>1, <1>5, AfterWithoutKeeps, AfterSharedKeeps, AfterLastKeeps, AfterNewKeeps, CrashKeeps
<1>. QED BY <1>1, <1>2, <1>3, <1>4, <1>5 DEF Step

LEMMA RestKeeps ==
  ASSUME SessionInv, UNCHANGED vars
  PROVE  SessionInv'
<1>1. UNCHANGED <<files, cache, own, req, store, expires, saved, cookie, truth, clock, uses, hist>>
  BY DEF vars
<1>2. Shapes'
  BY <1>1 DEF SessionInv, Shapes
<1>3. CacheExact'
  BY <1>1, <1>2, Exact, ExactPrimed DEF SessionInv
<1>4. Resting'
  BY <1>1 DEF SessionInv, Resting
<1>5. Given' /\ NothingLost' /\ Clean' /\ Timed' /\ Lasting'
  BY <1>1, <1>2, SameSessionsKeep DEF SameSessions
<1>. QED BY <1>2, <1>3, <1>4, <1>5 DEF SessionInv

\* However the requests of any number of clients overlap, load, share, save and
\* lose sessions, and whenever the process stops or dies, even in the middle of
\* writing a file: a session is in the cache while requests use it and counts
\* them, its last values are in the cache or in the store (but for the file that
\* was being written), and a file has a time at which it is deleted
\* (SessionMiddleware, CachedSession, FileStore and InMemoryStore of session.h).
THEOREM SessionsAreSound == Spec => []SessionsSound
<1>1. SessionInv /\ [Next]_vars => SessionInv'
  BY StepKeeps, RestKeeps
<1>2. SessionInv => SessionsSound
  <2>1. ASSUME SessionInv PROVE TypeOK
    <3>1. \A i \in Ids : cache[i].referrers \in 0 .. Cardinality(Requests)
      BY <2>1, Exact, UsersFinite DEF SessionInv
    <3>. QED BY <2>1, <3>1 DEF SessionInv, Shapes, Node, Entry, Times, TypeOK
  <2>. QED BY <2>1 DEF SessionInv, Timed, Tracked, SessionsSound
<1>. QED BY <1>1, <1>2, SessionInit, PTL DEF Spec

\* A request is given the session that its cookie names while that lasts and
\* not after, except where the code is known to fail it: a session evicted
\* while in use, a crash, a session without values, one that handle_expired
\* had no room to delete (before_handle, FileStore::load and handle_expired).
THEOREM SessionsAreHonoured == Spec => SessionsHonoured
<1>1. SessionInv /\ [Next]_vars => SessionInv'
  BY StepKeeps, RestKeeps
<1>2. SessionInv /\ [Next]_vars => [CookieHonoured /\ NotAfterExpiry]_vars
  BY StepKeeps DEF Honours
<1>. QED BY <1>1, <1>2, SessionInit, PTL DEF Spec, SessionsHonoured

-----------------------------------------------------------------------------
(* Uploads *)

Symbols == UNION {{Body[c][i].data : i \in DOMAIN Body[c]} : c \in Uploaders}
Phases == {"none", "logged", "ready", "posting", "handling", "answered", "deleted"}

\* A request whose fields are of these sets, and one with the fields it has.
Record(A, F, K, U) == [phase : Phases, at : Nat, args : A, files : F, ukey : K, ufile : U, stream : Nat,
                       failed : BOOLEAN]
Shape(r) == r \in Record({r.args}, {r.files}, {r.ukey}, {r.ufile})

\* Of the request r of c, when the disk is d, the files are n, the target is t.  Its fields.
Typed(c, r, n) ==
    /\ Shape(r) /\ r.at \in 0 .. Len(Body[c]) /\ r.stream \in 0 .. Len(n)
    /\ r.failed \in BOOLEAN /\ (r.failed => r.at = Len(Body[c])) /\ (r.stream # 0 => r.phase = "posting")
    /\ \A k \in DOMAIN r.args : r.args[k] \in Seq(Seq(Symbols))
    /\ r.phase \in {"none", "deleted"} => DOMAIN r.files = {}
    /\ r.phase \in {"handling", "answered"} => r.at = Len(Body[c])

\* Its files are on disk, under paths nobody else has; only a failure leaves an entry without one.
Kept(c, r, d) ==
    \A x \in DOMAIN r.files :
        /\ x = <<x[1], x[2]>> /\ x[2] # W!None
        /\ \/ r.files[x] = <<c, x[1], x[2]>> /\ r.files[x] \in DOMAIN d
           \/ r.files[x] = W!NoPath /\ r.failed

\* The stream writes to the file of the last call's key and name.
Opened(r, d) ==
    r.stream # 0 =>
        /\ <<r.ukey, r.ufile>> \in DOMAIN r.files /\ r.files[<<r.ukey, r.ufile>>] \in DOMAIN d
        /\ d[r.files[<<r.ukey, r.ufile>>]] = r.stream

\* Each file holds what was sent for it so far, and nothing was sent for a file that is not there.
Written(c, r, d, n, t) ==
    ~r.failed =>
        /\ \A x \in DOMAIN r.files : W!Sent(n[d[r.files[x]]], c, W!Upto(W!FileCalls(c, x), r.at))
        /\ W!OnDisk(t) => \A i \in 1 .. r.at : Body[c][i].file # W!None =>
                                 <<Body[c][i].key, Body[c][i].file>> \in DOMAIN r.files
        /\ ~W!OnDisk(t) => DOMAIN r.files = {}

\* The values of a field are those begun so far, with the pieces that were sent.
SoFar(c, k, vs, n) ==
    /\ Len(vs) = Cardinality(W!Upto(W!Begins(c, k), n))
    /\ \A v \in DOMAIN vs : W!Sent(vs[v], c, W!Upto(W!Pieces(c, k, v), n))

Told(c, r) == ~r.failed => \A k \in W!Keys : W!OnlyField(c, k) => SoFar(c, k, W!ValuesOf(r, k), r.at)

RequestInv(c, r, d, n, t) == Typed(c, r, n) /\ Kept(c, r, d) /\ Opened(r, d) /\ Written(c, r, d, n, t) /\ Told(c, r)

\* Every path is that of some request, and no two paths are one file.
DiskInv ==
    /\ disk = [p \in DOMAIN disk |-> disk[p]] /\ inode \in Seq(Seq(Symbols))
    /\ W!NoPath \notin DOMAIN disk /\ \A p \in DOMAIN disk : disk[p] \in DOMAIN inode
    /\ \A p \in DOMAIN disk : \E c \in Uploaders : \E x \in DOMAIN request[c].files : request[c].files[x] = p
    /\ \A p, q \in DOMAIN disk : disk[p] = disk[q] => p = q

ControlTypes ==
    /\ target \in W!AllTargets /\ main \in {"idle", "started", "testing", "waiting", "returned"}
    /\ running \in BOOLEAN /\ daemon \in {"none", "up", "stopped"} /\ twice \in BOOLEAN
    /\ stopper \in [Stoppers \cup Killers -> {"idle", "locking", "joining", "done", "refused"}]

UploadInv ==
    /\ ControlTypes /\ DiskInv /\ request = [c \in Uploaders |-> request[c]]
    /\ \A c \in Uploaders : RequestInv(c, request[c], disk, inode, target)

-----------------------------------------------------------------------------
(* What was sent so far *)

LEMMA CountIs == \A S : W!Cardinality(S) = Cardinality(S)
BY DEF W!Cardinality, Cardinality

LEMMA RankIs ==
    ASSUME NEW is, NEW i
    PROVE  W!Rank(is, i) = Cardinality(W!Upto(is, i))
BY CountIs DEF W!Rank

LEMMA SentIs ==
    ASSUME NEW q, NEW c, NEW is
    PROVE  W!Sent(q, c, is) <=> /\ Len(q) = Cardinality(is)
                                /\ \A i \in is : q[W!Rank(is, i)] = Body[c][i].data
BY CountIs DEF W!Sent

LEMMA UploadFacts ==
    /\ ContentLimit \in Nat /\ RandomNames \in BOOLEAN /\ Targets \subseteq W!AllTargets /\ Killers \subseteq Uploaders
    /\ \A c \in Uploaders : Len(Body[c]) \in Nat /\ DOMAIN Body[c] = 1 .. Len(Body[c])
BY UploadsAssumption DEF W!TargetAssumption, W!KillersAssumption, W!LimitAssumption, W!BodyAssumption

LEMMA BodyFacts ==
    ASSUME NEW c \in Uploaders, NEW i \in 1 .. Len(Body[c])
    PROVE  /\ Body[c][i].data \in Symbols /\ Body[c][i].key \in W!Keys /\ Body[c][i].more \in BOOLEAN
           /\ Body[c][i].more => \E j \in W!FileCalls(c, <<Body[c][i].key, Body[c][i].file>>) :
                                    j < i /\ ~Body[c][j].more
<1>1. i \in DOMAIN Body[c]
    BY UploadFacts
<1>2. Body[c][i].data \in Symbols
    BY <1>1 DEF Symbols
<1>3. Body[c][i].key \in W!Keys
    BY <1>1 DEF W!Keys
<1>4. /\ Body[c][i].more \in BOOLEAN
      /\ Body[c][i].more => \E j \in W!FileCalls(c, <<Body[c][i].key, Body[c][i].file>>) :
                               j < i /\ ~Body[c][j].more
    BY <1>1, UploadsAssumption DEF W!BodyAssumption
<1>. QED BY <1>2, <1>3, <1>4

LEMMA UptoFinite ==
    ASSUME NEW L \in Nat, NEW is \in SUBSET (1 .. L), NEW n \in 0 .. L
    PROVE  /\ IsFiniteSet(W!Upto(is, n)) /\ Cardinality(W!Upto(is, n)) \in Nat
           /\ \A i \in W!Upto(is, n) : W!Rank(is, i) \in 1 .. Cardinality(W!Upto(is, n))
<1>1. IsFiniteSet(1 .. L)
    BY FS_Interval
<1>2. \A m \in 0 .. L : IsFiniteSet(W!Upto(is, m)) /\ Cardinality(W!Upto(is, m)) \in Nat
    <2>1. \A m \in 0 .. L : W!Upto(is, m) \subseteq 1 .. L
        BY DEF W!Upto
    <2>. QED BY <1>1, <2>1, FS_Subset, FS_CardinalityType
<1>3. ASSUME NEW i \in W!Upto(is, n) PROVE W!Rank(is, i) \in 1 .. Cardinality(W!Upto(is, n))
    <2>1. i \in is /\ i <= n /\ i \in 0 .. L
        <3>1. i \in is /\ i <= n
            BY DEF W!Upto
        <3>. QED BY <3>1
    <2>4. i \in W!Upto(is, i)
        BY <2>1 DEF W!Upto
    <2>5. W!Upto(is, i) \subseteq W!Upto(is, n)
        <3>1. \A j \in is : j <= i => j <= n
            BY <2>1
        <3>. QED BY <3>1 DEF W!Upto
    <2>2. Cardinality(W!Upto(is, i)) <= Cardinality(W!Upto(is, n))
        BY <2>5, <1>2, FS_Subset
    <2>3. Cardinality(W!Upto(is, i)) # 0
        BY <2>1, <2>4, <1>2, FS_EmptySet
    <2>6. Cardinality(W!Upto(is, i)) \in Nat /\ Cardinality(W!Upto(is, n)) \in Nat
        BY <1>2, <2>1
    <2>7. Cardinality(W!Upto(is, i)) \in 1 .. Cardinality(W!Upto(is, n))
        BY <2>2, <2>3, <2>6
    <2>. QED BY <2>7, RankIs
<1>. QED BY <1>2, <1>3

LEMMA UptoNext ==
    ASSUME NEW L \in Nat, NEW is \in SUBSET (1 .. L), NEW n \in Nat, n + 1 <= L
    PROVE  /\ n + 1 \notin is => W!Upto(is, n + 1) = W!Upto(is, n)
           /\ n + 1 \in is => /\ W!Upto(is, n + 1) = W!Upto(is, n) \cup {n + 1}
                              /\ Cardinality(W!Upto(is, n + 1)) = Cardinality(W!Upto(is, n)) + 1
                              /\ n + 1 \notin W!Upto(is, n)
<1>1. \A j \in is : j <= n + 1 <=> j <= n \/ j = n + 1
    OBVIOUS
<1>4. ~(n + 1 <= n) /\ n + 1 <= n + 1
    OBVIOUS
<1>2. n + 1 \notin is => W!Upto(is, n + 1) = W!Upto(is, n)
    BY <1>1 DEF W!Upto
<1>3. ASSUME n + 1 \in is
      PROVE  /\ W!Upto(is, n + 1) = W!Upto(is, n) \cup {n + 1} /\ n + 1 \notin W!Upto(is, n)
             /\ Cardinality(W!Upto(is, n + 1)) = Cardinality(W!Upto(is, n)) + 1
    <2>1. W!Upto(is, n + 1) = W!Upto(is, n) \cup {n + 1} /\ n + 1 \notin W!Upto(is, n)
        BY <1>1, <1>3, <1>4 DEF W!Upto
    <2>2. IsFiniteSet(W!Upto(is, n))
        BY UptoFinite
    <2>. QED BY <2>1, <2>2, FS_AddElement
<1>. QED BY <1>2, <1>3

LEMMA RankUpto ==
    ASSUME NEW is \in SUBSET Nat, NEW n \in Nat, NEW i \in W!Upto(is, n)
    PROVE  W!Rank(W!Upto(is, n), i) = W!Rank(is, i)
<1>1. i \in is /\ i <= n
    BY DEF W!Upto
<1>2. \A j \in is : j <= i => j <= n
    BY <1>1
<1>3. W!Upto(W!Upto(is, n), i) = W!Upto(is, i)
    BY <1>2 DEF W!Upto
<1>. QED BY <1>3, RankIs

\* One more symbol of it, or of something else.
LEMMA SentNext ==
    ASSUME NEW c \in Uploaders, NEW is \in SUBSET (1 .. Len(Body[c])), NEW n \in Nat, n + 1 <= Len(Body[c]),
           NEW q \in Seq(Symbols), W!Sent(q, c, W!Upto(is, n))
    PROVE  /\ n + 1 \notin is => W!Sent(q, c, W!Upto(is, n + 1))
           /\ n + 1 \in is => W!Sent(Append(q, Body[c][n + 1].data), c, W!Upto(is, n + 1))
<1>. DEFINE L == Len(Body[c])
            d == Body[c][n + 1].data
            r == Append(q, d)
<1>1. L \in Nat /\ n \in 0 .. L /\ n + 1 \in 1 .. L /\ is \subseteq Nat
    BY UploadFacts
<1>4. is \in SUBSET (1 .. L) /\ n + 1 <= L
    OBVIOUS
<1>2. CASE n + 1 \notin is
    BY <1>1, <1>2, UptoNext, ZenonT(60)
<1>3. CASE n + 1 \in is
    <2>. HIDE DEF L
    <2>1. /\ W!Upto(is, n + 1) = W!Upto(is, n) \cup {n + 1}
          /\ Cardinality(W!Upto(is, n + 1)) = Cardinality(W!Upto(is, n)) + 1
        <3>. HIDE DEF d, r
        <3>1. /\ n + 1 \notin is => W!Upto(is, n + 1) = W!Upto(is, n)
              /\ n + 1 \in is => /\ W!Upto(is, n + 1) = W!Upto(is, n) \cup {n + 1}
                                 /\ Cardinality(W!Upto(is, n + 1)) = Cardinality(W!Upto(is, n)) + 1
                                 /\ n + 1 \notin W!Upto(is, n)
            BY <1>1, <1>4, UptoNext
        <3>. QED BY <3>1, <1>3
    <2>2. Len(q) = Cardinality(W!Upto(is, n)) /\ Len(q) \in Nat
        <3>1. Len(q) \in Nat
            BY LenProperties
        <3>. QED BY <3>1, SentIs
    <2>3. d \in Symbols
        BY <1>1, BodyFacts DEF L
    <2>4. /\ Len(r) = Len(q) + 1 /\ r[Len(q) + 1] = d
          /\ \A i \in 1 .. Len(q) : r[i] = q[i]
        BY <2>3, AppendProperties
    <2>5. ASSUME NEW i \in W!Upto(is, n)
          PROVE  r[W!Rank(W!Upto(is, n + 1), i)] = Body[c][i].data
        <3>1. W!Rank(is, i) \in 1 .. Len(q)
            BY <1>1, <2>2, UptoFinite
        <3>2. i \in W!Upto(is, n + 1)
            BY <2>1
        <3>3. W!Rank(W!Upto(is, n + 1), i) = W!Rank(is, i) /\ W!Rank(W!Upto(is, n), i) = W!Rank(is, i)
            BY <1>1, <3>2, RankUpto
        <3>4. q[W!Rank(is, i)] = Body[c][i].data
            BY <3>3, SentIs
        <3>. QED BY <2>4, <3>1, <3>3, <3>4
    <2>6. r[W!Rank(W!Upto(is, n + 1), n + 1)] = d
        <3>1. n + 1 \in W!Upto(is, n + 1)
            BY <2>1
        <3>2. W!Rank(W!Upto(is, n + 1), n + 1) = Cardinality(W!Upto(is, n + 1))
            BY <1>1, <3>1, RankUpto, RankIs
        <3>. QED BY <2>1, <2>2, <2>4, <3>2
    <2>. QED BY <1>3, <2>1, <2>2, <2>4, <2>5, <2>6, SentIs
<1>. QED BY <1>2, <1>3

LEMMA SentNothing ==
    ASSUME NEW c, NEW is, is = {}
    PROVE  W!Sent(<<>>, c, is)
<1>1. Cardinality(is) = 0 /\ Len(<<>>) = 0
    BY FS_EmptySet
<1>. QED BY <1>1, SentIs

\* At the end of the body all of it was sent.
LEMMA SentAll ==
    ASSUME NEW c \in Uploaders, NEW is \in SUBSET (1 .. Len(Body[c]))
    PROVE  W!Upto(is, Len(Body[c])) = is
<1>. DEFINE L == Len(Body[c])
<1>1. is \in SUBSET (1 .. L) /\ L \in Nat
    BY UploadFacts
<1>. HIDE DEF L
<1>2. W!Upto(is, L) = is
    <2>1. \A j \in is : j <= L
        BY <1>1
    <2>. QED BY <2>1, Zenon DEF W!Upto
<1>. QED BY <1>2 DEF L

LEMMA CallsOf ==
    ASSUME NEW c \in Uploaders, NEW k, W!OnlyField(c, k)
    PROVE  /\ \A i \in 1 .. Len(Body[c]) : i \in W!ArgCalls(c, k) <=> Body[c][i].key = k
           /\ W!ArgCalls(c, k) \subseteq 1 .. Len(Body[c])
           /\ W!Begins(c, k) = {i \in W!ArgCalls(c, k) : ~Body[c][i].more}
           /\ \A v : W!Pieces(c, k, v) = {i \in W!ArgCalls(c, k) : W!Rank(W!Begins(c, k), i) = v}
BY UploadFacts DEF W!OnlyField, W!ArgCalls, W!FileCalls, W!Begins, W!Pieces

LEMMA LastGrows ==
    ASSUME NEW vs \in Seq(Seq(Symbols)), vs # <<>>, NEW d \in Symbols
    PROVE  /\ W!Front(vs) \o <<Append(W!Last(vs), d)>> = [vs EXCEPT ![Len(vs)] = Append(@, d)]
           /\ Len(vs) \in DOMAIN vs /\ vs[Len(vs)] \in Seq(Symbols)
           /\ [vs EXCEPT ![Len(vs)] = Append(@, d)] \in Seq(Seq(Symbols))
<1>. DEFINE L == Len(vs)
            w == Append(vs[L], d)
            r == [vs EXCEPT ![L] = w]
            f == SubSeq(vs, 1, L - 1)
<1>1. L \in Nat \ {0} /\ DOMAIN vs = 1 .. L /\ L \in DOMAIN vs
    BY LenProperties, EmptySeq
<1>2. vs[L] \in Seq(Symbols) /\ w \in Seq(Symbols)
    BY <1>1, ElementOfSeq, AppendProperties
<1>3. /\ f \in Seq(Seq(Symbols)) /\ Len(f) = L - 1 /\ \A i \in 1 .. L - 1 : f[i] = vs[i]
    <2>1. \A i \in 1 .. L - 1 : i \in 1 .. L
        BY <1>1
    <2>. QED BY <1>1, <2>1, SubSeqProperties, SMTT(60)
<1>. HIDE DEF L, w, f
<1>4. <<w>> \in Seq(Seq(Symbols)) /\ Len(<<w>>) = 1 /\ <<w>>[1] = w
    BY <1>2
<1>5. f \o <<w>> = Append(f, w)
    BY <1>2, <1>3, AppendIsConcat
<1>6. /\ Append(f, w) \in Seq(Seq(Symbols)) /\ Len(Append(f, w)) = L /\ Append(f, w)[L] = w
      /\ \A i \in 1 .. L - 1 : Append(f, w)[i] = vs[i]
    BY <1>1, <1>2, <1>3, AppendProperties
<1>7. r \in Seq(Seq(Symbols)) /\ Len(r) = L
    BY <1>1, <1>2, ExceptSeq
<1>8. \A i \in 1 .. L : r[i] = Append(f, w)[i]
    <2>1. ASSUME NEW i \in 1 .. L PROVE r[i] = Append(f, w)[i]
        <3>1. i = L \/ i \in 1 .. L - 1
            BY <1>1
        <3>. QED BY <1>1, <1>6, <3>1
    <2>. QED BY <2>1
<1>9. r = Append(f, w)
    <2>. HIDE DEF r
    <2>. QED BY <1>6, <1>7, <1>8, SeqEqual
<1>10. W!Front(vs) = f /\ W!Last(vs) = vs[L]
    BY DEF W!Front, W!Last, f, L
<1>. QED BY <1>1, <1>2, <1>5, <1>7, <1>9, <1>10, ZenonT(60) DEF L, w

\* The values after one more call: of another key, of a new value, of the last value.
LEMMA ValuesNext ==
    ASSUME NEW c \in Uploaders, NEW n \in Nat, n + 1 <= Len(Body[c]), NEW k, W!OnlyField(c, k),
           NEW vs \in Seq(Seq(Symbols)), SoFar(c, k, vs, n)
    PROVE  LET e == Body[c][n + 1]
           IN  /\ e.key # k => SoFar(c, k, vs, n + 1)
               /\ e.key = k /\ ~e.more => SoFar(c, k, Append(vs, <<e.data>>), n + 1)
               /\ e.key = k /\ e.more =>
                    vs # <<>> /\ SoFar(c, k, [vs EXCEPT ![Len(vs)] = Append(@, e.data)], n + 1)
<1>. DEFINE e == Body[c][n + 1]
            L == Len(Body[c])
            B == W!Begins(c, k)
            A == W!ArgCalls(c, k)
            G(v) == W!Pieces(c, k, v)
<1>1. L \in Nat /\ n \in 0 .. L /\ n + 1 \in 1 .. L /\ n + 1 \in 0 .. L
    BY UploadFacts
<1>2. /\ n + 1 \in A <=> e.key = k
      /\ A \subseteq 1 .. L /\ B = {i \in A : ~Body[c][i].more} /\ \A v : G(v) = {i \in A : W!Rank(B, i) = v}
    BY <1>1, CallsOf
<1>3. e.data \in Symbols /\ e.more \in BOOLEAN
    BY <1>1, BodyFacts
<1>4. B \in SUBSET (1 .. L) /\ n + 1 <= L /\ \A v : G(v) \in SUBSET (1 .. L)
    BY <1>2
<1>5. /\ Len(vs) \in Nat /\ DOMAIN vs = 1 .. Len(vs) /\ Len(vs) = Cardinality(W!Upto(B, n))
      /\ \A v \in 1 .. Len(vs) : vs[v] \in Seq(Symbols) /\ W!Sent(vs[v], c, W!Upto(G(v), n))
    BY LenProperties, ElementOfSeq DEF SoFar
<1>6. /\ n + 1 \notin B => W!Upto(B, n + 1) = W!Upto(B, n)
      /\ n + 1 \in B => Cardinality(W!Upto(B, n + 1)) = Cardinality(W!Upto(B, n)) + 1
    <2>. HIDE DEF B, L, e
    <2>1. /\ n + 1 \notin B => W!Upto(B, n + 1) = W!Upto(B, n)
          /\ n + 1 \in B => /\ W!Upto(B, n + 1) = W!Upto(B, n) \cup {n + 1}
                            /\ Cardinality(W!Upto(B, n + 1)) = Cardinality(W!Upto(B, n)) + 1
                            /\ n + 1 \notin W!Upto(B, n)
        BY <1>1, <1>4, UptoNext
    <2>. QED BY <2>1
<1>7. ASSUME NEW v \in 1 .. Len(vs)
      PROVE  /\ n + 1 \notin G(v) => W!Sent(vs[v], c, W!Upto(G(v), n + 1))
             /\ n + 1 \in G(v) => W!Sent(Append(vs[v], e.data), c, W!Upto(G(v), n + 1))
    <2>. DEFINE is == G(v)
                q == vs[v]
    <2>1. is \in SUBSET (1 .. Len(Body[c])) /\ q \in Seq(Symbols) /\ W!Sent(q, c, W!Upto(is, n))
        BY <1>4, <1>5
    <2>. HIDE DEF is, q
    <2>2. /\ n + 1 \notin is => W!Sent(q, c, W!Upto(is, n + 1))
          /\ n + 1 \in is => W!Sent(Append(q, Body[c][n + 1].data), c, W!Upto(is, n + 1))
        BY <2>1, SentNext
    <2>. QED BY <2>2 DEF is, q
<1>8. W!Rank(B, n + 1) = Cardinality(W!Upto(B, n + 1))
    BY RankIs
<1>. HIDE DEF B, G, A, L
<1>9. ASSUME e.key # k PROVE SoFar(c, k, vs, n + 1)
    <2>1. n + 1 \notin B /\ \A v : n + 1 \notin G(v)
        BY <1>2, <1>9
    <2>. QED BY <2>1, <1>5, <1>6, <1>7 DEF SoFar, B, G
<1>10. ASSUME e.key = k, ~e.more PROVE SoFar(c, k, Append(vs, <<e.data>>), n + 1)
    <2>. DEFINE r == Append(vs, <<e.data>>)
                m == Len(vs) + 1
    <2>1. n + 1 \in A /\ n + 1 \in B
        BY <1>2, <1>10
    <2>2. W!Rank(B, n + 1) = m /\ Cardinality(W!Upto(B, n + 1)) = m
        BY <1>5, <1>6, <1>8, <2>1
    <2>3. <<e.data>> \in Seq(Symbols)
        BY <1>3
    <2>4. Len(r) = m /\ DOMAIN r = 1 .. m /\ r[m] = <<e.data>> /\ \A v \in 1 .. Len(vs) : r[v] = vs[v]
        <3>1. r \in Seq(Seq(Symbols)) /\ Len(r) = m /\ r[m] = <<e.data>> /\ \A v \in 1 .. Len(vs) : r[v] = vs[v]
            BY <2>3, AppendProperties
        <3>. QED BY <3>1, LenProperties
    <2>5. ASSUME NEW v \in 1 .. Len(vs) PROVE W!Sent(r[v], c, W!Upto(G(v), n + 1))
        <3>1. n + 1 \notin G(v)
            BY <1>2, <1>5, <2>2
        <3>. QED BY <1>7, <2>4, <3>1
    <2>6. W!Sent(<<e.data>>, c, W!Upto(G(m), n + 1))
        <3>1. W!Upto(G(m), n) = {}
            <4>1. ASSUME NEW i \in W!Upto(G(m), n) PROVE FALSE
                <5>1. i \in A /\ i \in 1 .. L /\ i <= n /\ W!Rank(B, i) = m
                    BY <1>2 DEF W!Upto
                <5>2. Cardinality(W!Upto(B, i)) <= Cardinality(W!Upto(B, n))
                    <6>1. i \in 0 .. L
                        BY <5>1, <1>1
                    <6>2. IsFiniteSet(W!Upto(B, n))
                        BY <1>1, <1>4, UptoFinite
                    <6>3. W!Upto(B, i) \subseteq W!Upto(B, n)
                        <7>1. \A j \in B : j <= i => j <= n
                            BY <5>1, <1>1, <1>4
                        <7>. QED BY <7>1 DEF W!Upto
                    <6>. QED BY <6>2, <6>3, FS_Subset
                <5>. QED BY <5>1, <5>2, <1>5, RankIs
            <4>. QED BY <4>1
        <3>2. n + 1 \in G(m)
            BY <1>2, <2>1, <2>2
        <3>3. G(m) \in SUBSET (1 .. Len(Body[c])) /\ <<>> \in Seq(Symbols) /\ Append(<<>>, e.data) = <<e.data>>
            BY <1>4 DEF L
        <3>4. W!Sent(<<>>, c, W!Upto(G(m), n))
            BY <3>1, SentNothing
        <3>5. n + 1 \in G(m) => W!Sent(Append(<<>>, Body[c][n + 1].data), c, W!Upto(G(m), n + 1))
            <4>. DEFINE is == G(m)
            <4>. HIDE DEF is, m
            <4>1. n + 1 \in is => W!Sent(Append(<<>>, Body[c][n + 1].data), c, W!Upto(is, n + 1))
                BY <3>3, <3>4, SentNext DEF is
            <4>. QED BY <4>1 DEF is
        <3>. QED BY <3>2, <3>3, <3>5
    <2>7. \A v \in 1 .. m : v \in 1 .. Len(vs) \/ v = m
        BY <1>5
    <2>. HIDE DEF r, m
    <2>8. SoFar(c, k, r, n + 1)
        BY <2>2, <2>4, <2>5, <2>6, <2>7 DEF SoFar, B, G
    <2>. QED BY <2>8 DEF r
<1>11. ASSUME e.key = k, e.more
       PROVE  vs # <<>> /\ SoFar(c, k, [vs EXCEPT ![Len(vs)] = Append(@, e.data)], n + 1)
    <2>. DEFINE m == Len(vs)
                r == [vs EXCEPT ![m] = Append(vs[m], e.data)]
    <2>1. n + 1 \in A /\ n + 1 \notin B
        BY <1>2, <1>11
    <2>2. W!Rank(B, n + 1) = m /\ Cardinality(W!Upto(B, n + 1)) = m
        BY <1>5, <1>6, <1>8, <2>1
    <2>3. m # 0
        <3>1. PICK j \in W!FileCalls(c, <<e.key, e.file>>) : j < n + 1 /\ ~Body[c][j].more
            BY <1>1, <1>11, BodyFacts DEF L
        <3>2. j \in 1 .. L /\ Body[c][j].key = k
            BY <1>11, <3>1, UploadFacts DEF W!FileCalls, L
        <3>3. j \in B /\ j <= n
            <4>1. j \in A
                BY <3>2, CallsOf DEF L, A
            <4>. QED BY <4>1, <3>1, <3>2, <1>1, <1>2
        <3>4. j \in W!Upto(B, n)
            BY <3>3 DEF W!Upto
        <3>5. IsFiniteSet(W!Upto(B, n))
            BY <1>1, <1>4, UptoFinite
        <3>. QED BY <1>5, <3>4, <3>5, FS_EmptySet
    <2>4. m \in 1 .. Len(vs) /\ \A v \in 1 .. Len(vs) : n + 1 \in G(v) <=> v = m
        <3>1. \A v : n + 1 \in G(v) <=> v = m
            <4>. HIDE DEF m, r
            <4>. QED BY <1>2, <2>1, <2>2
        <3>2. m \in 1 .. Len(vs)
            BY <1>5, <2>3
        <3>. QED BY <3>1, <3>2
    <2>5. r \in [1 .. m -> Seq(Symbols)] /\ r[m] = Append(vs[m], e.data) /\ \A v \in 1 .. m : v # m => r[v] = vs[v]
        <3>1. Append(vs[m], e.data) \in Seq(Symbols)
            BY <1>3, <1>5, <2>4, AppendProperties
        <3>2. vs \in [1 .. m -> Seq(Symbols)]
            BY LenProperties
        <3>. QED BY <2>4, <3>1, <3>2, ZenonT(60)
    <2>6. Len(r) = m /\ DOMAIN r = 1 .. m
        BY <1>5, <2>5
    <2>7. vs # <<>>
        BY <2>3
    <2>8. SoFar(c, k, r, n + 1)
        <3>1. ASSUME NEW v \in 1 .. m PROVE W!Sent(r[v], c, W!Upto(G(v), n + 1))
            <4>. HIDE DEF r
            <4>1. CASE v = m
                BY <1>7, <2>4, <2>5, <4>1
            <4>2. CASE v # m
                BY <1>7, <2>4, <2>5, <4>2
            <4>. QED BY <4>1, <4>2
        <3>. HIDE DEF r
        <3>. QED BY <2>2, <2>6, <3>1 DEF SoFar, B, G
    <2>. QED BY <2>7, <2>8
<1>. QED BY <1>9, <1>10, <1>11

-----------------------------------------------------------------------------
(* Steps of a request *)

LEMMA UploadFields ==
    ASSUME UploadInv, NEW c \in Uploaders
    PROVE  /\ Typed(c, request[c], inode) /\ Kept(c, request[c], disk) /\ Opened(request[c], disk)
           /\ Written(c, request[c], disk, inode, target) /\ Told(c, request[c])
           /\ Shape(request[c]) /\ DiskInv /\ ControlTypes /\ inode \in Seq(Seq(Symbols))
BY DEF UploadInv, RequestInv, Typed, DiskInv

\* What others wrote elsewhere changes nothing.
LEMMA OthersKeep ==
    ASSUME NEW c, NEW r, NEW d, NEW n, NEW t, RequestInv(c, r, d, n, t), NEW e, NEW m,
           Len(n) \in Nat, Len(m) \in Nat, Len(n) <= Len(m),
           \A x \in DOMAIN r.files : r.files[x] \in DOMAIN d =>
              r.files[x] \in DOMAIN e /\ e[r.files[x]] = d[r.files[x]] /\ m[e[r.files[x]]] = n[d[r.files[x]]]
    PROVE  RequestInv(c, r, e, m, t)
<1>1. Typed(c, r, m)
    BY DEF RequestInv, Typed
<1>2. Kept(c, r, e)
    BY DEF RequestInv, Kept
<1>3. Opened(r, e)
    BY DEF RequestInv, Opened
<1>4. Written(c, r, e, m, t)
    <2>1. ASSUME ~r.failed, NEW x \in DOMAIN r.files PROVE r.files[x] \in DOMAIN d
        BY <2>1 DEF RequestInv, Kept
    <2>. QED BY <2>1 DEF RequestInv, Written
<1>. QED BY <1>1, <1>2, <1>3, <1>4 DEF RequestInv

LEMMA RequestReplaced ==
    ASSUME UploadInv, NEW c \in Uploaders, NEW r, request' = [request EXCEPT ![c] = r], target' = target,
           ControlTypes', DiskInv', RequestInv(c, r, disk', inode', target), Len(inode) <= Len(inode'),
           \A b \in Uploaders \ {c} : \A x \in DOMAIN request[b].files : request[b].files[x] \in DOMAIN disk =>
              /\ request[b].files[x] \in DOMAIN disk' /\ disk'[request[b].files[x]] = disk[request[b].files[x]]
              /\ inode'[disk'[request[b].files[x]]] = inode[disk[request[b].files[x]]]
    PROVE  UploadInv'
<1>1. request' = [b \in Uploaders |-> request'[b]] /\ request'[c] = r /\ \A b \in Uploaders \ {c} : request'[b] = request[b]
    BY DEF UploadInv
<1>2. Len(inode) \in Nat /\ Len(inode') \in Nat
    BY LenProperties DEF UploadInv, DiskInv
<1>3. ASSUME NEW b \in Uploaders PROVE RequestInv(b, request'[b], disk', inode', target')
    <2>1. CASE b = c
        BY <1>1, <2>1
    <2>2. CASE b # c
        <3>1. RequestInv(b, request[b], disk, inode, target)
            BY DEF UploadInv
        <3>2. RequestInv(b, request[b], disk', inode', target)
            BY <1>2, <2>2, <3>1, OthersKeep
        <3>. QED BY <1>1, <2>2, <3>2
    <2>. QED BY <2>1, <2>2
<1>. QED BY <1>1, <1>3 DEF UploadInv

LEMMA ShapeIs ==
    ASSUME NEW A, NEW F, NEW K, NEW U, NEW r \in Record(A, F, K, U)
    PROVE  Shape(r) /\ r.phase \in Phases
BY DEF Record, Shape

\* Steps that only move a request on.
LEMMA MovedKeeps ==
    ASSUME UploadInv, NEW c \in Uploaders, NEW ph, NEW st,
           request' = [request EXCEPT ![c] = [request[c] EXCEPT !.phase = ph, !.stream = st]],
           ph \in Phases \ {"none", "deleted"}, st = request[c].stream \/ st = 0, st # 0 => ph = "posting",
           ph \in {"handling", "answered"} => request[c].at = Len(Body[c]),
           UNCHANGED <<target, disk, inode>>, ControlTypes'
    PROVE  UploadInv'
<1>. DEFINE r == [request[c] EXCEPT !.phase = ph, !.stream = st]
<1>1. /\ Shape(r) /\ r.phase = ph /\ r.stream = st /\ r.at = request[c].at /\ r.args = request[c].args
      /\ r.files = request[c].files /\ r.ukey = request[c].ukey /\ r.ufile = request[c].ufile
      /\ r.failed = request[c].failed
    <2>. DEFINE q == request[c]
    <2>1. q \in Record({q.args}, {q.files}, {q.ukey}, {q.ufile}) /\ q.stream \in Nat /\ st \in Nat
        <3>1. Typed(c, q, inode) /\ Len(inode) \in Nat
            BY UploadFields, LenProperties
        <3>. HIDE DEF q
        <3>2. q \in Record({q.args}, {q.files}, {q.ukey}, {q.ufile}) /\ q.stream \in Nat
            BY <3>1 DEF Typed, Shape
        <3>. QED BY <3>2 DEF q
    <2>. HIDE DEF q
    <2>2. /\ [q EXCEPT !.phase = ph, !.stream = st] \in Record({q.args}, {q.files}, {q.ukey}, {q.ufile})
          /\ [q EXCEPT !.phase = ph, !.stream = st].phase = ph /\ [q EXCEPT !.phase = ph, !.stream = st].stream = st
          /\ [q EXCEPT !.phase = ph, !.stream = st].at = q.at /\ [q EXCEPT !.phase = ph, !.stream = st].failed = q.failed
        BY <2>1 DEF Record
    <2>3. r = [q EXCEPT !.phase = ph, !.stream = st]
        BY DEF q
    <2>. HIDE DEF r
    <2>4. r \in Record({q.args}, {q.files}, {q.ukey}, {q.ufile})
        BY <2>2, <2>3
    <2>5. r.args = q.args /\ r.files = q.files /\ r.ukey = q.ukey /\ r.ufile = q.ufile
        BY <2>4 DEF Record
    <2>6. Shape(r)
        BY <2>4, ShapeIs
    <2>7. r.phase = ph /\ r.stream = st /\ r.at = q.at /\ r.failed = q.failed
        BY <2>2, <2>3
    <2>. QED BY <2>5, <2>6, <2>7 DEF q
<1>2. request' = [request EXCEPT ![c] = r]
    OBVIOUS
<1>. HIDE DEF r
<1>3. Typed(c, r, inode)
    <2>1. 0 \in 0 .. Len(inode)
        BY UploadFields, LenProperties
    <2>. QED BY <1>1, <2>1, UploadFields DEF Typed
<1>4. Kept(c, r, disk)
    BY <1>1, UploadFields DEF Kept
<1>5. Opened(r, disk)
    BY <1>1, UploadFields DEF Opened
<1>6. Written(c, r, disk, inode, target)
    BY <1>1, UploadFields DEF Written
<1>7. Told(c, r)
    BY <1>1, UploadFields DEF Told, W!ValuesOf
<1>8. RequestInv(c, r, disk', inode', target)
    BY <1>3, <1>4, <1>5, <1>6, <1>7 DEF RequestInv
<1>9. DiskInv'
    <2>1. request'[c] = r /\ \A b \in Uploaders \ {c} : request'[b] = request[b]
        BY <1>2 DEF UploadInv
    <2>2. \A b \in Uploaders : request'[b].files = request[b].files
        BY <1>1, <2>1
    <2>3. \A p \in DOMAIN disk' : \E b \in Uploaders : \E x \in DOMAIN request'[b].files : request'[b].files[x] = p
        <3>1. \A p \in DOMAIN disk : \E b \in Uploaders : \E x \in DOMAIN request[b].files : request[b].files[x] = p
            BY UploadFields DEF DiskInv
        <3>. QED BY <2>2, <3>1
    <2>. QED BY <2>3, UploadFields, ZenonT(60) DEF DiskInv
<1>10. Len(inode) <= Len(inode')
    BY UploadFields, LenProperties
<1>. QED BY <1>2, <1>8, <1>9, <1>10, RequestReplaced

\* A step of start or stop.
LEMMA ControlKeeps ==
    ASSUME UploadInv, UNCHANGED <<target, request, disk, inode>>, ControlTypes'
    PROVE  UploadInv'
<1>1. DiskInv'
    BY DEF UploadInv, DiskInv
<1>. QED BY <1>1 DEF UploadInv

LEMMA NothingYet ==
    ASSUME NEW ph \in Phases
    PROVE  LET r == [W!NoRequest EXCEPT !.phase = ph]
           IN  /\ Shape(r) /\ r.phase = ph /\ r.stream = 0 /\ r.at = 0 /\ r.args = [k \in {} |-> <<>>]
               /\ r.files = [x \in {} |-> W!NoPath] /\ r.failed = FALSE
<1>. DEFINE A == {[k \in {} |-> <<>>]}
            F == {[x \in {} |-> W!NoPath]}
            U == {W!None}
            r == [W!NoRequest EXCEPT !.phase = ph]
<1>1. W!NoRequest \in Record(A, F, U, U) /\ W!NoRequest.at = 0 /\ W!NoRequest.stream = 0 /\ W!NoRequest.failed = FALSE
    BY DEF W!NoRequest, Record, Phases
<1>. HIDE DEF A, F, U
<1>2. r \in Record(A, F, U, U) /\ r.phase = ph /\ r.at = 0 /\ r.stream = 0 /\ r.failed = FALSE
    BY <1>1 DEF Record
<1>. HIDE DEF r
<1>3. r.args \in A /\ r.files \in F
    BY <1>2 DEF Record
<1>. QED BY <1>2, <1>3, ShapeIs DEF A, F, r

\* A request that has nothing yet, or nothing any more.
LEMMA EmptyRequest ==
    ASSUME NEW c \in Uploaders, NEW r, Shape(r), r.phase \in {"none", "deleted"}, r.stream = 0, r.at = 0,
           r.args = [k \in {} |-> <<>>], r.files = [x \in {} |-> W!NoPath], r.failed = FALSE,
           NEW d, NEW n, NEW t, Len(n) \in Nat
    PROVE  RequestInv(c, r, d, n, t)
<1>1. DOMAIN r.args = {} /\ DOMAIN r.files = {} /\ 0 \in 0 .. Len(Body[c]) /\ 0 \in 0 .. Len(n)
    BY UploadFacts
<1>2. Typed(c, r, n)
    BY <1>1 DEF Typed
<1>3. Kept(c, r, d) /\ Opened(r, d)
    BY <1>1 DEF Kept, Opened
<1>4. Written(c, r, d, n, t)
    <2>1. 1 .. 0 = {}
        OBVIOUS
    <2>. QED BY <1>1, <2>1 DEF Written
<1>5. ASSUME NEW k, W!OnlyField(c, k) PROVE SoFar(c, k, W!ValuesOf(r, k), r.at)
    <2>1. W!ValuesOf(r, k) = <<>>
        BY <1>1 DEF W!ValuesOf
    <2>2. W!Upto(W!Begins(c, k), 0) = {}
        <3>1. \A i \in W!Begins(c, k) : ~(i <= 0)
            BY <1>5, CallsOf, UploadFacts
        <3>. QED BY <3>1 DEF W!Upto
    <2>3. Len(<<>>) = 0 /\ DOMAIN <<>> = {} /\ Cardinality({}) = 0
        BY FS_EmptySet
    <2>. QED BY <2>1, <2>2, <2>3 DEF SoFar
<1>6. Told(c, r)
    BY <1>5 DEF Told
<1>. QED BY <1>2, <1>3, <1>4, <1>6 DEF RequestInv

LEMMA PathOwned ==
    ASSUME UploadInv, NEW c \in Uploaders, NEW x \in DOMAIN request[c].files, request[c].files[x] \in DOMAIN disk
    PROVE  request[c].files[x] = <<c, x[1], x[2]>> /\ x = <<x[1], x[2]>> /\ request[c].files[x] \in W!PathsOf(request[c])
BY UploadFields DEF Kept, DiskInv, W!PathsOf

\* A request is done: its files are gone, and no others.
LEMMA DoneKeeps ==
    ASSUME UploadInv, NEW c \in Uploaders, W!Completed(c), UNCHANGED <<target, inode>>, ControlTypes'
    PROVE  UploadInv'
<1>. DEFINE r == [W!NoRequest EXCEPT !.phase = "deleted"]
            gone == W!PathsOf(request[c])
<1>1. /\ Shape(r) /\ r.phase = "deleted" /\ r.stream = 0 /\ r.at = 0 /\ r.args = [k \in {} |-> <<>>]
      /\ r.files = [x \in {} |-> W!NoPath] /\ r.failed = FALSE
    BY NothingYet DEF Phases
<1>2. /\ request' = [request EXCEPT ![c] = r]
      /\ disk' = [p \in DOMAIN disk \ gone |-> disk[p]]
    BY DEF W!Completed, W!Dropped
<1>. HIDE DEF r
<1>3. Len(inode') \in Nat /\ Len(inode) <= Len(inode')
    BY UploadFields, LenProperties
<1>4. RequestInv(c, r, disk', inode', target)
    BY <1>1, <1>3, EmptyRequest
<1>5. ASSUME NEW b \in Uploaders \ {c}, NEW x \in DOMAIN request[b].files, request[b].files[x] \in DOMAIN disk
      PROVE  request[b].files[x] \in DOMAIN disk \ gone
    <2>1. request[b].files[x] = <<b, x[1], x[2]>>
        BY <1>5, PathOwned
    <2>2. ASSUME NEW y \in DOMAIN request[c].files PROVE request[c].files[y] # request[b].files[x]
        <3>1. request[c].files[y] = <<c, y[1], y[2]>> \/ request[c].files[y] = W!NoPath
            BY UploadFields DEF Kept
        <3>2. W!NoPath # request[b].files[x]
            BY <1>5, UploadFields DEF DiskInv
        <3>3. <<c, y[1], y[2]>> # <<b, x[1], x[2]>>
            OBVIOUS
        <3>. QED BY <2>1, <3>1, <3>2, <3>3
    <2>. QED BY <1>5, <2>2 DEF W!PathsOf
<1>6. DiskInv'
    <2>1. ASSUME NEW p \in DOMAIN disk' PROVE \E b \in Uploaders : \E x \in DOMAIN request'[b].files : request'[b].files[x] = p
        <3>1. p \in DOMAIN disk /\ p \notin gone
            BY <1>2
        <3>2. PICK b \in Uploaders : \E x \in DOMAIN request[b].files : request[b].files[x] = p
            BY <3>1, UploadFields DEF DiskInv
        <3>3. b # c
            BY <3>1, <3>2, PathOwned
        <3>4. request'[b] = request[b]
            BY <1>2, <3>3 DEF UploadInv
        <3>. QED BY <3>2, <3>4
    <2>2. disk' = [p \in DOMAIN disk' |-> disk'[p]] /\ DOMAIN disk' \subseteq DOMAIN disk /\ \A p \in DOMAIN disk' : disk'[p] = disk[p]
        BY <1>2
    <2>3. W!NoPath \notin DOMAIN disk' /\ \A p \in DOMAIN disk' : disk'[p] \in DOMAIN inode
        BY <2>2, UploadFields DEF DiskInv
    <2>4. \A p, q \in DOMAIN disk' : disk'[p] = disk'[q] => p = q
        BY <2>2, UploadFields DEF DiskInv
    <2>. QED BY <2>1, <2>2, <2>3, <2>4, UploadFields DEF DiskInv
<1>. QED BY <1>2, <1>3, <1>4, <1>5, <1>6, RequestReplaced

\* MHD_stop_daemon completes every request that is left.
LEMMA StopDaemonKeeps ==
    ASSUME UploadInv, NEW s, W!StopDaemon(s), ControlTypes'
    PROVE  UploadInv'
<1>. DEFINE r == [W!NoRequest EXCEPT !.phase = "deleted"]
<1>1. /\ Shape(r) /\ r.phase = "deleted" /\ r.stream = 0 /\ r.at = 0 /\ r.args = [k \in {} |-> <<>>]
      /\ r.files = [x \in {} |-> W!NoPath] /\ r.failed = FALSE
    BY NothingYet DEF Phases
<1>2. /\ request' = [c \in Uploaders |-> IF W!Live(c) THEN r ELSE request[c]]
      /\ disk' = [p \in DOMAIN disk \ UNION {W!PathsOf(request[c]) : c \in Uploaders} |-> disk[p]]
      /\ UNCHANGED <<target, inode>>
    BY DEF W!StopDaemon, W!Dropped
<1>. HIDE DEF r
<1>3. DOMAIN disk' = {}
    <2>1. ASSUME NEW p \in DOMAIN disk PROVE p \in UNION {W!PathsOf(request[c]) : c \in Uploaders}
        <3>1. PICK b \in Uploaders : \E x \in DOMAIN request[b].files : request[b].files[x] = p
            BY UploadFields DEF DiskInv, UploadInv
        <3>. QED BY <3>1, PathOwned
    <2>. QED BY <1>2, <2>1
<1>4. DiskInv'
    BY <1>2, <1>3 DEF UploadInv, DiskInv
<1>5. Len(inode) \in Nat /\ Len(inode') = Len(inode)
    BY <1>2, LenProperties DEF UploadInv, DiskInv
<1>6. ASSUME NEW c \in Uploaders PROVE RequestInv(c, request'[c], disk', inode', target')
    <2>1. CASE W!Live(c)
        BY <1>1, <1>2, <1>5, <2>1, EmptyRequest
    <2>2. CASE ~W!Live(c)
        <3>1. request'[c] = request[c] /\ DOMAIN request[c].files = {}
            BY <1>2, <2>2, UploadFields DEF W!Live, Typed
        <3>2. RequestInv(c, request[c], disk, inode, target)
            BY DEF UploadInv
        <3>. QED BY <1>2, <1>5, <3>1, <3>2, OthersKeep
    <2>. QED BY <2>1, <2>2
<1>. QED BY <1>2, <1>4, <1>6 DEF UploadInv

-----------------------------------------------------------------------------
(* The post iterator *)

Put(a, k, vs) == [x \in DOMAIN a \cup {k} |-> IF x = k THEN vs ELSE a[x]]

\* What the iterator starts from.
LEMMA Posting ==
    ASSUME UploadInv, NEW c \in Uploaders, request[c].phase = "posting", request[c].at < Len(Body[c])
    PROVE  /\ request[c].at \in Nat /\ request[c].at + 1 \in 1 .. Len(Body[c]) /\ ~request[c].failed
           /\ request[c].failed = FALSE
           /\ request[c].at + 1 <= Len(Body[c]) /\ request[c].at \in 0 .. Len(Body[c])
<1>1. Typed(c, request[c], inode) /\ Len(Body[c]) \in Nat
    BY UploadFields, UploadFacts
<1>2. request[c].at \in 0 .. Len(Body[c]) /\ request[c].failed \in BOOLEAN /\ ~request[c].failed
    BY <1>1 DEF Typed
<1>3. request[c].failed = FALSE
    BY <1>2
<1>. QED BY <1>1, <1>2, <1>3

LEMMA PutIs ==
    ASSUME NEW a, NEW k, NEW vs
    PROVE  /\ DOMAIN Put(a, k, vs) = DOMAIN a \cup {k} /\ Put(a, k, vs)[k] = vs
           /\ \A j \in DOMAIN a : j # k => Put(a, k, vs)[j] = a[j]
BY DEF Put

LEMMA ValuesTyped ==
    ASSUME UploadInv, NEW c \in Uploaders, NEW k
    PROVE  /\ W!ValuesOf(request[c], k) \in Seq(Seq(Symbols))
           /\ \A j \in DOMAIN request[c].args : request[c].args[j] \in Seq(Seq(Symbols))
<1>1. \A j \in DOMAIN request[c].args : request[c].args[j] \in Seq(Seq(Symbols))
    BY UploadFields DEF Typed
<1>2. <<>> \in Seq(Seq(Symbols))
    OBVIOUS
<1>. QED BY <1>1, <1>2 DEF W!ValuesOf

LEMMA ValuesPut ==
    ASSUME UploadInv, NEW c \in Uploaders, NEW r, NEW k, NEW vs \in Seq(Seq(Symbols)), r.args = Put(request[c].args, k, vs)
    PROVE  /\ W!ValuesOf(r, k) = vs /\ \A j : j # k => W!ValuesOf(r, j) = W!ValuesOf(request[c], j)
           /\ \A j \in DOMAIN r.args : r.args[j] \in Seq(Seq(Symbols))
<1>1. \A j \in DOMAIN request[c].args : request[c].args[j] \in Seq(Seq(Symbols))
    BY ValuesTyped
<1>2. /\ DOMAIN r.args = DOMAIN request[c].args \cup {k} /\ r.args[k] = vs
      /\ \A j \in DOMAIN request[c].args : j # k => r.args[j] = request[c].args[j]
    <2>. DEFINE a == request[c].args
                b == r.args
    <2>1. b = Put(a, k, vs)
        OBVIOUS
    <2>. HIDE DEF a, b
    <2>2. DOMAIN b = DOMAIN a \cup {k} /\ b[k] = vs /\ \A j \in DOMAIN a : j # k => b[j] = a[j]
        BY <2>1, PutIs
    <2>. QED BY <2>2 DEF a, b
<1>3. W!ValuesOf(r, k) = vs
    BY <1>2 DEF W!ValuesOf
<1>4. ASSUME NEW j, j # k PROVE W!ValuesOf(r, j) = W!ValuesOf(request[c], j)
    BY <1>2, <1>4 DEF W!ValuesOf
<1>. QED BY <1>1, <1>2, <1>3, <1>4

\* The values of a field after a call for another one, and after a call for it.
LEMMA ToldNext ==
    ASSUME UploadInv, NEW c \in Uploaders, request[c].phase = "posting", request[c].at < Len(Body[c]),
           NEW r, r.at = request[c].at + 1, NEW k \in W!Keys, W!OnlyField(c, k)
    PROVE  LET e == Body[c][r.at]
               vs == W!ValuesOf(request[c], k)
           IN  /\ e.key # k => SoFar(c, k, vs, r.at)
               /\ e.key = k /\ ~e.more => SoFar(c, k, Append(vs, <<e.data>>), r.at)
               /\ e.key = k /\ e.more =>
                    vs # <<>> /\ SoFar(c, k, [vs EXCEPT ![Len(vs)] = Append(@, e.data)], r.at)
<1>. DEFINE n == request[c].at
            vs == W!ValuesOf(request[c], k)
<1>1. n \in Nat /\ n + 1 <= Len(Body[c]) /\ vs \in Seq(Seq(Symbols))
    BY Posting, ValuesTyped
<1>2. SoFar(c, k, vs, n)
    BY Posting, UploadFields DEF Told
<1>3. r.at = n + 1
    OBVIOUS
<1>. HIDE DEF n, vs
<1>4. /\ Body[c][n + 1].key # k => SoFar(c, k, vs, n + 1)
      /\ Body[c][n + 1].key = k /\ ~Body[c][n + 1].more => SoFar(c, k, Append(vs, <<Body[c][n + 1].data>>), n + 1)
      /\ Body[c][n + 1].key = k /\ Body[c][n + 1].more =>
           vs # <<>> /\ SoFar(c, k, [vs EXCEPT ![Len(vs)] = Append(@, Body[c][n + 1].data)], n + 1)
    BY <1>1, <1>2, ValuesNext
<1>5. /\ Body[c][r.at].key # k => SoFar(c, k, vs, r.at)
      /\ Body[c][r.at].key = k /\ ~Body[c][r.at].more => SoFar(c, k, Append(vs, <<Body[c][r.at].data>>), r.at)
      /\ Body[c][r.at].key = k /\ Body[c][r.at].more =>
           vs # <<>> /\ SoFar(c, k, [vs EXCEPT ![Len(vs)] = Append(@, Body[c][r.at].data)], r.at)
    BY <1>3, <1>4
<1>. QED BY <1>5 DEF vs

LEMMA OneSymbol ==
    ASSUME NEW d \in Symbols, ContentLimit >= 1
    PROVE  W!Cut(<<d>>) = <<d>> /\ <<d>> \in Seq(Symbols)
<1>1. Len(<<d>>) = 1 /\ ContentLimit \in Nat
    BY UploadFacts
<1>2. W!Cut(<<d>>) = SubSeq(<<d>>, 1, 1)
    <2>1. CASE ContentLimit = 1
        BY <1>1, <2>1 DEF W!Cut
    <2>2. CASE 1 < ContentLimit
        BY <1>1, <2>2 DEF W!Cut
    <2>. QED BY <1>1, <2>1, <2>2
<1>3. SubSeq(<<d>>, 1, 1) = <<d>>
    <2>. DEFINE q == <<d>>
    <2>1. q \in Seq(Symbols) /\ Len(q) = 1 /\ \A i \in 1 .. 1 : q[i] \in Symbols
        OBVIOUS
    <2>. HIDE DEF q
    <2>2. SubSeq(q, 1, 1) \in Seq(Symbols) /\ Len(SubSeq(q, 1, 1)) = 1 /\ \A i \in 1 .. 1 : SubSeq(q, 1, 1)[i] = q[i]
        BY <2>1, SubSeqProperties
    <2>3. SubSeq(q, 1, 1) = q
        BY <2>1, <2>2, SeqEqual
    <2>. QED BY <2>3 DEF q
<1>. QED BY <1>2, <1>3

LEMMA ValueAdded ==
    ASSUME NEW vs \in Seq(Seq(Symbols)), NEW w \in Seq(Symbols)
    PROVE  Append(vs, w) \in Seq(Seq(Symbols)) /\ <<w>> \in Seq(Seq(Symbols))
BY AppendProperties

\* A field's call: a new value, or more of the last one.
LEMMA FieldTold ==
    ASSUME UploadInv, ContentLimit >= 1, NEW c \in Uploaders, request[c].phase = "posting",
           request[c].at < Len(Body[c]), NEW r, r.at = request[c].at + 1, NEW vs,
           LET e == Body[c][r.at]
               old == W!ValuesOf(request[c], e.key)
           IN  /\ r.args = Put(request[c].args, e.key, vs)
               /\ vs = IF e.more THEN IF old = <<>> THEN <<<<e.data>>>> ELSE W!Front(old) \o <<Append(W!Last(old), e.data)>>
                       ELSE Append(old, W!Cut(<<e.data>>))
    PROVE  Told(c, r) /\ \A k \in DOMAIN r.args : r.args[k] \in Seq(Seq(Symbols))
<1>. DEFINE e == Body[c][r.at]
            old == W!ValuesOf(request[c], e.key)
<1>1. e.data \in Symbols /\ e.more \in BOOLEAN /\ old \in Seq(Seq(Symbols))
    BY Posting, BodyFacts, ValuesTyped, ZenonT(60)
<1>2. W!Cut(<<e.data>>) = <<e.data>> /\ <<e.data>> \in Seq(Symbols)
    BY <1>1, OneSymbol, ZenonT(60)
<1>3. old # <<>> => /\ W!Front(old) \o <<Append(W!Last(old), e.data)>> = [old EXCEPT ![Len(old)] = Append(@, e.data)]
                    /\ [old EXCEPT ![Len(old)] = Append(@, e.data)] \in Seq(Seq(Symbols))
    <2>. HIDE DEF old, e
    <2>. QED BY <1>1, LastGrows, ZenonT(60)
<1>4. /\ r.args = Put(request[c].args, e.key, vs)
      /\ vs = IF e.more THEN IF old = <<>> THEN <<<<e.data>>>> ELSE W!Front(old) \o <<Append(W!Last(old), e.data)>>
              ELSE Append(old, W!Cut(<<e.data>>))
    OBVIOUS
<1>5. ASSUME NEW k \in W!Keys, W!OnlyField(c, k)
      PROVE  /\ e.key # k => SoFar(c, k, W!ValuesOf(request[c], k), r.at)
             /\ e.key = k /\ ~e.more => SoFar(c, k, Append(old, <<e.data>>), r.at)
             /\ e.key = k /\ e.more =>
                  old # <<>> /\ SoFar(c, k, [old EXCEPT ![Len(old)] = Append(@, e.data)], r.at)
    BY <1>5, ToldNext, ZenonT(60)
<1>. HIDE DEF e, old
<1>6. vs \in Seq(Seq(Symbols))
    <2>1. CASE ~e.more
        <3>1. vs = Append(old, <<e.data>>)
            BY <1>2, <1>4, <2>1, ZenonT(60)
        <3>. QED BY <1>1, <1>2, <3>1, ValueAdded, ZenonT(60)
    <2>2. CASE e.more /\ old = <<>>
        <3>1. vs = <<<<e.data>>>>
            BY <1>4, <2>2, ZenonT(60)
        <3>. QED BY <1>1, <1>2, <3>1, ValueAdded, ZenonT(60)
    <2>3. CASE e.more /\ old # <<>>
        BY <1>1, <1>3, <1>4, <2>3, ZenonT(60)
    <2>. QED BY <1>1, <2>1, <2>2, <2>3, ZenonT(60)
<1>7. /\ W!ValuesOf(r, e.key) = vs /\ \A j : j # e.key => W!ValuesOf(r, j) = W!ValuesOf(request[c], j)
      /\ \A j \in DOMAIN r.args : r.args[j] \in Seq(Seq(Symbols))
    BY <1>4, <1>6, ValuesPut, ZenonT(60)
<1>8. ASSUME NEW k \in W!Keys, W!OnlyField(c, k) PROVE SoFar(c, k, W!ValuesOf(r, k), r.at)
    <2>1. CASE e.key # k
        BY <1>5, <1>7, <1>8, <2>1, ZenonT(60)
    <2>2. CASE e.key = k /\ ~e.more
        BY <1>2, <1>4, <1>5, <1>7, <1>8, <2>2, ZenonT(60)
    <2>3. CASE e.key = k /\ e.more
        BY <1>3, <1>4, <1>5, <1>7, <1>8, <2>3, ZenonT(60)
    <2>. QED BY <1>1, <2>1, <2>2, <2>3, ZenonT(60)
<1>. QED BY <1>7, <1>8, ZenonT(60) DEF Told

\* A file's call tells nothing of a field, whatever it keeps of the file in an argument.
LEMMA FileTold ==
    ASSUME UploadInv, NEW c \in Uploaders, request[c].phase = "posting", request[c].at < Len(Body[c]),
           NEW r, r.at = request[c].at + 1, Body[c][r.at].file # W!None, NEW vs,
           \/ r.args = request[c].args
           \/ vs \in Seq(Seq(Symbols)) /\ r.args = Put(request[c].args, Body[c][r.at].key, vs)
    PROVE  Told(c, r) /\ \A k \in DOMAIN r.args : r.args[k] \in Seq(Seq(Symbols))
<1>. DEFINE e == Body[c][r.at]
<1>1. r.at \in DOMAIN Body[c]
    BY Posting, UploadFacts
<1>2. ASSUME NEW k \in W!Keys, W!OnlyField(c, k) PROVE e.key # k /\ SoFar(c, k, W!ValuesOf(request[c], k), r.at)
    <2>1. e.key # k
        BY <1>1, <1>2 DEF W!OnlyField
    <2>. QED BY <1>2, <2>1, ToldNext
<1>3. /\ \A k : k # e.key => W!ValuesOf(r, k) = W!ValuesOf(request[c], k)
      /\ \A k \in DOMAIN r.args : r.args[k] \in Seq(Seq(Symbols))
    <2>1. CASE r.args = request[c].args
        BY <2>1, ValuesTyped DEF W!ValuesOf
    <2>2. CASE vs \in Seq(Seq(Symbols)) /\ r.args = Put(request[c].args, e.key, vs)
        <3>. DEFINE k == e.key
        <3>1. vs \in Seq(Seq(Symbols)) /\ r.args = Put(request[c].args, k, vs)
            BY <2>2
        <3>. HIDE DEF e, k
        <3>2. /\ W!ValuesOf(r, k) = vs /\ \A j : j # k => W!ValuesOf(r, j) = W!ValuesOf(request[c], j)
              /\ \A j \in DOMAIN r.args : r.args[j] \in Seq(Seq(Symbols))
            BY <3>1, ValuesPut
        <3>. QED BY <3>2 DEF k
    <2>. QED BY <2>1, <2>2
<1>. QED BY <1>2, <1>3 DEF Told

LEMMA FlatTyped ==
    ASSUME UploadInv, NEW c \in Uploaders, NEW k, NEW d \in Symbols
    PROVE  LET vs == W!ValuesOf(request[c], k)
           IN  <<W!Cut((IF vs = <<>> THEN <<>> ELSE vs[1]) \o <<d>>)>> \in Seq(Seq(Symbols))
<1>. DEFINE vs == W!ValuesOf(request[c], k)
            first == IF vs = <<>> THEN <<>> ELSE vs[1]
            v == first \o <<d>>
            m == IF Len(v) < ContentLimit THEN Len(v) ELSE ContentLimit
<1>1. vs \in Seq(Seq(Symbols))
    BY ValuesTyped
<1>. HIDE DEF vs
<1>2. first \in Seq(Symbols)
    <2>1. CASE vs = <<>>
        BY <2>1
    <2>2. CASE vs # <<>>
        <3>1. Len(vs) \in Nat /\ Len(vs) # 0
            BY <1>1, <2>2, LenProperties, EmptySeq
        <3>2. 1 \in 1 .. Len(vs)
            BY <3>1
        <3>. QED BY <1>1, <2>2, <3>2, ElementOfSeq
    <2>. QED BY <2>1, <2>2
<1>. HIDE DEF first
<1>3. v \in Seq(Symbols) /\ Len(v) \in Nat
    <2>1. <<d>> \in Seq(Symbols)
        OBVIOUS
    <2>. QED BY <1>2, <2>1, ConcatProperties, LenProperties
<1>. HIDE DEF v
<1>4. m \in 0 .. Len(v)
    BY <1>3, UploadFacts
<1>5. SubSeq(v, 1, m) \in Seq(Symbols)
    <2>. HIDE DEF m
    <2>1. \A i \in 1 .. m : i \in 1 .. Len(v)
        BY <1>3, <1>4
    <2>2. \A i \in 1 .. m : v[i] \in Symbols
        BY <1>3, <2>1, ElementOfSeq
    <2>. QED BY <1>3, <1>4, <2>2, SubSeqProperties
<1>6. W!Cut(v) \in Seq(Symbols)
    BY <1>5 DEF W!Cut
<1>. QED BY <1>6 DEF v, first, vs

\* The symbols of a file after one more call.
LEMMA FileNext ==
    ASSUME UploadInv, NEW c \in Uploaders, request[c].phase = "posting", request[c].at < Len(Body[c]),
           NEW n, n = request[c].at + 1, NEW x, NEW q \in Seq(Symbols),
           W!Sent(q, c, W!Upto(W!FileCalls(c, x), request[c].at))
    PROVE  /\ <<Body[c][n].key, Body[c][n].file>> # x => W!Sent(q, c, W!Upto(W!FileCalls(c, x), n))
           /\ <<Body[c][n].key, Body[c][n].file>> = x => W!Sent(Append(q, Body[c][n].data), c, W!Upto(W!FileCalls(c, x), n))
<1>. DEFINE is == W!FileCalls(c, x)
            m == request[c].at
<1>1. m \in Nat /\ m + 1 \in 1 .. Len(Body[c]) /\ m + 1 <= Len(Body[c]) /\ n = m + 1
    BY Posting
<1>2. is \in SUBSET (1 .. Len(Body[c])) /\ (m + 1 \in is <=> <<Body[c][m + 1].key, Body[c][m + 1].file>> = x)
    <2>1. DOMAIN Body[c] = 1 .. Len(Body[c])
        BY UploadFacts
    <2>. HIDE DEF m
    <2>. QED BY <1>1, <2>1 DEF W!FileCalls
<1>. HIDE DEF is, m
<1>3. /\ m + 1 \notin is => W!Sent(q, c, W!Upto(is, m + 1))
      /\ m + 1 \in is => W!Sent(Append(q, Body[c][m + 1].data), c, W!Upto(is, m + 1))
    <2>1. W!Sent(q, c, W!Upto(is, m))
        BY DEF is, m
    <2>. QED BY <1>1, <1>2, <2>1, SentNext
<1>. QED BY <1>1, <1>2, <1>3 DEF is

\* A call that changes one argument, and no file.
ArgSet(q, k, vs, t) == t = [W!WithArg(q, k, vs) EXCEPT !.at = q.at + 1]

LEMMA ArgStep ==
    ASSUME NEW q, Shape(q), NEW k, NEW vs, NEW t, ArgSet(q, k, vs, t)
    PROVE  /\ Shape(t) /\ t.args = Put(q.args, k, vs) /\ t.at = q.at + 1
           /\ t.phase = q.phase /\ t.files = q.files /\ t.stream = q.stream
           /\ t.ukey = q.ukey /\ t.ufile = q.ufile /\ t.failed = q.failed
<1>. DEFINE a == Put(q.args, k, vs)
            F == {q.files}
            K == {q.ukey}
            U == {q.ufile}
            s == [q EXCEPT !.args = a]
            r == [s EXCEPT !.at = q.at + 1]
<1>1. q \in Record({q.args}, F, K, U)
    BY DEF Shape
<1>2. W!WithArg(q, k, vs) = s
    BY DEF W!WithArg, Put
<1>. HIDE DEF a, F, K, U
<1>3. s \in Record({a}, F, K, U) /\ s.args = a /\ s.at = q.at /\ s.phase = q.phase /\ s.stream = q.stream /\ s.failed = q.failed
    BY <1>1 DEF Record
<1>4. s.at \in Nat
    BY <1>3 DEF Record
<1>. HIDE DEF s
<1>5. r \in Record({a}, F, K, U)
    BY <1>3, <1>4 DEF Record
<1>6. r.at = s.at + 1 /\ r.phase = s.phase /\ r.stream = s.stream /\ r.failed = s.failed
    BY <1>3, <1>4 DEF Record
<1>. HIDE DEF r
<1>7. r.args = a /\ r.files \in F /\ r.ukey \in K /\ r.ufile \in U /\ Shape(r)
    BY <1>5, ShapeIs, ZenonT(60) DEF Record
<1>8. r.files = q.files /\ r.ukey = q.ukey /\ r.ufile = q.ufile
    BY <1>7 DEF F, K, U
<1>9. t = r
    BY <1>2 DEF r, ArgSet
<1>. QED BY <1>3, <1>6, <1>7, <1>8, <1>9 DEF a

\* What such a call keeps when the argument is right.
LEMMA ArgKeeps ==
    ASSUME UploadInv, NEW c \in Uploaders, request[c].phase = "posting", request[c].at < Len(Body[c]),
           NEW r, request' = [request EXCEPT ![c] = r], UNCHANGED <<target, disk, inode>>, ControlTypes',
           Shape(r), r.at = request[c].at + 1, r.phase = request[c].phase, r.files = request[c].files,
           r.stream = request[c].stream, r.ukey = request[c].ukey, r.ufile = request[c].ufile,
           r.failed = request[c].failed, Told(c, r), \A k \in DOMAIN r.args : r.args[k] \in Seq(Seq(Symbols)),
           Body[c][r.at].file = W!None \/ (DOMAIN r.files = {} /\ ~W!OnDisk(target))
    PROVE  UploadInv'
<1>0. /\ request[c].at \in Nat /\ request[c].at + 1 \in 1 .. Len(Body[c]) /\ Len(Body[c]) \in Nat
      /\ request[c].failed = FALSE
    BY Posting, UploadFacts
<1>1. r.at \in 0 .. Len(Body[c]) /\ r.failed = FALSE
    <2>. DEFINE n == request[c].at
                l == Len(Body[c])
    <2>1. n \in Nat /\ n + 1 \in 1 .. l /\ l \in Nat
        BY <1>0
    <2>. HIDE DEF n, l
    <2>2. n + 1 \in 0 .. l
        BY <2>1
    <2>. QED BY <1>0, <2>2 DEF n, l
<1>2. Typed(c, r, inode)
    BY <1>1, UploadFields DEF Typed
<1>3. Kept(c, r, disk) /\ Opened(r, disk)
    BY UploadFields, ZenonT(60) DEF Kept, Opened
<1>4. Written(c, r, disk, inode, target)
    <2>1. ASSUME NEW x \in DOMAIN r.files
          PROVE  W!Sent(inode[disk[r.files[x]]], c, W!Upto(W!FileCalls(c, x), r.at))
        <3>1. r.files[x] \in DOMAIN disk /\ x[2] # W!None
            BY <1>1, UploadFields DEF Kept
        <3>2. inode[disk[r.files[x]]] \in Seq(Symbols)
            BY <3>1, UploadFields, ElementOfSeq DEF DiskInv
        <3>3. W!Sent(inode[disk[r.files[x]]], c, W!Upto(W!FileCalls(c, x), request[c].at))
            BY <1>1, UploadFields DEF Written
        <3>4. <<Body[c][r.at].key, Body[c][r.at].file>> # x
            BY <3>1, <2>1
        <3>. QED BY <3>2, <3>3, <3>4, FileNext
    <2>2. ASSUME W!OnDisk(target), NEW i \in 1 .. r.at, Body[c][i].file # W!None
          PROVE  <<Body[c][i].key, Body[c][i].file>> \in DOMAIN r.files
        <3>1. i # r.at
            BY <2>2
        <3>2. i \in 1 .. request[c].at
            <4>. DEFINE n == request[c].at
            <4>1. n \in Nat /\ i \in 1 .. n + 1 /\ i # n + 1
                BY <1>0, <2>2, <3>1
            <4>. HIDE DEF n
            <4>2. i \in 1 .. n
                BY <4>1
            <4>. QED BY <4>2 DEF n
        <3>. QED BY <1>1, <2>2, <3>2, UploadFields DEF Written
    <2>3. ~W!OnDisk(target) => DOMAIN r.files = {}
        BY <1>1, UploadFields DEF Written
    <2>. QED BY <2>1, <2>2, <2>3 DEF Written
<1>5. RequestInv(c, r, disk', inode', target)
    BY <1>2, <1>3, <1>4 DEF RequestInv
<1>6. DiskInv'
    <2>1. request'[c] = r /\ \A b \in Uploaders \ {c} : request'[b] = request[b]
        BY DEF UploadInv
    <2>2. \A b \in Uploaders : request'[b].files = request[b].files
        BY <2>1
    <2>3. \A p \in DOMAIN disk' : \E b \in Uploaders : \E x \in DOMAIN request'[b].files : request'[b].files[x] = p
        <3>1. \A p \in DOMAIN disk : \E b \in Uploaders : \E x \in DOMAIN request[b].files : request[b].files[x] = p
            BY UploadFields DEF DiskInv
        <3>. QED BY <2>2, <3>1
    <2>. QED BY <2>3, UploadFields, ZenonT(60) DEF DiskInv
<1>7. Len(inode) <= Len(inode')
    BY UploadFields, LenProperties
<1>. QED BY <1>5, <1>6, <1>7, RequestReplaced

LEMMA FieldKeeps ==
    ASSUME UploadInv, ContentLimit >= 1, NEW c \in Uploaders, request[c].phase = "posting",
           request[c].at < Len(Body[c]), NEW e, e = Body[c][request[c].at + 1], e.file = W!None,
           W!IterateField(c, e), target' = target, ControlTypes'
    PROVE  UploadInv'
<1>. DEFINE q == request[c]
            old == W!ValuesOf(q, e.key)
            vs == IF e.more THEN IF old = <<>> THEN <<<<e.data>>>> ELSE W!Front(old) \o <<Append(W!Last(old), e.data)>>
                  ELSE Append(old, W!Cut(<<e.data>>))
            r == [W!WithArg(q, e.key, vs) EXCEPT !.at = q.at + 1]
<1>1. (IF e.more THEN W!GrowLastArg(q, e) ELSE W!SetArg(q, e)) = W!WithArg(q, e.key, vs)
    BY DEF W!GrowLastArg, W!SetArg
<1>2. request' = [request EXCEPT ![c] = r] /\ UNCHANGED <<disk, inode>>
    <2>1. request' = [request EXCEPT ![c] = [(IF e.more THEN W!GrowLastArg(q, e) ELSE W!SetArg(q, e)) EXCEPT !.at = q.at + 1]]
        BY DEF W!IterateField
    <2>. QED BY <1>1, <2>1, ZenonT(60) DEF W!IterateField
<1>3. Shape(q)
    BY UploadFields
<1>. HIDE DEF vs
<1>4. /\ Shape(r) /\ r.args = Put(q.args, e.key, vs) /\ r.at = q.at + 1
      /\ r.phase = q.phase /\ r.files = q.files /\ r.stream = q.stream
      /\ r.ukey = q.ukey /\ r.ufile = q.ufile /\ r.failed = q.failed
    <2>1. ArgSet(q, e.key, vs, r)
        BY DEF ArgSet
    <2>. HIDE DEF q, r
    <2>. QED BY <1>3, <2>1, ArgStep
<1>. HIDE DEF r
<1>5. Told(c, r) /\ \A k \in DOMAIN r.args : r.args[k] \in Seq(Seq(Symbols))
    BY <1>4, FieldTold, ZenonT(60) DEF vs
<1>. QED BY <1>2, <1>4, <1>5, ArgKeeps

LEMMA MemoryKeeps ==
    ASSUME UploadInv, NEW c \in Uploaders, request[c].phase = "posting",
           request[c].at < Len(Body[c]), NEW e, e = Body[c][request[c].at + 1], e.file # W!None, ~W!OnDisk(target),
           W!IterateMemory(c, e), target' = target, ControlTypes'
    PROVE  UploadInv'
<1>. DEFINE q == request[c]
            old == W!ValuesOf(q, e.key)
            vs == <<W!Cut((IF old = <<>> THEN <<>> ELSE old[1]) \o <<e.data>>)>>
            r == [W!WithArg(q, e.key, vs) EXCEPT !.at = q.at + 1]
<1>1. W!SetArgFlat(q, e) = W!WithArg(q, e.key, vs)
    BY DEF W!SetArgFlat
<1>2. request' = [request EXCEPT ![c] = r] /\ UNCHANGED <<disk, inode>>
    <2>1. request' = [request EXCEPT ![c] = [W!SetArgFlat(q, e) EXCEPT !.at = q.at + 1]]
        BY DEF W!IterateMemory
    <2>. QED BY <1>1, <2>1, ZenonT(60) DEF W!IterateMemory
<1>3. Shape(q) /\ ~q.failed
    BY UploadFields, Posting
<1>6. vs \in Seq(Seq(Symbols))
    BY Posting, BodyFacts, FlatTyped
<1>7. DOMAIN q.files = {}
    BY <1>3, UploadFields DEF Written
<1>. HIDE DEF vs
<1>4. /\ Shape(r) /\ r.args = Put(q.args, e.key, vs) /\ r.at = q.at + 1
      /\ r.phase = q.phase /\ r.files = q.files /\ r.stream = q.stream
      /\ r.ukey = q.ukey /\ r.ufile = q.ufile /\ r.failed = q.failed
    <2>1. ArgSet(q, e.key, vs, r)
        BY DEF ArgSet
    <2>. HIDE DEF q, r
    <2>. QED BY <1>3, <2>1, ArgStep
<1>. HIDE DEF r
<1>5. Told(c, r) /\ \A k \in DOMAIN r.args : r.args[k] \in Seq(Seq(Symbols))
    BY <1>4, <1>6, FileTold
<1>. QED BY <1>2, <1>4, <1>5, <1>7, ArgKeeps

\* What a file's call keeps of it in an argument.
LEMMA ToldIs ==
    ASSUME UploadInv, NEW c \in Uploaders, request[c].phase = "posting", request[c].at < Len(Body[c]),
           NEW e, e = Body[c][request[c].at + 1]
    PROVE  LET q == request[c]
               heard == IF W!InMemory(target) THEN W!SetArgFlat(q, e) ELSE q
           IN  /\ Shape(heard) /\ heard.phase = q.phase /\ heard.stream = q.stream /\ heard.files = q.files
               /\ heard.ukey = q.ukey /\ heard.ufile = q.ufile /\ heard.failed = FALSE
               /\ \E vs : \/ heard.args = q.args
                          \/ vs \in Seq(Seq(Symbols)) /\ heard.args = Put(q.args, e.key, vs)
<1>. DEFINE q == request[c]
            old == W!ValuesOf(q, e.key)
            vs == <<W!Cut((IF old = <<>> THEN <<>> ELSE old[1]) \o <<e.data>>)>>
            a == Put(q.args, e.key, vs)
            s == [q EXCEPT !.args = a]
            F == {q.files}
            K == {q.ukey}
            U == {q.ufile}
<1>1. W!SetArgFlat(q, e) = s
    BY DEF W!SetArgFlat, W!WithArg, Put
<1>2. vs \in Seq(Seq(Symbols))
    BY Posting, BodyFacts, FlatTyped
<1>3. q \in Record({q.args}, F, K, U) /\ Shape(q) /\ q.failed = FALSE
    BY UploadFields, Posting DEF Shape
<1>4. Shape(s) /\ s.args = a /\ s.phase = q.phase /\ s.stream = q.stream /\ s.files = q.files
      /\ s.ukey = q.ukey /\ s.ufile = q.ufile /\ s.failed = FALSE
    <2>. HIDE DEF a, F, K, U, q
    <2>1. s \in Record({a}, F, K, U) /\ s.args = a /\ s.phase = q.phase /\ s.stream = q.stream /\ s.failed = q.failed
        BY <1>3 DEF Record
    <2>. HIDE DEF s
    <2>2. Shape(s) /\ s.files \in F /\ s.ukey \in K /\ s.ufile \in U
        <3>1. Shape(s)
            BY <2>1, ShapeIs
        <3>2. s.files \in F /\ s.ukey \in K /\ s.ufile \in U
            BY <2>1 DEF Record
        <3>. QED BY <3>1, <3>2
    <2>3. s.files = q.files /\ s.ukey = q.ukey /\ s.ufile = q.ufile
        BY <2>2 DEF F, K, U
    <2>. QED BY <1>3, <2>1, <2>2, <2>3
<1>. HIDE DEF q, vs, s
<1>5. CASE W!InMemory(target)
    BY <1>1, <1>2, <1>4, <1>5 DEF q, a
<1>6. CASE ~W!InMemory(target)
    BY <1>3, <1>6 DEF q
<1>. QED BY <1>5, <1>6

\* The name could not be made: the body is dropped, and the request knows no path.
LEMMA NameFailsKeeps ==
    ASSUME UploadInv, NEW c \in Uploaders, request[c].phase = "posting", request[c].at < Len(Body[c]),
           NEW e, e = Body[c][request[c].at + 1], e.file # W!None,
           W!NameFails(c, e), target' = target, ControlTypes'
    PROVE  UploadInv'
<1>. DEFINE q == request[c]
            x == <<e.key, e.file>>
            heard == IF W!InMemory(target) THEN W!SetArgFlat(q, e) ELSE q
            fs == [y \in DOMAIN q.files \cup {x} |-> IF y = x THEN W!NoPath ELSE q.files[y]]
            r == [heard EXCEPT !.at = Len(Body[c]), !.failed = TRUE, !.files = fs]
            K == {q.ukey}
            U == {q.ufile}
<1>1. /\ x \notin DOMAIN q.files /\ request' = [request EXCEPT ![c] = r] /\ UNCHANGED <<disk, inode>>
    BY DEF W!NameFails
<1>2. /\ Shape(heard) /\ heard.phase = q.phase /\ heard.stream = q.stream /\ heard.files = q.files
      /\ heard.ukey = q.ukey /\ heard.ufile = q.ufile /\ heard.failed = FALSE
    BY ToldIs
<1>3. PICK vs : \/ heard.args = q.args
                \/ vs \in Seq(Seq(Symbols)) /\ heard.args = Put(q.args, e.key, vs)
    BY ToldIs, ZenonT(60)
<1>4. \A k \in DOMAIN heard.args : heard.args[k] \in Seq(Seq(Symbols))
    <2>. DEFINE n == q.at + 1
    <2>. HIDE DEF heard
    <2>1. CASE heard.args = q.args
        BY <2>1, ValuesTyped
    <2>2. CASE vs \in Seq(Seq(Symbols)) /\ heard.args = Put(q.args, e.key, vs)
        <3>. DEFINE k == e.key
        <3>1. vs \in Seq(Seq(Symbols)) /\ heard.args = Put(request[c].args, k, vs)
            BY <2>2
        <3>. HIDE DEF k
        <3>2. /\ W!ValuesOf(heard, k) = vs /\ \A j : j # k => W!ValuesOf(heard, j) = W!ValuesOf(request[c], j)
              /\ \A j \in DOMAIN heard.args : heard.args[j] \in Seq(Seq(Symbols))
            BY <3>1, ValuesPut
        <3>. QED BY <3>2
    <2>. QED BY <1>3, <2>1, <2>2
<1>. HIDE DEF heard, fs
<1>5. /\ Shape(r) /\ r.phase = q.phase /\ r.stream = q.stream /\ r.files = fs /\ r.ukey = q.ukey
      /\ r.ufile = q.ufile /\ r.failed = TRUE /\ r.at = Len(Body[c]) /\ r.args = heard.args
    <2>0. Len(Body[c]) \in Nat
        BY UploadFacts
    <2>. DEFINE l == Len(Body[c])
                A == {heard.args}
    <2>1. heard \in Record(A, {heard.files}, K, U) /\ l \in Nat
        BY <1>2, <2>0 DEF Shape
    <2>. HIDE DEF q, K, U, A, l
    <2>2. [heard EXCEPT !.at = l, !.failed = TRUE, !.files = fs] \in Record(A, {fs}, K, U)
        BY <2>1 DEF Record
    <2>3. /\ [heard EXCEPT !.at = l, !.failed = TRUE, !.files = fs].phase = heard.phase
          /\ [heard EXCEPT !.at = l, !.failed = TRUE, !.files = fs].stream = heard.stream
          /\ [heard EXCEPT !.at = l, !.failed = TRUE, !.files = fs].failed = TRUE
          /\ [heard EXCEPT !.at = l, !.failed = TRUE, !.files = fs].at = l
        BY <2>1 DEF Record
    <2>4. r = [heard EXCEPT !.at = l, !.failed = TRUE, !.files = fs]
        BY DEF l
    <2>. HIDE DEF r
    <2>5. r \in Record(A, {fs}, K, U)
        BY <2>2, <2>4
    <2>6. Shape(r) /\ r.args \in A /\ r.files = fs /\ r.ukey \in K /\ r.ufile \in U
        <3>1. Shape(r)
            BY <2>5, ShapeIs
        <3>2. r.args \in A /\ r.files \in {fs} /\ r.ukey \in K /\ r.ufile \in U
            BY <2>5 DEF Record
        <3>. QED BY <3>1, <3>2
    <2>7. r.phase = heard.phase /\ r.stream = heard.stream /\ r.failed = TRUE /\ r.at = l
        BY <2>3, <2>4
    <2>. QED BY <1>2, <2>6, <2>7 DEF A, K, U, l
<1>. HIDE DEF r
<1>6. /\ DOMAIN r.files = DOMAIN q.files \cup {x} /\ r.files[x] = W!NoPath
      /\ \A y \in DOMAIN q.files : r.files[y] = q.files[y]
    BY <1>1, <1>5, ZenonT(60) DEF fs
<1>7. Typed(c, r, inode)
    <2>1. Len(Body[c]) \in 0 .. Len(Body[c]) /\ q.stream \in 0 .. Len(inode)
        BY UploadFacts, UploadFields DEF Typed
    <2>. QED BY <1>4, <1>5, <2>1 DEF Typed
<1>8. Kept(c, r, disk)
    <2>1. x = <<x[1], x[2]>> /\ x[2] # W!None
        OBVIOUS
    <2>2. ASSUME NEW y \in DOMAIN q.files
          PROVE  /\ y = <<y[1], y[2]>> /\ y[2] # W!None
                 /\ \/ r.files[y] = <<c, y[1], y[2]>> /\ r.files[y] \in DOMAIN disk
                    \/ r.files[y] = W!NoPath
        BY <1>6, UploadFields DEF Kept
    <2>. HIDE DEF x
    <2>. QED BY <1>5, <1>6, <2>1, <2>2 DEF Kept
<1>9. Opened(r, disk)
    <2>. HIDE DEF x
    <2>. QED BY <1>5, <1>6, UploadFields, ZenonT(60) DEF Opened
<1>10. Written(c, r, disk, inode, target) /\ Told(c, r)
    BY <1>5 DEF Written, Told
<1>11. RequestInv(c, r, disk', inode', target)
    BY <1>1, <1>7, <1>8, <1>9, <1>10 DEF RequestInv
<1>12. DiskInv'
    <2>1. request'[c] = r /\ \A b \in Uploaders \ {c} : request'[b] = request[b]
        BY <1>1 DEF UploadInv
    <2>2. ASSUME NEW p \in DOMAIN disk' PROVE \E b \in Uploaders : \E y \in DOMAIN request'[b].files : request'[b].files[y] = p
        <3>. HIDE DEF x
        <3>1. PICK b \in Uploaders : \E y \in DOMAIN request[b].files : request[b].files[y] = p
            BY <1>1, UploadFields DEF DiskInv
        <3>. QED BY <1>6, <2>1, <3>1
    <2>. QED BY <1>1, <2>2, UploadFields, ZenonT(60) DEF DiskInv
<1>13. Len(inode) <= Len(inode')
    BY <1>1, UploadFields, LenProperties
<1>. QED BY <1>1, <1>11, <1>12, <1>13, RequestReplaced

\* The contents after a write to a file that is there, and to a new one.
LEMMA WriteGrows ==
    ASSUME NEW n \in Seq(Seq(Symbols)), NEW m \in 1 .. Len(n), NEW d \in Symbols,
           NEW r, r = [n EXCEPT ![m] = Append(@, d)]
    PROVE  /\ r \in Seq(Seq(Symbols)) /\ Len(r) = Len(n) /\ r[m] = Append(n[m], d)
           /\ n[m] \in Seq(Symbols) /\ \A i \in 1 .. Len(n) : i # m => r[i] = n[i]
<1>1. n[m] \in Seq(Symbols)
    BY ElementOfSeq
<1>2. Append(n[m], d) \in Seq(Symbols)
    BY <1>1, AppendProperties
<1>3. DOMAIN n = 1 .. Len(n)
    BY LenProperties
<1>4. [n EXCEPT ![m] = Append(@, d)] \in Seq(Seq(Symbols)) /\ Len([n EXCEPT ![m] = Append(@, d)]) = Len(n)
    BY <1>2, <1>3, ExceptSeq
<1>. QED BY <1>1, <1>3, <1>4

LEMMA WriteStarts ==
    ASSUME NEW n \in Seq(Seq(Symbols)), NEW m, m = Len(n) + 1, NEW d \in Symbols
    PROVE  LET r == [Append(n, <<>>) EXCEPT ![m] = Append(@, d)]
           IN  /\ r \in Seq(Seq(Symbols)) /\ Len(r) = m /\ r[m] = <<d>>
               /\ \A i \in 1 .. Len(n) : i # m => r[i] = n[i]
<1>. DEFINE a == Append(n, <<>>)
<1>1. <<>> \in Seq(Symbols) /\ Len(n) \in Nat
    BY LenProperties
<1>2. /\ a \in Seq(Seq(Symbols)) /\ Len(a) = Len(n) + 1 /\ a[Len(n) + 1] = <<>>
      /\ \A i \in 1 .. Len(n) : a[i] = n[i]
    BY <1>1, AppendProperties
<1>. HIDE DEF a
<1>3. m \in 1 .. Len(a) /\ \A i \in 1 .. Len(n) : i \in 1 .. Len(a)
    BY <1>1, <1>2
<1>5. Append(<<>>, d) = <<d>>
    OBVIOUS
<1>. DEFINE r == [a EXCEPT ![m] = Append(@, d)]
<1>4. r = [a EXCEPT ![m] = Append(@, d)]
    OBVIOUS
<1>. HIDE DEF r
<1>6. /\ r \in Seq(Seq(Symbols)) /\ Len(r) = Len(a) /\ r[m] = Append(a[m], d)
      /\ a[m] \in Seq(Symbols) /\ \A i \in 1 .. Len(a) : i # m => r[i] = a[i]
    <2>1. a \in Seq(Seq(Symbols)) /\ m \in 1 .. Len(a)
        BY <1>2, <1>3
    <2>. QED BY <2>1, <1>4, WriteGrows
<1>7. r \in Seq(Seq(Symbols)) /\ Len(r) = m /\ r[m] = <<d>> /\ \A i \in 1 .. Len(n) : i # m => r[i] = n[i]
    BY <1>2, <1>3, <1>5, <1>6
<1>. QED BY <1>7 DEF r, a

\* A random path is nobody's.
LEMMA NewPath ==
    ASSUME UploadInv, NEW c \in Uploaders, NEW k, NEW f, <<k, f>> \notin DOMAIN request[c].files
    PROVE  <<c, k, f>> \notin DOMAIN disk
<1>1. SUFFICES ASSUME <<c, k, f>> \in DOMAIN disk PROVE FALSE
    OBVIOUS
<1>2. PICK b \in Uploaders : \E x \in DOMAIN request[b].files : request[b].files[x] = <<c, k, f>>
    BY <1>1, UploadFields DEF DiskInv
<1>3. PICK x \in DOMAIN request[b].files : request[b].files[x] = <<c, k, f>>
    BY <1>2
<1>4. <<c, k, f>> = <<b, x[1], x[2]>> /\ x = <<x[1], x[2]>>
    BY <1>1, <1>3, PathOwned
<1>5. b = c /\ x[1] = k /\ x[2] = f
    BY <1>4
<1>6. x = <<k, f>>
    BY <1>4, <1>5
<1>. QED BY <1>3, <1>5, <1>6

\* A write of c's symbol d for the key k and the file name f: it is the last of file m, which is behind
\* the path, and every other file is as it was.
Landed(c, k, f, d, path, m) ==
    /\ path = <<c, k, f>> /\ m \in 1 .. Len(inode') /\ Len(inode) <= Len(inode') /\ inode' \in Seq(Seq(Symbols))
    /\ disk' = [p \in DOMAIN disk' |-> disk'[p]] /\ DOMAIN disk' = DOMAIN disk \cup {path} /\ disk'[path] = m
    /\ \A p \in DOMAIN disk : p # path => disk'[p] = disk[p] /\ disk[p] # m
    /\ \A i \in 1 .. Len(inode) : i # m => inode'[i] = inode[i]
    /\ <<k, f>> \notin DOMAIN request[c].files => inode'[m] = <<d>>
    /\ <<k, f>> \in DOMAIN request[c].files =>
         /\ request[c].files[<<k, f>>] = path /\ path \in DOMAIN disk
         /\ inode'[m] = Append(inode[disk[path]], d) /\ inode[disk[path]] \in Seq(Symbols)

LEMMA StoredNew ==
    ASSUME UploadInv, RandomNames, NEW c \in Uploaders, NEW k, NEW f, NEW d \in Symbols,
           <<k, f>> \notin DOMAIN request[c].files, NEW path, path = W!Path(c, k, f),
           NEW m, m = Len(inode) + 1,
           disk' = [p \in DOMAIN disk \cup {path} |-> IF p = path THEN m ELSE disk[p]],
           inode' = [Append(inode, <<>>) EXCEPT ![m] = Append(@, d)]
    PROVE  Landed(c, k, f, d, path, m)
<1>1. path = <<c, k, f>> /\ path \notin DOMAIN disk
    BY NewPath DEF W!Path
<1>2. inode \in Seq(Seq(Symbols)) /\ Len(inode) \in Nat /\ DOMAIN inode = 1 .. Len(inode)
    BY UploadFields, LenProperties
<1>3. /\ inode' \in Seq(Seq(Symbols)) /\ Len(inode') = m /\ inode'[m] = <<d>>
      /\ \A i \in 1 .. Len(inode) : i # m => inode'[i] = inode[i]
    BY <1>2, WriteStarts
<1>4. \A p \in DOMAIN disk : disk[p] \in 1 .. Len(inode)
    BY <1>2, UploadFields DEF DiskInv
<1>5. m \in 1 .. Len(inode') /\ Len(inode) <= Len(inode') /\ \A i \in 1 .. Len(inode) : i # m
    BY <1>2, <1>3
<1>6. /\ disk' = [p \in DOMAIN disk' |-> disk'[p]] /\ DOMAIN disk' = DOMAIN disk \cup {path} /\ disk'[path] = m
      /\ \A p \in DOMAIN disk : p # path => disk'[p] = disk[p]
    OBVIOUS
<1>. QED BY <1>1, <1>3, <1>4, <1>5, <1>6 DEF Landed

LEMMA StoredOld ==
    ASSUME UploadInv, NEW c \in Uploaders, NEW k, NEW f, NEW d \in Symbols,
           <<k, f>> \in DOMAIN request[c].files, NEW path, path = request[c].files[<<k, f>>], path \in DOMAIN disk,
           NEW m, m = disk[path], disk' = disk, inode' = [inode EXCEPT ![m] = Append(@, d)]
    PROVE  Landed(c, k, f, d, path, m)
<1>1. path = <<c, k, f>>
    <2>1. path = <<c, <<k, f>>[1], <<k, f>>[2]>>
        BY PathOwned
    <2>. QED BY <2>1
<1>2. inode \in Seq(Seq(Symbols)) /\ Len(inode) \in Nat /\ m \in 1 .. Len(inode)
    BY UploadFields, LenProperties DEF DiskInv
<1>3. /\ inode' \in Seq(Seq(Symbols)) /\ Len(inode') = Len(inode) /\ inode'[m] = Append(inode[m], d)
      /\ inode[m] \in Seq(Symbols) /\ \A i \in 1 .. Len(inode) : i # m => inode'[i] = inode[i]
    <2>. DEFINE n == inode
                r == [n EXCEPT ![m] = Append(@, d)]
    <2>1. n \in Seq(Seq(Symbols)) /\ m \in 1 .. Len(n)
        BY <1>2
    <2>2. inode' = r
        OBVIOUS
    <2>. HIDE DEF n
    <2>3. r = [n EXCEPT ![m] = Append(@, d)]
        OBVIOUS
    <2>. HIDE DEF r
    <2>4. /\ r \in Seq(Seq(Symbols)) /\ Len(r) = Len(n) /\ r[m] = Append(n[m], d)
          /\ n[m] \in Seq(Symbols) /\ \A i \in 1 .. Len(n) : i # m => r[i] = n[i]
        BY <2>1, <2>3, WriteGrows
    <2>. QED BY <2>2, <2>4 DEF n
<1>4. \A p \in DOMAIN disk : p # path => disk[p] # m
    BY UploadFields DEF DiskInv
<1>5. disk' = [p \in DOMAIN disk' |-> disk'[p]] /\ DOMAIN disk' = DOMAIN disk \cup {path} /\ disk'[path] = m
    BY UploadFields DEF DiskInv
<1>6. m \in 1 .. Len(inode') /\ Len(inode) <= Len(inode')
    <2>. DEFINE n == Len(inode)
    <2>1. n \in Nat /\ m \in 1 .. n /\ Len(inode') = n
        BY <1>2, <1>3, Zenon
    <2>. HIDE DEF n
    <2>2. n <= n
        BY <2>1
    <2>. QED BY <2>1, <2>2, Zenon DEF n
<1>7. inode'[m] = Append(inode[disk[path]], d) /\ inode[disk[path]] \in Seq(Symbols)
    BY <1>3
<1>8. \A p \in DOMAIN disk : p # path => disk'[p] = disk[p]
    OBVIOUS
<1>. QED BY <1>1, <1>3, <1>4, <1>5, <1>6, <1>7, <1>8, ZenonT(60) DEF Landed

\* The request r of c after a write of its call e to the file x.
Posted(c, e, x, r, path, m) ==
    /\ request' = [request EXCEPT ![c] = r] /\ target' = target /\ e = Body[c][request[c].at + 1] /\ e.file # W!None
    /\ x = <<e.key, e.file>> /\ W!OnDisk(target) /\ Shape(r) /\ r.at = request[c].at + 1 /\ r.phase = "posting"
    /\ r.failed = FALSE /\ r.stream = m /\ r.ukey = e.key /\ r.ufile = e.file
    /\ DOMAIN r.files = DOMAIN request[c].files \cup {x} /\ r.files[x] = path
    /\ \A y \in DOMAIN request[c].files : y # x => r.files[y] = request[c].files[y]
    /\ Told(c, r) /\ \A k \in DOMAIN r.args : r.args[k] \in Seq(Seq(Symbols))

LEMMA StoredKeeps ==
    ASSUME UploadInv, NEW c \in Uploaders, request[c].phase = "posting", request[c].at < Len(Body[c]),
           NEW e, NEW x, NEW r, NEW path, NEW m, Posted(c, e, x, r, path, m), ControlTypes',
           Landed(c, e.key, e.file, e.data, path, m)
    PROVE  UploadInv'
<1>. DEFINE q == request[c]
<1>0. /\ request' = [request EXCEPT ![c] = r] /\ target' = target /\ e = Body[c][r.at] /\ x = <<e.key, e.file>>
      /\ W!OnDisk(target) /\ Shape(r) /\ r.at = q.at + 1 /\ r.phase = "posting"
      /\ r.failed = FALSE /\ r.stream = m /\ <<r.ukey, r.ufile>> = x
      /\ Told(c, r) /\ \A k \in DOMAIN r.args : r.args[k] \in Seq(Seq(Symbols))
    BY DEF Posted
<1>1. /\ x = <<x[1], x[2]>> /\ x[1] = e.key /\ x[2] = e.file /\ x[2] # W!None
    BY DEF Posted
<1>2. /\ path = <<c, x[1], x[2]>> /\ m \in 1 .. Len(inode') /\ Len(inode) <= Len(inode') /\ inode' \in Seq(Seq(Symbols))
      /\ disk' = [p \in DOMAIN disk' |-> disk'[p]] /\ DOMAIN disk' = DOMAIN disk \cup {path} /\ disk'[path] = m
      /\ \A p \in DOMAIN disk : p # path => disk'[p] = disk[p] /\ disk[p] # m
      /\ \A i \in 1 .. Len(inode) : i # m => inode'[i] = inode[i]
    BY <1>0, <1>1, ZenonT(60) DEF Landed
<1>3. /\ x \notin DOMAIN q.files => inode'[m] = <<e.data>>
      /\ x \in DOMAIN q.files => /\ q.files[x] = path /\ path \in DOMAIN disk
                                 /\ inode'[m] = Append(inode[disk[path]], e.data) /\ inode[disk[path]] \in Seq(Symbols)
    BY <1>0, ZenonT(60) DEF Landed
<1>4. /\ DOMAIN r.files = DOMAIN q.files \cup {x} /\ r.files[x] = path
      /\ \A y \in DOMAIN q.files : y # x => r.files[y] = q.files[y]
    BY DEF Posted
<1>5. /\ Len(inode) \in Nat /\ Len(inode') \in Nat /\ DOMAIN inode = 1 .. Len(inode) /\ DOMAIN inode' = 1 .. Len(inode')
      /\ \A p \in DOMAIN disk : disk[p] \in 1 .. Len(inode)
    <2>1. Len(inode) \in Nat /\ DOMAIN inode = 1 .. Len(inode)
        BY UploadFields, LenProperties
    <2>2. Len(inode') \in Nat /\ DOMAIN inode' = 1 .. Len(inode')
        BY <1>2, LenProperties
    <2>3. \A p \in DOMAIN disk : disk[p] \in 1 .. Len(inode)
        BY <2>1, UploadFields DEF DiskInv
    <2>. QED BY <2>1, <2>2, <2>3
<1>6. q.at \in Nat /\ r.at \in 1 .. Len(Body[c]) /\ r.at \in 0 .. Len(Body[c]) /\ ~q.failed
    <2>. DEFINE n == q.at
                l == Len(Body[c])
    <2>1. n \in Nat /\ n + 1 \in 1 .. l /\ ~q.failed
        BY Posting
    <2>2. r.at = n + 1
        BY <1>0
    <2>3. l \in Nat
        BY UploadFacts
    <2>. HIDE DEF n, l
    <2>4. n + 1 \in 0 .. l
        BY <2>1, <2>3
    <2>. QED BY <2>1, <2>2, <2>4 DEF n, l
<1>7. e.data \in Symbols
    BY <1>0, <1>6, BodyFacts
\* The files of others, and the other files of c.
<1>8. ASSUME NEW b \in Uploaders, NEW y \in DOMAIN request[b].files, request[b].files[y] \in DOMAIN disk, b # c \/ y # x
      PROVE  /\ request[b].files[y] # path /\ request[b].files[y] \in DOMAIN disk'
             /\ disk'[request[b].files[y]] = disk[request[b].files[y]]
             /\ inode'[disk'[request[b].files[y]]] = inode[disk[request[b].files[y]]]
    <2>1. request[b].files[y] = <<b, y[1], y[2]>> /\ y = <<y[1], y[2]>>
        BY <1>8, PathOwned
    <2>2. request[b].files[y] # path
        <3>1. SUFFICES ASSUME request[b].files[y] = path PROVE FALSE
            OBVIOUS
        <3>2. <<b, y[1], y[2]>> = <<c, x[1], x[2]>>
            BY <1>2, <2>1, <3>1
        <3>3. b = c /\ y[1] = x[1] /\ y[2] = x[2]
            BY <3>2
        <3>4. y = x
            BY <1>1, <2>1, <3>3
        <3>. QED BY <1>8, <3>3, <3>4
    <2>. QED BY <1>2, <1>5, <1>8, <2>2
<1>9. Typed(c, r, inode')
    <2>1. m \in 0 .. Len(inode')
        BY <1>2, <1>5
    <2>. QED BY <1>0, <1>6, <2>1 DEF Typed
<1>10. Kept(c, r, disk')
    <2>1. ASSUME NEW y \in DOMAIN q.files, y # x
          PROVE  y = <<y[1], y[2]>> /\ y[2] # W!None /\ r.files[y] = <<c, y[1], y[2]>> /\ r.files[y] \in DOMAIN disk'
        <3>1. y = <<y[1], y[2]>> /\ y[2] # W!None /\ q.files[y] = <<c, y[1], y[2]>> /\ q.files[y] \in DOMAIN disk
            BY <1>6, UploadFields DEF Kept
        <3>. QED BY <1>2, <1>4, <2>1, <3>1
    <2>. QED BY <1>1, <1>2, <1>4, <2>1 DEF Kept
<1>11. Opened(r, disk')
    <2>. QED BY <1>0, <1>2, <1>4, ZenonT(60) DEF Opened
<1>12. Written(c, r, disk', inode', target)
    <2>1. ASSUME NEW y \in DOMAIN q.files, y # x
          PROVE  W!Sent(inode'[disk'[r.files[y]]], c, W!Upto(W!FileCalls(c, y), r.at))
        <3>1. q.files[y] \in DOMAIN disk
            BY <1>6, UploadFields DEF Kept
        <3>2. inode[disk[q.files[y]]] \in Seq(Symbols)
            BY <1>5, <3>1, UploadFields, ElementOfSeq
        <3>3. W!Sent(inode[disk[q.files[y]]], c, W!Upto(W!FileCalls(c, y), q.at))
            BY <1>6, UploadFields DEF Written
        <3>4. <<Body[c][r.at].key, Body[c][r.at].file>> # y
            BY <1>0, <2>1
        <3>5. W!Sent(inode[disk[q.files[y]]], c, W!Upto(W!FileCalls(c, y), r.at))
            BY <1>0, <3>2, <3>3, <3>4, FileNext
        <3>6. inode'[disk'[q.files[y]]] = inode[disk[q.files[y]]]
            BY <1>8, <2>1, <3>1
        <3>7. r.files[y] = q.files[y]
            BY <1>4, <2>1
        <3>. QED BY <3>5, <3>6, <3>7
    <2>2. W!Sent(inode'[m], c, W!Upto(W!FileCalls(c, x), r.at))
        <3>1. <<Body[c][r.at].key, Body[c][r.at].file>> = x
            BY <1>0
        <3>2. CASE x \in DOMAIN q.files
            <4>1. W!Sent(inode[disk[path]], c, W!Upto(W!FileCalls(c, x), q.at))
                BY <1>3, <1>6, <3>2, UploadFields DEF Written
            <4>2. inode[disk[path]] \in Seq(Symbols)
                BY <1>3, <3>2
            <4>3. W!Sent(Append(inode[disk[path]], e.data), c, W!Upto(W!FileCalls(c, x), r.at))
                BY <1>0, <3>1, <4>1, <4>2, FileNext
            <4>. QED BY <1>3, <3>2, <4>3
        <3>3. CASE x \notin DOMAIN q.files
            <4>1. ASSUME NEW i \in W!Upto(W!FileCalls(c, x), q.at) PROVE FALSE
                <5>1. i \in 1 .. Len(Body[c]) /\ i <= q.at /\ <<Body[c][i].key, Body[c][i].file>> = x
                    BY UploadFacts DEF W!Upto, W!FileCalls
                <5>2. i \in 1 .. q.at
                    BY <1>6, <5>1
                <5>3. Body[c][i].file # W!None
                    BY <1>1, <5>1
                <5>. QED BY <1>6, <3>3, <5>1, <5>2, <5>3, <1>0, UploadFields, ZenonT(60) DEF Written
            <4>2. W!Sent(<<>>, c, W!Upto(W!FileCalls(c, x), q.at))
                BY <4>1, SentNothing
            <4>3. W!Sent(Append(<<>>, e.data), c, W!Upto(W!FileCalls(c, x), r.at))
                <5>1. <<>> \in Seq(Symbols)
                    OBVIOUS
                <5>. QED BY <1>0, <3>1, <4>2, <5>1, FileNext
            <4>4. Append(<<>>, e.data) = <<e.data>>
                OBVIOUS
            <4>. QED BY <1>3, <3>3, <4>3, <4>4
        <3>. QED BY <3>2, <3>3
    <2>3. ASSUME NEW i \in 1 .. r.at, Body[c][i].file # W!None
          PROVE  <<Body[c][i].key, Body[c][i].file>> \in DOMAIN r.files
        <3>1. CASE i = r.at
            BY <1>0, <1>4, <3>1, ZenonT(60)
        <3>2. CASE i # r.at
            <4>1. i \in 1 .. q.at
                <5>. DEFINE n == q.at
                <5>1. n \in Nat /\ i \in 1 .. n + 1 /\ i # n + 1
                    BY <1>0, <1>6, <2>3, <3>2
                <5>. HIDE DEF n
                <5>2. i \in 1 .. n
                    BY <5>1
                <5>. QED BY <5>2 DEF n
            <4>. QED BY <1>0, <1>4, <1>6, <2>3, <4>1, UploadFields, ZenonT(60) DEF Written
        <3>. QED BY <3>1, <3>2
    <2>4. ASSUME NEW y \in DOMAIN r.files
          PROVE  W!Sent(inode'[disk'[r.files[y]]], c, W!Upto(W!FileCalls(c, y), r.at))
        <3>1. CASE y = x
            BY <1>2, <1>4, <2>2, <3>1
        <3>2. CASE y # x
            BY <1>4, <2>1, <2>4, <3>2
        <3>. QED BY <3>1, <3>2
    <2>. QED BY <1>0, <2>3, <2>4 DEF Written
<1>13. RequestInv(c, r, disk', inode', target)
    BY <1>0, <1>9, <1>10, <1>11, <1>12 DEF RequestInv
<1>14. DiskInv'
    <2>1. request'[c] = r /\ \A b \in Uploaders \ {c} : request'[b] = request[b]
        BY <1>0 DEF UploadInv
    <2>2. ASSUME NEW p \in DOMAIN disk' PROVE \E b \in Uploaders : \E y \in DOMAIN request'[b].files : request'[b].files[y] = p
        <3>1. CASE p = path
            BY <1>4, <2>1, <3>1
        <3>2. CASE p # path
            <4>1. p \in DOMAIN disk
                BY <1>2, <2>2, <3>2
            <4>2. PICK b \in Uploaders : \E y \in DOMAIN request[b].files : request[b].files[y] = p
                BY <4>1, UploadFields DEF DiskInv
            <4>3. PICK y \in DOMAIN request[b].files : request[b].files[y] = p
                BY <4>2
            <4>4. CASE b # c
                BY <2>1, <4>3, <4>4
            <4>5. CASE b = c
                <5>1. y # x
                    BY <1>3, <3>2, <4>3, <4>5
                <5>. QED BY <1>4, <2>1, <4>3, <4>5, <5>1
            <4>. QED BY <4>4, <4>5
        <3>. QED BY <3>1, <3>2
    <2>3. W!NoPath \notin DOMAIN disk'
        <3>1. W!NoPath # path
            BY <1>2 DEF W!NoPath
        <3>. QED BY <1>2, <3>1, UploadFields DEF DiskInv
    <2>4. \A p \in DOMAIN disk' : disk'[p] \in DOMAIN inode'
        <3>1. ASSUME NEW p \in DOMAIN disk, p # path PROVE disk'[p] \in 1 .. Len(inode')
            <4>1. disk'[p] \in 1 .. Len(inode)
                BY <1>2, <1>5, <3>1
            <4>. QED BY <1>2, <1>5, <4>1
        <3>. QED BY <1>2, <1>5, <3>1
    <2>5. \A p, o \in DOMAIN disk' : disk'[p] = disk'[o] => p = o
        <3>1. \A p, o \in DOMAIN disk : disk[p] = disk[o] => p = o
            BY UploadFields DEF DiskInv
        <3>2. ASSUME NEW p \in DOMAIN disk', NEW o \in DOMAIN disk', disk'[p] = disk'[o] PROVE p = o
            <4>0. \A z \in DOMAIN disk : z # path => disk'[z] # disk'[path]
                BY <1>2
            <4>3. \A z \in DOMAIN disk' : z # path => z \in DOMAIN disk
                BY <1>2
            <4>1. CASE p = path \/ o = path
                BY <3>2, <4>0, <4>1, <4>3
            <4>2. CASE p # path /\ o # path
                BY <1>2, <3>1, <3>2, <4>2
            <4>. QED BY <4>1, <4>2
        <3>. QED BY <3>2
    <2>. QED BY <1>2, <2>2, <2>3, <2>4, <2>5 DEF DiskInv
<1>15. ASSUME NEW b \in Uploaders \ {c}, NEW y \in DOMAIN request[b].files, request[b].files[y] \in DOMAIN disk
       PROVE  /\ request[b].files[y] \in DOMAIN disk' /\ disk'[request[b].files[y]] = disk[request[b].files[y]]
              /\ inode'[disk'[request[b].files[y]]] = inode[disk[request[b].files[y]]]
    BY <1>8, <1>15
<1>. QED BY <1>0, <1>2, <1>13, <1>14, <1>15, RequestReplaced, ZenonT(60)

\* The request of c after its call e for a file under path, whose stream is for file m.
After(c, e, path, m) ==
    LET q == request[c]
        x == <<e.key, e.file>>
        heard == IF W!InMemory(target) THEN W!SetArgFlat(q, e) ELSE q
    IN  [heard EXCEPT !.at = q.at + 1, !.stream = m,
           !.files = [y \in DOMAIN q.files \cup {x} |-> IF y = x THEN path ELSE q.files[y]],
           !.ukey = e.key, !.ufile = e.file]

\* The iterator's step for a file, with the file that the path of an entry is behind.
LEMMA FileStored ==
    ASSUME UploadInv, RandomNames, NEW c \in Uploaders, request[c].phase = "posting", request[c].at < Len(Body[c]),
           NEW e, e = Body[c][request[c].at + 1], W!IterateFile(c, e)
    PROVE  \E path, m : /\ Landed(c, e.key, e.file, e.data, path, m)
                        /\ request' = [request EXCEPT ![c] = After(c, e, path, m)]
<1>. DEFINE q == request[c]
            x == <<e.key, e.file>>
            new == x \notin DOMAIN q.files
            path == IF new THEN W!Path(c, e.key, e.file) ELSE q.files[x]
            kept == IF new THEN W!Dropped(disk, {path}) ELSE disk
            open == q.stream # 0 /\ W!SameFile(q, e)
            there == path \in DOMAIN kept
            into == IF open THEN q.stream ELSE IF there THEN kept[path] ELSE Len(inode) + 1
            grown == IF into > Len(inode) THEN Append(inode, <<>>) ELSE inode
<1>1. /\ inode' = [grown EXCEPT ![into] = Append(@, e.data)]
      /\ disk' = IF open \/ there THEN kept
                 ELSE [p \in DOMAIN kept \cup {path} |-> IF p = path THEN into ELSE kept[p]]
      /\ request' = [request EXCEPT ![c] = After(c, e, path, into)]
    BY ZenonT(60) DEF W!IterateFile, After
<1>2. e.data \in Symbols
    BY Posting, BodyFacts
<1>3. q.failed = FALSE /\ Len(inode) \in Nat /\ DOMAIN inode = 1 .. Len(inode)
    BY Posting, UploadFields, LenProperties
<1>4. open => /\ x \in DOMAIN q.files /\ q.files[x] \in DOMAIN disk /\ disk[q.files[x]] = q.stream
    BY UploadFields DEF Opened, W!SameFile
<1>5. CASE new
    <2>1. path = W!Path(c, e.key, e.file) /\ ~open
        BY <1>4, <1>5
    <2>2. path \notin DOMAIN disk
        BY <1>5, <2>1, NewPath DEF W!Path
    <2>3. kept = disk
        <3>1. kept = [p \in DOMAIN disk \ {path} |-> disk[p]]
            BY <1>5 DEF W!Dropped
        <3>2. DOMAIN disk \ {path} = DOMAIN disk /\ disk = [p \in DOMAIN disk |-> disk[p]]
            BY <2>2, UploadFields, ZenonT(60) DEF DiskInv
        <3>. HIDE DEF kept, path
        <3>. QED BY <3>1, <3>2
    <2>4. into = Len(inode) + 1
        BY <2>1, <2>2, <2>3
    <2>5. grown = Append(inode, <<>>)
        <3>1. into > Len(inode)
            <4>. HIDE DEF into
            <4>. QED BY <1>3, <2>4
        <3>. QED BY <3>1, ZenonT(60)
    <2>6. disk' = [p \in DOMAIN disk \cup {path} |-> IF p = path THEN into ELSE disk[p]]
        BY <1>1, <2>1, <2>2, <2>3, ZenonT(60)
    <2>7. inode' = [Append(inode, <<>>) EXCEPT ![into] = Append(@, e.data)]
        BY <1>1, <2>5, ZenonT(60)
    <2>. HIDE DEF path, into
    <2>8. Landed(c, e.key, e.file, e.data, path, into)
        <3>. DEFINE k == e.key
                    f == e.file
                    d == e.data
        <3>1. /\ <<k, f>> \notin DOMAIN request[c].files /\ path = W!Path(c, k, f) /\ d \in Symbols
              /\ inode' = [Append(inode, <<>>) EXCEPT ![into] = Append(@, d)]
            BY <1>2, <1>5, <2>1, <2>7
        <3>. HIDE DEF k, f, d
        <3>2. Landed(c, k, f, d, path, into)
            BY <2>4, <2>6, <3>1, StoredNew
        <3>. QED BY <3>2 DEF k, f, d
    <2>. QED BY <1>1, <2>8, ZenonT(60)
<1>6. CASE ~new
    <2>1. path = q.files[x] /\ kept = disk
        BY <1>6
    <2>2. path \in DOMAIN disk
        BY <1>3, <1>6, <2>1, UploadFields DEF Kept
    <2>3. into = disk[path]
        BY <1>4, <2>1, <2>2
    <2>4. grown = inode
        <3>1. disk[path] \in 1 .. Len(inode)
            BY <1>3, <2>2, UploadFields DEF DiskInv
        <3>2. ~(into > Len(inode))
            <4>. HIDE DEF into, path
            <4>. QED BY <1>3, <2>3, <3>1
        <3>. QED BY <3>2, ZenonT(60)
    <2>5. disk' = disk
        BY <1>1, <2>1, <2>2, ZenonT(60)
    <2>6. inode' = [inode EXCEPT ![into] = Append(@, e.data)]
        BY <1>1, <2>4, ZenonT(60)
    <2>. HIDE DEF path, into
    <2>7. Landed(c, e.key, e.file, e.data, path, into)
        <3>. DEFINE k == e.key
                    f == e.file
                    d == e.data
        <3>1. /\ <<k, f>> \in DOMAIN request[c].files /\ path = request[c].files[<<k, f>>] /\ d \in Symbols
              /\ inode' = [inode EXCEPT ![into] = Append(@, d)]
            BY <1>2, <1>6, <2>1, <2>6
        <3>. HIDE DEF k, f, d
        <3>2. Landed(c, k, f, d, path, into)
            BY <2>2, <2>3, <2>5, <3>1, StoredOld
        <3>. QED BY <3>2 DEF k, f, d
    <2>. QED BY <1>1, <2>7, ZenonT(60)
<1>. QED BY <1>5, <1>6

LEMMA FileKeeps ==
    ASSUME UploadInv, RandomNames, NEW c \in Uploaders, request[c].phase = "posting", request[c].at < Len(Body[c]),
           NEW e, e = Body[c][request[c].at + 1], e.file # W!None, W!OnDisk(target),
           W!IterateFile(c, e), target' = target, ControlTypes'
    PROVE  UploadInv'
<1>. DEFINE q == request[c]
            x == <<e.key, e.file>>
            heard == IF W!InMemory(target) THEN W!SetArgFlat(q, e) ELSE q
<1>1. PICK path, m : /\ Landed(c, e.key, e.file, e.data, path, m)
                     /\ request' = [request EXCEPT ![c] = After(c, e, path, m)]
    BY FileStored
<1>. DEFINE fs == [y \in DOMAIN q.files \cup {x} |-> IF y = x THEN path ELSE q.files[y]]
            n == q.at + 1
            k == e.key
            f == e.file
            r == [heard EXCEPT !.at = n, !.stream = m, !.files = fs, !.ukey = k, !.ufile = f]
<1>2. Shape(heard) /\ heard.phase = q.phase /\ heard.failed = FALSE
    BY ToldIs
<1>3. PICK vs : \/ heard.args = q.args
                \/ vs \in Seq(Seq(Symbols)) /\ heard.args = Put(q.args, e.key, vs)
    BY ToldIs, ZenonT(60)
<1>4. request' = [request EXCEPT ![c] = r]
    BY <1>1 DEF After
<1>5. n \in Nat /\ m \in Nat
    <2>1. Len(inode') \in Nat /\ m \in 1 .. Len(inode')
        BY <1>1, LenProperties, ZenonT(60) DEF Landed
    <2>2. m \in Nat
        BY <2>1
    <2>3. n \in Nat
        <3>1. q.at \in Nat
            BY Posting
        <3>. HIDE DEF q
        <3>. QED BY <3>1
    <2>. QED BY <2>2, <2>3
<1>6. DOMAIN fs = DOMAIN q.files \cup {x} /\ fs[x] = path /\ \A y \in DOMAIN q.files : y # x => fs[y] = q.files[y]
    OBVIOUS
<1>. HIDE DEF heard, fs
<1>7. /\ Shape(r) /\ r.phase = "posting" /\ r.at = n /\ r.stream = m /\ r.failed = FALSE
      /\ r.files = fs /\ r.ukey = k /\ r.ufile = f /\ r.args = heard.args
    <2>. DEFINE A == {heard.args}
                F == {heard.files}
                K == {heard.ukey}
                U == {heard.ufile}
    <2>1. heard \in Record(A, F, K, U) /\ heard.phase = "posting"
        BY <1>2 DEF Shape
    <2>. HIDE DEF q, n, k, f, A, F, K, U
    <2>2. r \in Record(A, {fs}, {k}, {f})
        BY <1>5, <2>1 DEF Record
    <2>3. r.phase = heard.phase /\ r.at = n /\ r.stream = m /\ r.failed = heard.failed
        BY <1>5, <2>1 DEF Record
    <2>. HIDE DEF r
    <2>4. Shape(r)
        BY <2>2, ShapeIs
    <2>5. r.args \in A /\ r.files \in {fs} /\ r.ukey \in {k} /\ r.ufile \in {f}
        BY <2>2 DEF Record
    <2>. QED BY <1>2, <2>1, <2>3, <2>4, <2>5 DEF A
<1>. HIDE DEF r
<1>8. Told(c, r) /\ \A j \in DOMAIN r.args : r.args[j] \in Seq(Seq(Symbols))
    BY <1>3, <1>7, FileTold
<1>9. Posted(c, e, x, r, path, m)
    BY <1>4, <1>6, <1>7, <1>8 DEF Posted
<1>. QED BY <1>1, <1>9, StoredKeeps

LEMMA PostIteratorKeeps ==
    ASSUME UploadInv, RandomNames, ContentLimit >= 1, NEW c \in Uploaders, W!PostIterator(c), ControlTypes'
    PROVE  UploadInv'
<1>. DEFINE e == Body[c][request[c].at + 1]
<1>1. /\ request[c].phase = "posting" /\ request[c].at < Len(Body[c]) /\ target' = target
      /\ \/ e.file = W!None /\ W!IterateField(c, e)
         \/ e.file # W!None /\ W!OnDisk(target) /\ W!IterateFile(c, e)
         \/ e.file # W!None /\ W!OnDisk(target) /\ W!NameFails(c, e)
         \/ e.file # W!None /\ ~W!OnDisk(target) /\ W!IterateMemory(c, e)
    BY DEF W!PostIterator
<1>2. CASE e.file = W!None /\ W!IterateField(c, e)
    BY <1>1, <1>2, FieldKeeps
<1>3. CASE e.file # W!None /\ W!OnDisk(target) /\ W!IterateFile(c, e)
    BY <1>1, <1>3, FileKeeps
<1>4. CASE e.file # W!None /\ W!OnDisk(target) /\ W!NameFails(c, e)
    BY <1>1, <1>4, NameFailsKeeps
<1>5. CASE e.file # W!None /\ ~W!OnDisk(target) /\ W!IterateMemory(c, e)
    BY <1>1, <1>5, MemoryKeeps
<1>. QED BY <1>1, <1>2, <1>3, <1>4, <1>5

-----------------------------------------------------------------------------
(* Every step *)

LEMMA UploadInit == W!Init => UploadInv
<1>1. SUFFICES ASSUME W!Init PROVE UploadInv
    OBVIOUS
<1>2. ControlTypes
    BY <1>1, UploadFacts DEF W!Init, ControlTypes
<1>3. DiskInv
    <2>1. DOMAIN disk = {} /\ disk = [p \in DOMAIN disk |-> disk[p]] /\ inode = <<>>
        BY <1>1 DEF W!Init
    <2>2. <<>> \in Seq(Seq(Symbols))
        OBVIOUS
    <2>. QED BY <2>1, <2>2 DEF DiskInv
<1>4. /\ request = [c \in Uploaders |-> request[c]] /\ \A c \in Uploaders : request[c] = W!NoRequest
    BY <1>1 DEF W!Init
<1>5. Len(inode) \in Nat
    BY <1>3, LenProperties DEF DiskInv
<1>6. W!NoRequest.phase = "none" /\ "none" \in Phases
    BY DEF W!NoRequest, Phases
<1>7. [W!NoRequest EXCEPT !.phase = "none"] = W!NoRequest
    <2>. DEFINE A == {[k \in {} |-> <<>>]}
                F == {[x \in {} |-> W!NoPath]}
                U == {W!None}
                r == W!NoRequest
    <2>1. r \in Record(A, F, U, U) /\ r.phase = "none"
        BY DEF W!NoRequest, Record, Phases
    <2>. HIDE DEF r, A, F, U
    <2>2. [r EXCEPT !.phase = "none"] = r
        BY <2>1 DEF Record
    <2>. QED BY <2>2 DEF r
<1>8. ASSUME NEW c \in Uploaders PROVE RequestInv(c, request[c], disk, inode, target)
    <2>. DEFINE r == [W!NoRequest EXCEPT !.phase = "none"]
    <2>1. /\ Shape(r) /\ r.phase = "none" /\ r.stream = 0 /\ r.at = 0 /\ r.args = [k \in {} |-> <<>>]
          /\ r.files = [x \in {} |-> W!NoPath] /\ r.failed = FALSE
        BY <1>6, NothingYet
    <2>2. request[c] = r
        BY <1>4, <1>7
    <2>. HIDE DEF r
    <2>. QED BY <1>5, <2>1, <2>2, EmptyRequest
<1>. QED BY <1>2, <1>3, <1>4, <1>8 DEF UploadInv

LEMMA ControlNext ==
    ASSUME ControlTypes, W!Next
    PROVE  ControlTypes'
<1>1. CASE W!StartDaemon
    BY <1>1 DEF W!StartDaemon, ControlTypes
<1>2. CASE W!SetRunning
    BY <1>2 DEF W!SetRunning, ControlTypes
<1>3. CASE W!WaitStopped
    BY <1>3 DEF W!WaitStopped, ControlTypes
<1>4. CASE W!WakeUnasked
    BY <1>4 DEF W!WakeUnasked, ControlTypes
<1>5. ASSUME NEW s \in Stoppers \cup Killers, W!StopTest(s) PROVE ControlTypes'
    BY <1>5 DEF W!StopTest, ControlTypes
<1>6. ASSUME NEW s \in Stoppers \cup Killers, W!StopSignal(s) PROVE ControlTypes'
    BY <1>6 DEF W!StopSignal, W!Signalled, ControlTypes
<1>7. ASSUME NEW s \in Stoppers \cup Killers, W!StopDaemon(s) PROVE ControlTypes'
    <2>1. UNCHANGED <<target, main, running>> /\ daemon' = "stopped"
        BY <1>7 DEF W!StopDaemon
    <2>2. twice' \in BOOLEAN
        BY <1>7 DEF W!StopDaemon, ControlTypes
    <2>3. stopper' \in [Stoppers \cup Killers -> {"idle", "locking", "joining", "done", "refused"}]
        BY <1>7 DEF W!StopDaemon, ControlTypes
    <2>. QED BY <2>1, <2>2, <2>3 DEF ControlTypes
<1>8. ASSUME NEW c \in Uploaders,
             \/ W!UriLog(c) \/ W!FirstStep(c) \/ W!BeginPiece(c) \/ W!PostIterator(c) \/ W!EndPiece(c)
             \/ W!CompleteRequest(c) \/ W!Answered(c) \/ W!RequestCompleted(c)
      PROVE  ControlTypes'
    <2>1. UNCHANGED <<target, main, running, daemon, stopper, twice>>
        BY <1>8 DEF W!UriLog, W!FirstStep, W!BeginPiece, W!PostIterator, W!EndPiece, W!CompleteRequest, W!Answered,
                    W!RequestCompleted
    <2>. QED BY <2>1 DEF ControlTypes
<1>. QED BY <1>1, <1>2, <1>3, <1>4, <1>5, <1>6, <1>7, <1>8 DEF W!Next

\* The steps that only move a request on.
LEMMA PhaseKeeps ==
    ASSUME UploadInv, ControlTypes', NEW c \in Uploaders,
           \/ W!UriLog(c) \/ W!FirstStep(c) \/ W!BeginPiece(c) \/ W!EndPiece(c) \/ W!CompleteRequest(c) \/ W!Answered(c)
    PROVE  UploadInv'
<1>. DEFINE q == request[c]
<1>0. /\ Typed(c, q, inode) /\ (q.stream # 0 => q.phase = "posting")
      /\ q.phase \in {"handling", "answered"} => q.at = Len(Body[c])
    BY UploadFields DEF Typed
<1>1. ASSUME NEW ph, request' = [request EXCEPT ![c].phase = ph], UNCHANGED <<target, disk, inode>>,
             ph \in Phases \ {"none", "deleted"}, q.stream # 0 => ph = "posting",
             ph \in {"handling", "answered"} => q.at = Len(Body[c])
      PROVE  UploadInv'
    <2>. DEFINE st == q.stream
    <2>1. Shape(q)
        BY UploadFields
    <2>2. [q EXCEPT !.phase = ph] = [q EXCEPT !.phase = ph, !.stream = st]
        <3>. DEFINE A == {q.args}
                    F == {q.files}
                    K == {q.ukey}
                    U == {q.ufile}
        <3>1. q \in Record(A, F, K, U)
            BY <2>1 DEF Shape
        <3>. HIDE DEF q, A, F, K, U
        <3>. QED BY <3>1 DEF Record
    <2>3. request' = [request EXCEPT ![c] = [q EXCEPT !.phase = ph, !.stream = st]]
        <3>1. request' = [request EXCEPT ![c] = [q EXCEPT !.phase = ph]]
            BY <1>1
        <3>. QED BY <2>2, <3>1
    <2>. QED BY <1>1, <2>3, MovedKeeps, ZenonT(60)
<1>2. CASE W!UriLog(c)
    BY <1>0, <1>1, <1>2 DEF W!UriLog, Phases
<1>3. CASE W!FirstStep(c)
    BY <1>0, <1>1, <1>3 DEF W!FirstStep, Phases
<1>4. CASE W!BeginPiece(c)
    BY <1>0, <1>1, <1>4 DEF W!BeginPiece, Phases
<1>5. CASE W!CompleteRequest(c)
    BY <1>0, <1>1, <1>5 DEF W!CompleteRequest, Phases
<1>6. CASE W!Answered(c)
    BY <1>0, <1>1, <1>6 DEF W!Answered, Phases
<1>7. CASE W!EndPiece(c)
    <2>1. request' = [request EXCEPT ![c] = [request[c] EXCEPT !.phase = "ready", !.stream = 0]]
        BY <1>7 DEF W!EndPiece, UploadInv
    <2>2. UNCHANGED <<target, disk, inode>>
        BY <1>7 DEF W!EndPiece
    <2>3. "ready" \in Phases \ {"none", "deleted"}
        BY DEF Phases
    <2>. QED BY <2>1, <2>2, <2>3, MovedKeeps, ZenonT(60)
<1>. QED BY <1>2, <1>3, <1>4, <1>5, <1>6, <1>7

LEMMA UploadNext ==
    ASSUME RandomNames, ContentLimit >= 1, UploadInv, [W!Next]_(W!vars)
    PROVE  UploadInv'
<1>1. CASE UNCHANGED W!vars
    <2>1. UNCHANGED <<target, request, disk, inode>> /\ ControlTypes'
        BY <1>1 DEF W!vars, UploadInv, ControlTypes
    <2>. QED BY <2>1, ControlKeeps
<1>2. CASE W!Next
    <2>1. ControlTypes'
        BY <1>2, ControlNext DEF UploadInv
    <2>2. CASE W!StartDaemon \/ W!SetRunning \/ W!WaitStopped \/ W!WakeUnasked
        <3>1. UNCHANGED <<target, request, disk, inode>>
            BY <2>2 DEF W!StartDaemon, W!SetRunning, W!WaitStopped, W!WakeUnasked
        <3>. QED BY <2>1, <3>1, ControlKeeps
    <2>3. ASSUME NEW s \in Stoppers \cup Killers, W!StopTest(s) \/ W!StopSignal(s) PROVE UploadInv'
        <3>1. UNCHANGED <<target, request, disk, inode>>
            BY <2>3 DEF W!StopTest, W!StopSignal
        <3>. QED BY <2>1, <3>1, ControlKeeps
    <2>4. ASSUME NEW s \in Stoppers \cup Killers, W!StopDaemon(s) PROVE UploadInv'
        BY <2>1, <2>4, StopDaemonKeeps
    <2>5. ASSUME NEW c \in Uploaders,
                 \/ W!UriLog(c) \/ W!FirstStep(c) \/ W!BeginPiece(c) \/ W!EndPiece(c) \/ W!CompleteRequest(c)
                 \/ W!Answered(c)
          PROVE  UploadInv'
        BY <2>1, <2>5, PhaseKeeps
    <2>6. ASSUME NEW c \in Uploaders, W!PostIterator(c) PROVE UploadInv'
        BY <2>1, <2>6, PostIteratorKeeps
    <2>7. ASSUME NEW c \in Uploaders, W!RequestCompleted(c) PROVE UploadInv'
        <3>1. W!Completed(c) /\ UNCHANGED <<target, inode>>
            BY <2>7 DEF W!RequestCompleted
        <3>. QED BY <2>1, <3>1, DoneKeeps
    <2>. QED BY <1>2, <2>2, <2>3, <2>4, <2>5, <2>6, <2>7 DEF W!Next
<1>. QED BY <1>1, <1>2

LEMMA UploadImplies ==
    ASSUME UploadInv
    PROVE  UploadsSound
<1>1. \A c \in Uploaders : /\ Typed(c, request[c], inode) /\ Kept(c, request[c], disk) /\ Shape(request[c])
                           /\ Written(c, request[c], disk, inode, target) /\ Told(c, request[c])
    BY UploadFields
<1>2. W!TypeOK
    <2>1. /\ main \in {"idle", "started", "testing", "waiting", "returned"}
          /\ target \in W!AllTargets
          /\ running \in BOOLEAN /\ daemon \in {"none", "up", "stopped"} /\ twice \in BOOLEAN
          /\ stopper \in [Stoppers \cup Killers -> {"idle", "locking", "joining", "done", "refused"}]
        BY DEF UploadInv, ControlTypes
    <2>2. \A p \in DOMAIN disk : disk[p] \in DOMAIN inode
        BY DEF UploadInv, DiskInv
    <2>3. ASSUME NEW c \in Uploaders
          PROVE  /\ request[c].phase \in {"none", "logged", "ready", "posting", "handling", "answered", "deleted"}
                 /\ request[c].at \in 0..Len(Body[c]) /\ request[c].stream \in 0..Len(inode)
                 /\ request[c].stream # 0 => request[c].phase = "posting"
        <3>1. request[c].phase \in Phases
            BY <1>1 DEF Shape, Record
        <3>2. /\ request[c].at \in 0..Len(Body[c]) /\ request[c].stream \in 0..Len(inode)
              /\ request[c].stream # 0 => request[c].phase = "posting"
            BY <1>1 DEF Typed
        <3>. QED BY <3>1, <3>2 DEF Phases
    <2>. QED BY <2>1, <2>2, <2>3 DEF W!TypeOK
<1>3. ASSUME NEW c \in Uploaders, request[c].phase = "handling", ~request[c].failed
      PROVE  request[c].at = Len(Body[c])
    BY <1>1, <1>3 DEF Typed
<1>4. W!FilesWhole
    <2>1. ASSUME NEW c \in Uploaders, request[c].phase = "handling", ~request[c].failed, NEW x \in DOMAIN request[c].files
          PROVE  /\ request[c].files[x] \in DOMAIN disk
                 /\ W!Sent(inode[disk[request[c].files[x]]], c, W!FileCalls(c, x))
        <3>1. request[c].files[x] \in DOMAIN disk
            BY <1>1, <2>1 DEF Kept
        <3>2. W!Sent(inode[disk[request[c].files[x]]], c, W!Upto(W!FileCalls(c, x), request[c].at))
            BY <1>1, <2>1 DEF Written
        <3>3. W!FileCalls(c, x) \in SUBSET (1 .. Len(Body[c]))
            BY UploadFacts DEF W!FileCalls
        <3>4. W!Upto(W!FileCalls(c, x), Len(Body[c])) = W!FileCalls(c, x)
            BY <3>3, SentAll
        <3>. QED BY <1>3, <2>1, <3>1, <3>2, <3>4
    <2>. QED BY <2>1 DEF W!FilesWhole
<1>5. W!ArgsWhole
    <2>1. ASSUME NEW c \in Uploaders, request[c].phase = "handling", ~request[c].failed, NEW k \in W!Keys, W!OnlyField(c, k)
          PROVE  /\ Len(W!ValuesOf(request[c], k)) = W!Cardinality(W!Begins(c, k))
                 /\ \A v \in DOMAIN W!ValuesOf(request[c], k) : W!Sent(W!ValuesOf(request[c], k)[v], c, W!Pieces(c, k, v))
        <3>1. SoFar(c, k, W!ValuesOf(request[c], k), Len(Body[c]))
            BY <1>1, <1>3, <2>1 DEF Told
        <3>2. W!Begins(c, k) \in SUBSET (1 .. Len(Body[c])) /\ \A v : W!Pieces(c, k, v) \in SUBSET (1 .. Len(Body[c]))
            BY <2>1, CallsOf
        <3>3. W!Upto(W!Begins(c, k), Len(Body[c])) = W!Begins(c, k)
            BY <3>2, SentAll
        <3>4. \A v : W!Upto(W!Pieces(c, k, v), Len(Body[c])) = W!Pieces(c, k, v)
            BY <3>2, SentAll
        <3>. QED BY <3>1, <3>3, <3>4, CountIs DEF SoFar
    <2>. QED BY <2>1 DEF W!ArgsWhole
<1>6. W!NoFilesLeft
    <2>1. ASSUME NEW p \in DOMAIN disk PROVE p \in UNION {W!PathsOf(request[c]) : c \in {d \in Uploaders : W!Live(d)}}
        <3>1. PICK c \in Uploaders : \E x \in DOMAIN request[c].files : request[c].files[x] = p
            BY DEF UploadInv, DiskInv
        <3>2. p \in W!PathsOf(request[c])
            BY <3>1, PathOwned
        <3>3. W!Live(c)
            BY <1>1, <3>1 DEF Typed, W!Live
        <3>. QED BY <3>2, <3>3
    <2>. QED BY <2>1 DEF W!NoFilesLeft
<1>. QED BY <1>2, <1>4, <1>5, <1>6 DEF UploadsSound, W!UploadsSound

\* When the names of uploads are random and an argument may hold a symbol at all, for any bodies, any number
\* of connections and any interleaving of their post iterators with stop(): every file that a resource is
\* given is on disk with exactly what this client sent for it, every form field is the values this client
\* sent, and no file is on disk that no request alive knows of.
THEOREM UploadsAreSound ==
    ASSUME RandomNames, ContentLimit >= 1
    PROVE  W!Spec => []UploadsSound
<1>1. W!Init => UploadInv
    BY UploadInit
<1>2. UploadInv /\ [W!Next]_(W!vars) => UploadInv'
    BY UploadNext
<1>3. UploadInv => UploadsSound
    BY UploadImplies
<1>. QED BY <1>1, <1>2, <1>3, PTL DEF W!Spec
=============================================================================
