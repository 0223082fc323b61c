------------------------------ MODULE EventMeth ------------------------------
(***************************************************************************)
(* Pistache's portability layer on libevent (eventmeth.cc): one            *)
(* EventMethEpollEquiv with its interest_ and ready_ sets and its event    *)
(* loop, an eventfd-style counter that other threads write, a one-shot     *)
(* timer, and a socket event that another thread closes.  A step takes the *)
(* mutexes it needs; what runs under one mutex without waiting for another *)
(* is one step, and a thread that holds one mutex while it waits for the   *)
(* next has a step for each.                                               *)
(*                                                                         *)
(* libevent is external: an event that was added (pend) becomes active     *)
(* when its descriptor or its time comes, or through event_active; the     *)
(* loop takes active events one by one and calls eventCallbackFn.          *)
(* ready_mutex_ is only ever taken last and is left out.                   *)
(***************************************************************************)
EXTENDS Integers, FiniteSets

CONSTANTS
    Fd, Tmr, Sock,      \* the three events
    Registered,         \* Fd is registered before the loop is first polled
    Apart,              \* settime is called by a thread of its own, not by the loop's
    MaxWrites,          \* writes to Fd
    MaxSets,            \* calls of settime
    MaxSock,            \* times the socket becomes readable
    Limit               \* the largest value of a counter

Events == {Fd, Tmr, Sock}
Counters == {Fd, Tmr}
Threads == {"loop", "setter", "closer", "adder"}
Nobody == "nobody"

BoundsAssumption == {MaxWrites, MaxSets, MaxSock, Limit} \subseteq Nat
KindsAssumption == {Registered, Apart} \subseteq BOOLEAN

VARIABLES
    interest, ready,    \* the two sets of the EventMethEpollEquivImpl
    ev,                 \* events whose ev_ is not null
    pend,               \* libevent: events added
    act,                \* libevent: <<event, reason>> active, the callback not yet run
    alive,              \* EmEvents not deleted
    art,                \* add_was_artificial_
    counter,            \* counter_val_
    lockS, lockI,       \* owners of emee_cptr_set_mutex_ and interest_mutex_
    lockC,              \* owner of counter_val_mutex_
    pc, at,             \* where each thread is, and with which event
    why,                \* the reason of the callback in progress
    ran, out,           \* the loop: a callback ran; ready_evm_events_out
    fired,              \* history: the timer expired and nobody reset it since
    writes, sets, socks \* calls so far

sets1 == <<interest, ready>>
lib == <<ev, pend, act>>
locks == <<lockS, lockI, lockC>>
where == <<pc, at, why, ran, out>>
ghosts == <<fired, writes, sets, socks>>
vars == <<interest, ready, ev, pend, act, alive, art, counter, lockS, lockI, lockC,
          pc, at, why, ran, out, fired, writes, sets, socks>>

Persist(e) == e # Tmr

Init ==
    /\ interest = {Sock}
    /\ ready = {} /\ ev = interest /\ pend = interest /\ act = {} /\ alive = Events
    /\ art = {} /\ counter = [e \in Counters |-> 0]
    /\ lockS = Nobody /\ lockI = Nobody /\ lockC = [e \in Counters |-> Nobody]
    /\ pc = [t \in Threads |-> "idle"] /\ at = [t \in Threads |-> Fd] /\ why = "read"
    /\ ran = FALSE /\ out = {} /\ fired = FALSE /\ writes = 0 /\ sets = 0 /\ socks = 0

Free(l) == l = Nobody
Go(t, where2) == pc' = [pc EXCEPT ![t] = where2]
GoAt(t, where2, e) == Go(t, where2) /\ at' = [at EXCEPT ![t] = e]

\* The loop waits for a call of its own handler to settime.
LoopMayRun == Apart \/ pc["setter"] = "idle"
NoLongerActive(e) == {a \in act : a[1] # e}

-----------------------------------------------------------------------------
(* libevent *)

\* The loop's thread is in event_base_loop, between two callbacks.
InLoop ==
    /\ LoopMayRun /\ pc["loop"] = "idle"
    /\ Registered => pc["adder"] = "done"

SockReadable ==
    /\ InLoop /\ Sock \in pend /\ socks < MaxSock /\ socks' = socks + 1
    /\ act' = act \cup {<<Sock, "read">>}
    /\ UNCHANGED <<sets1, ev, pend, alive, art, counter, locks, where, fired, writes, sets>>

TimerExpires ==
    /\ InLoop /\ Tmr \in pend /\ pend' = pend \ {Tmr} /\ act' = act \cup {<<Tmr, "timeout">>}
    /\ fired' = TRUE
    /\ UNCHANGED <<sets1, ev, alive, art, counter, locks, where, writes, sets, socks>>

\* event_add: a timeout that is active but not yet handled is taken back.
EventAdd(e) ==
    /\ ev' = ev \cup {e} /\ pend' = pend \cup {e} /\ act' = act \ {<<e, "timeout">>}

\* event_base_loop takes an active event.
Dispatch ==
    /\ InLoop
    /\ \E a \in act : /\ act' = act \ {a} /\ why' = a[2] /\ GoAt("loop", "found", a[1])
    /\ ran' = TRUE
    /\ UNCHANGED <<sets1, ev, pend, alive, art, counter, locks, out, ghosts>>

-----------------------------------------------------------------------------
(* The callback *)

\* eventCallbackFn looks the event up without touching it.
CallbackFind ==
    /\ pc["loop"] = "found" /\ Free(lockS) /\ Free(lockI)
    /\ Go("loop", IF at["loop"] \in interest THEN "callback" ELSE "idle")
    /\ UNCHANGED <<sets1, lib, alive, art, counter, locks, at, why, ran, out, ghosts>>

\* mutant: the event is not looked up again.
CallbackReadyAnyway ==
    /\ pc["loop"] = "callback" /\ Free(lockI)
    /\ LET e == at["loop"] IN
         IF why = "timeout"
         THEN lockI' = "loop" /\ Go("loop", "expire") /\ UNCHANGED ready
         ELSE ready' = ready \cup {e} /\ Go("loop", "idle") /\ UNCHANGED lockI
    /\ UNCHANGED <<interest, lib, alive, art, counter, lockS, lockC, at, why, ran, out, ghosts>>

\* handleEventCallback locks and looks again; a timer that expired has its
\* counter to write, with interest_mutex_ held.
CallbackReady ==
    /\ pc["loop"] = "callback" /\ Free(lockI)
    /\ LET e == at["loop"] IN
         IF e \in interest /\ why = "timeout"
         THEN lockI' = "loop" /\ Go("loop", "expire") /\ UNCHANGED ready
         ELSE /\ ready' = IF e \in interest THEN ready \cup {e} ELSE ready
              /\ Go("loop", "idle") /\ UNCHANGED lockI
    /\ UNCHANGED <<interest, lib, alive, art, counter, lockS, lockC, at, why, ran, out, ghosts>>

\* mutant: the counter is not bounded.
CountedOver(e) == counter[e] + 1

\* writeProt: the counter, and event_active when it was 0.
Counted(e) == IF counter[e] < Limit THEN counter[e] + 1 ELSE counter[e]
Activated(e) == IF counter[e] = 0 /\ e \in ev THEN act \cup {<<e, "read">>} ELSE act

\* mutant: an expired timer is not put into ready_.
CallbackExpireUnready ==
    /\ pc["loop"] = "expire" /\ Free(lockC[Tmr])
    /\ counter' = [counter EXCEPT ![Tmr] = Counted(Tmr)]
    /\ lockI' = Nobody /\ Go("loop", "idle")
    /\ UNCHANGED <<sets1, lib, alive, art, lockS, lockC, at, why, ran, out, ghosts>>

CallbackExpire ==
    /\ pc["loop"] = "expire" /\ Free(lockC[Tmr])
    /\ counter' = [counter EXCEPT ![Tmr] = Counted(Tmr)] /\ act' = Activated(Tmr)
    /\ ready' = ready \cup {Tmr} /\ lockI' = Nobody /\ Go("loop", "idle")
    /\ UNCHANGED <<interest, ev, pend, alive, art, lockS, lockC, at, why, ran, out, ghosts>>

-----------------------------------------------------------------------------
(* getReadyEmEvents and Epoll::poll *)

\* mutant: the ready events are taken without the mutex.
CollectUnlocked ==
    /\ InLoop /\ ran /\ Free(lockI)
    /\ out' = ready /\ ready' = {} /\ interest' = interest \ {e \in ready : ~Persist(e)}
    /\ ran' = FALSE /\ Go("loop", "process")
    /\ UNCHANGED <<lib, alive, art, counter, locks, at, why, ghosts>>

\* The ready events are taken with interest_mutex_ locked, and it stays
\* locked; those that do not persist leave interest_.
Collect ==
    /\ InLoop /\ ran /\ Free(lockI) /\ lockI' = "loop"
    /\ out' = ready /\ ready' = {} /\ interest' = interest \ {e \in ready : ~Persist(e)}
    /\ ran' = FALSE /\ Go("loop", "process")
    /\ UNCHANGED <<lib, alive, art, counter, lockS, lockC, at, why, ghosts>>

\* Epoll::poll copies the flags of every event, then unlocks.
PollDone ==
    /\ pc["loop"] = "process" /\ lockI' = (IF lockI = "loop" THEN Nobody ELSE lockI)
    /\ Go("loop", "handle")
    /\ UNCHANGED <<sets1, lib, alive, art, counter, lockS, lockC, at, why, ran, out, ghosts>>

\* The handlers: a counter is read, a socket's handler does nothing here.
Handle ==
    /\ LoopMayRun /\ pc["loop"] = "handle"
    /\ \/ out = {} /\ Go("loop", "idle") /\ UNCHANGED <<out, at>>
       \/ \E e \in out : /\ out' = out \ {e}
                         /\ IF e \in Counters THEN GoAt("loop", "read", e) ELSE UNCHANGED <<pc, at>>
    /\ UNCHANGED <<sets1, lib, alive, art, counter, locks, why, ran, ghosts>>

-----------------------------------------------------------------------------
(* EmEventCtr *)

\* write, by any thread: one step under counter_val_mutex_.
Write ==
    /\ writes < MaxWrites /\ writes' = writes + 1 /\ Free(lockC[Fd])
    /\ counter' = [counter EXCEPT ![Fd] = Counted(Fd)]
    /\ act' = IF counter[Fd] < Limit THEN Activated(Fd) ELSE act
    /\ UNCHANGED <<sets1, ev, pend, alive, art, locks, where, fired, sets, socks>>

\* read and settime reset the counter; when it was readable, renewEv runs
\* with counter_val_mutex_ held.
After(t) == IF t = "loop" THEN "handle" ELSE "arm"

Reset(t) ==
    LET e == at[t]
        renews == counter[e] # 0 /\ e \in ev
    IN  /\ pc[t] = "read" /\ Free(lockC[e])
        /\ counter' = [counter EXCEPT ![e] = 0]
        /\ fired' = (fired /\ e # Tmr)
        /\ lockC' = IF renews THEN [lockC EXCEPT ![e] = t] ELSE lockC
        /\ Go(t, IF renews THEN "renew" ELSE After(t))
        /\ UNCHANGED <<sets1, lib, alive, art, lockS, lockI, at, why, ran, out, writes, sets, socks>>

\* renewEv: Del when the event is in interest_, and event_free.
RenewDel(t) ==
    LET e == at[t] IN
    /\ pc[t] = "renew" /\ Free(lockS) /\ Free(lockI)
    /\ interest' = interest \ {e}
    /\ ready' = IF e \in interest THEN ready \ {e} ELSE ready
    /\ ev' = ev \ {e} /\ pend' = pend \ {e} /\ act' = NoLongerActive(e)
    /\ IF e \in interest THEN Go(t, "renewAdd") /\ UNCHANGED lockC
       ELSE Go(t, After(t)) /\ lockC' = [lockC EXCEPT ![e] = Nobody]
    /\ UNCHANGED <<alive, art, counter, lockS, lockI, at, why, ran, out, ghosts>>

\* Add with a new ev_, first in libevent.
RenewAdd(t) ==
    /\ pc[t] = "renewAdd" /\ Free(lockI) /\ Go(t, "renewIn")
    /\ ev' = ev \cup {at[t]} /\ pend' = pend \cup {at[t]}
    /\ UNCHANGED <<sets1, act, alive, art, counter, locks, at, why, ran, out, ghosts>>

\* mutant: the event is not put back.
RenewInNever(t) ==
    /\ pc[t] = "renewIn" /\ Free(lockI) /\ Go(t, After(t))
    /\ lockC' = [lockC EXCEPT ![at[t]] = Nobody]
    /\ UNCHANGED <<sets1, lib, alive, art, counter, lockS, lockI, at, why, ran, out, ghosts>>

RenewIn(t) ==
    /\ pc[t] = "renewIn" /\ Free(lockI) /\ Go(t, After(t))
    /\ interest' = interest \cup {at[t]} /\ lockC' = [lockC EXCEPT ![at[t]] = Nobody]
    /\ UNCHANGED <<ready, lib, alive, art, counter, lockS, lockI, at, why, ran, out, ghosts>>

-----------------------------------------------------------------------------
(* EmEventTmrFd::settime, then the reactor's ctl(Add) *)

SetTime ==
    /\ pc["setter"] = "idle" /\ sets < MaxSets /\ sets' = sets + 1
    /\ Apart \/ pc["loop"] = "handle"
    /\ GoAt("setter", "read", Tmr)
    /\ UNCHANGED <<sets1, lib, alive, art, counter, locks, why, ran, out, fired, writes, socks>>

\* settime(0): Del.
Disarm ==
    /\ pc["setter"] = "arm" /\ Free(lockI) /\ Go("setter", "idle")
    /\ IF Tmr \in ev
       THEN /\ interest' = interest \ {Tmr} /\ ready' = ready \ {Tmr}
            /\ pend' = pend \ {Tmr} /\ act' = NoLongerActive(Tmr) /\ art' = art \ {Tmr}
            /\ fired' = FALSE
       ELSE UNCHANGED <<sets1, pend, act, art, fired>>
    /\ UNCHANGED <<ev, alive, counter, locks, at, why, ran, out, writes, sets, socks>>

\* settime of a time: ctlEx refuses a second Add, and settime throws.
ArmRefused ==
    /\ pc["setter"] = "arm" /\ Free(lockI) /\ Tmr \in interest \ art /\ Go("setter", "idle")
    /\ UNCHANGED <<sets1, lib, alive, art, counter, locks, at, why, ran, out, ghosts>>

\* Otherwise event_add, after which the time runs, and then interest_.
Arm ==
    /\ pc["setter"] = "arm" /\ Free(lockI) /\ Tmr \notin interest \ art /\ Go("setter", "armIn")
    /\ EventAdd(Tmr)
    /\ UNCHANGED <<sets1, alive, art, counter, locks, at, why, ran, out, ghosts>>

ArmIn ==
    /\ pc["setter"] = "armIn" /\ Free(lockI) /\ Go("setter", "register")
    /\ interest' = interest \cup {Tmr} /\ art' = art \cup {Tmr}
    /\ UNCHANGED <<ready, lib, alive, counter, locks, at, why, ran, out, ghosts>>

\* The reactor adds the timer: allowed once, because settime's was artificial;
\* when the loop has taken the timer out meanwhile, it is put in again.
Register ==
    /\ pc["setter"] = "register" /\ Free(lockI) /\ Go("setter", "idle")
    /\ interest' = interest \cup {Tmr} /\ art' = art \ {Tmr}
    /\ EventAdd(Tmr)
    /\ UNCHANGED <<ready, alive, counter, locks, at, why, ran, out, ghosts>>

-----------------------------------------------------------------------------
(* ctl(Add) of the counter by another thread, and closeEvent *)

\* EmEventCtr::ctl activates the event when it is readable already, and only
\* then does ctlEx put it into interest_.
Add ==
    /\ pc["adder"] = "idle" /\ Fd \notin interest \cup ev /\ Free(lockI) /\ Free(lockC[Fd])
    /\ ev' = ev \cup {Fd} /\ pend' = pend \cup {Fd}
    /\ act' = IF counter[Fd] > 0 THEN act \cup {<<Fd, "read">>} ELSE act
    /\ Go("adder", "addIn")
    /\ UNCHANGED <<sets1, alive, art, counter, locks, at, why, ran, out, ghosts>>

AddIn ==
    /\ pc["adder"] = "addIn" /\ Free(lockI) /\ Go("adder", "done")
    /\ interest' = interest \cup {Fd}
    /\ UNCHANGED <<ready, lib, alive, art, counter, locks, at, why, ran, out, ghosts>>

\* closeEvent: emee_cptr_set_mutex_ is held while interest_mutex_ is awaited.
CloseLock ==
    /\ pc["closer"] = "idle" /\ Free(lockS) /\ lockS' = "closer" /\ Go("closer", "close")
    /\ UNCHANGED <<sets1, lib, alive, art, counter, lockI, lockC, at, why, ran, out, ghosts>>

Close ==
    /\ pc["closer"] = "close" /\ Free(lockI) /\ lockS' = Nobody /\ Go("closer", "done")
    /\ interest' = interest \ {Sock} /\ ready' = ready \ {Sock}
    /\ ev' = ev \ {Sock} /\ pend' = pend \ {Sock} /\ act' = NoLongerActive(Sock)
    /\ alive' = alive \ {Sock}
    /\ UNCHANGED <<art, counter, lockI, lockC, at, why, ran, out, ghosts>>

-----------------------------------------------------------------------------

Callback == CallbackFind \/ CallbackReady \/ CallbackExpire
Poll == Dispatch \/ Callback \/ Collect \/ PollDone \/ Handle
Renew(t) == Reset(t) \/ RenewDel(t) \/ RenewAdd(t) \/ RenewIn(t)
Setter == Disarm \/ ArmRefused \/ Arm \/ ArmIn \/ Register

Next ==
    \/ SockReadable \/ TimerExpires \/ Write
    \/ Poll \/ Renew("loop")
    \/ SetTime \/ Setter \/ Renew("setter")
    \/ Add \/ AddIn \/ CloseLock \/ Close

\* The loop and every call once begun go on while they are not blocked, the
\* mutexes being fair to a waiter; time passes.
Fairness ==
    /\ WF_vars(Poll) /\ WF_vars(Renew("loop")) /\ SF_vars(Collect) /\ SF_vars(Callback)
    /\ WF_vars(Setter) /\ WF_vars(Renew("setter")) /\ WF_vars(Add \/ AddIn) /\ WF_vars(Close)

Spec == Init /\ [][Next]_vars
FairSpec == Spec /\ Fairness

-----------------------------------------------------------------------------
(* Properties *)

\* Types, and who may hold a mutex.
TypeOK ==
    /\ interest \subseteq Events /\ ready \subseteq Events /\ ev \subseteq Events
    /\ pend \subseteq ev /\ act \subseteq ev \X {"read", "timeout"} /\ alive \subseteq Events
    /\ art \subseteq {Tmr} /\ counter \in [Counters -> 0 .. Limit]
    /\ lockS \in {Nobody, "closer"} /\ lockI \in {Nobody, "loop"}
    /\ lockC \in [Counters -> {Nobody, "loop", "setter"}] /\ out \subseteq Events

\* What is ready is still wanted: an event that was deleted from interest_, by
\* ctl, by renewEv or by closeEvent, is never reported afterwards, although a
\* callback for it may already be under way.
ReadyInInterest == ready \subseteq interest

\* While Epoll::poll reads the events it was given none of them is deleted by
\* closeEvent in another thread, and no deleted event is waiting to be given.
NoUseAfterDelete ==
    /\ pc["loop"] = "process" => out \subseteq alive
    /\ ready \cup interest \subseteq alive

\* A value written to the counter is read by the loop's handler: no interleaving
\* of writes, the callback, the read and renewEv loses the wake-up.
WriteSeen == counter[Fd] > 0 ~> counter[Fd] = 0

\* A timer that expired reaches its handler, unless it is set again.
ExpirySeen == fired ~> ~fired

\* No event is reported or read once it is unwanted or deleted.
LoopSound == TypeOK /\ ReadyInInterest /\ NoUseAfterDelete

\* Whatever happened to an event is seen by its handler.
EventsSeen == WriteSeen /\ ExpirySeen

-----------------------------------------------------------------------------
(* What the code does not keep *)

\* The two mutexes of a timer are never awaited crosswise: a callback holds
\* interest_mutex_ and wants the counter's, settime the other way round.
NoCrossedLocks ==
    ~(/\ pc["loop"] = "expire" /\ lockC[Tmr] = "setter"
      /\ pc["setter"] \in {"renew", "renewAdd", "renewIn"})

=============================================================================
