---------------------------- MODULE CrowSession ----------------------------
(***************************************************************************)
(* Crow's session middleware (crow/middlewares/session.h): requests that   *)
(* run on several worker threads share the cached sessions; a session is   *)
(* loaded from its store when the first request uses it and saved when     *)
(* the last one ends.  before_handle and after_handle hold mutex_, so each *)
(* is one step; what the handler does with the session is a step of its    *)
(* own, under the session's mutex.                                         *)
(*                                                                         *)
(* Two stores: InMemoryStore, and FileStore, which keeps one file per      *)
(* session and deletes it once it expired.  The process may stop orderly   *)
(* and start again, or die, even while it writes; the files stay.  A       *)
(* session holds one value.                                                *)
(***************************************************************************)
EXTENDS Integers, FiniteSets

CONSTANTS
    Requests,           \* request slots, each used again and again
    Ids,                \* session ids that random_alphanum may give
    Values,             \* what a handler stores
    Stores,             \* whether the store may be a FileStore: a set of Booleans
    Lifetime,           \* expiration_seconds_
    MaxTime,            \* ticks of the clock
    MaxUses,            \* requests handled
    MaxStops,           \* restarts
    Evictions           \* how many handle_expired deletes at most

None == "none"
New == "new"            \* the key of a session that has no id yet
NoTime == -1

\* Random strings of one length, so finitely many.
ASSUME IdsAssumption == IsFiniteSet(Ids) /\ Ids \cap {None, New} = {}
ASSUME RequestsAssumption == IsFiniteSet(Requests)
ASSUME StoresAssumption == Stores \subseteq BOOLEAN
ASSUME BoundsAssumption == {Lifetime, MaxTime, MaxUses, MaxStops, Evictions} \subseteq Nat

VARIABLES
    files,              \* the store is a FileStore
    cache,              \* cache_: the sessions in use
    own,                \* sessions created by a request, not in the cache
    req,                \* each request: where it is, and the session it holds
    store,              \* what the store has of each session
    expires,            \* expirations_: the time by session
    saved,              \* the file .expirations
    cookie,             \* history: ids some client was given
    truth,              \* history: the value last stored in each session
    clock, uses, stops,
    hist                \* which of the code's known deviations happened

vars == <<files, cache, own, req, store, expires, saved, cookie, truth, clock, uses, stops, hist>>

\* A CachedSession; store_ entries are kept as {} or {value}.
Absent == [there |-> FALSE, entries |-> {}, torn |-> FALSE]
Torn == [there |-> TRUE, entries |-> {}, torn |-> TRUE]     \* a file that was emptied and not written
NoNode == [in |-> FALSE, entries |-> {}, dirty |-> FALSE, refresh |-> FALSE, referrers |-> 0]
NoSession == [i \in Ids |-> Absent]
Idle == [at |-> "idle", ask |-> None, id |-> None]

Init ==
    /\ files \in Stores
    /\ cache = [i \in Ids |-> NoNode] /\ own = [r \in Requests |-> NoNode]
    /\ req = [r \in Requests |-> Idle]
    /\ store = NoSession /\ expires = [i \in Ids |-> NoTime] /\ saved = [i \in Ids |-> NoTime]
    /\ cookie = {} /\ truth = [i \in Ids |-> {}]
    /\ clock = 0 /\ uses = 0 /\ stops = 0 /\ hist = {}

Stored(i) == store[i].there
Cached(i) == cache[i].in

-----------------------------------------------------------------------------
(* FileStore *)

\* mutant: a session is over one tick too early.
ExpiredEarly(time) == {i \in Ids : time[i] # NoTime /\ clock >= time[i]}

\* The sessions whose time is over, and those of them that handle_expired
\* deletes: the soonest to expire, Evictions of them at most.
Expired(time) == {i \in Ids : time[i] # NoTime /\ clock > time[i]}
Soonest(S) == \A i \in S : \A j \in Expired(expires) \ S : expires[i] <= expires[j]
Evicted(S) ==
    /\ S \subseteq Expired(expires) /\ Soonest(S)
    /\ Cardinality(S) = (IF Cardinality(Expired(expires)) < Evictions THEN Cardinality(Expired(expires)) ELSE Evictions)

\* mutant: nothing is deleted.
HandleExpiredNever(i, S) ==
    /\ S = {} /\ UNCHANGED expires
    /\ IF files THEN UNCHANGED store ELSE store' = [store EXCEPT ![i].entries = {}]

\* handle_expired, at the head of load.
HandleExpired(i, S) ==
    IF files THEN /\ Evicted(S)
                  /\ store' = [j \in Ids |-> IF j \in S THEN Absent ELSE store[j]]
                  /\ expires' = [j \in Ids |-> IF j \in S THEN NoTime ELSE expires[j]]
    ELSE S = {} /\ store' = [store EXCEPT ![i].entries = {}] /\ UNCHANGED expires

\* mutant: what was stored is written only together with a new time.
SaveRefreshed(i, n) ==
    /\ expires' = [expires EXCEPT ![i] = IF files /\ n.refresh THEN clock + Lifetime ELSE @]
    /\ store' = [store EXCEPT ![i] = IF n.refresh \/ ~files THEN [there |-> TRUE, entries |-> n.entries, torn |-> FALSE] ELSE @]

\* save.  A file is written only when something changed.
Save(i, n) ==
    /\ expires' = [expires EXCEPT ![i] = IF files /\ n.refresh THEN clock + Lifetime ELSE @]
    /\ store' = [store EXCEPT ![i] = IF n.dirty \/ ~files THEN [there |-> TRUE, entries |-> n.entries, torn |-> FALSE] ELSE @]

-----------------------------------------------------------------------------
(* before_handle *)

\* A request with the cookie of session i begins, and is given session given.
Begin(r, i, given) ==
    /\ req[r].at = "idle" /\ uses < MaxUses /\ uses' = uses + 1 /\ i \in cookie \cup {None}
    /\ req' = [req EXCEPT ![r] = [at |-> "handle", ask |-> i, id |-> given]]

\* No cookie, or one that no store knows: the request has no session.
BeforeWithout(r, i) ==
    /\ Begin(r, i, None) /\ (i # None => ~Cached(i) /\ ~Stored(i))
    /\ UNCHANGED <<cache, own, store, expires, saved, cookie, truth, clock, stops, hist>>

\* mutants: the requests that share a session are not counted; or each is
\* counted twice.
BeforeCachedUncounted(r, i) ==
    /\ Cached(i) /\ Begin(r, i, i)
    /\ UNCHANGED <<cache, own, store, expires, saved, cookie, truth, clock, stops, hist>>
BeforeCachedTwice(r, i) ==
    /\ Cached(i) /\ Begin(r, i, i)
    /\ cache' = [cache EXCEPT ![i].referrers = @ + 2]
    /\ UNCHANGED <<own, store, expires, saved, cookie, truth, clock, stops, hist>>

\* The session is in use already.
BeforeCached(r, i) ==
    /\ Cached(i) /\ Begin(r, i, i)
    /\ cache' = [cache EXCEPT ![i].referrers = @ + 1]
    /\ UNCHANGED <<own, store, expires, saved, cookie, truth, clock, stops, hist>>

\* The session is loaded.  Deleting what expired may delete its own file, and
\* a session without values was written as null, and a crash leaves a file empty:
\* then load throws, and the request has no session.  InMemoryStore moves the values out.
Unreadable(i, S) == files /\ (i \in S \/ store[i].entries = {})

BeforeLoad(r, i, S) ==
    /\ ~Cached(i) /\ Stored(i) /\ HandleExpired(i, S)
    /\ IF Unreadable(i, S)
       THEN Begin(r, i, None) /\ UNCHANGED cache
       ELSE /\ Begin(r, i, i)
            /\ cache' = [cache EXCEPT ![i] = [NoNode EXCEPT !.in = TRUE, !.entries = store[i].entries, !.referrers = 1]]
    /\ hist' = hist \cup (IF \E j \in S : Cached(j) THEN {"evicted"} ELSE {})
                    \cup (IF i \notin S /\ Cardinality(Expired(expires)) > Evictions THEN {"late"} ELSE {})
                    \cup (IF files /\ store[i].entries = {} THEN {"null"} ELSE {})
    /\ UNCHANGED <<own, saved, cookie, truth, clock, stops>>

-----------------------------------------------------------------------------
(* The handler *)

InHandler(r) == req[r].at = "handle"

\* set, with check_node when the request has no session yet.
SetValue(r, v) ==
    /\ InHandler(r)
    /\ IF req[r].id \in Ids
       THEN /\ cache' = [cache EXCEPT ![req[r].id].entries = {v}, ![req[r].id].dirty = TRUE]
            /\ truth' = [truth EXCEPT ![req[r].id] = {v}] /\ UNCHANGED <<own, req>>
       ELSE /\ own' = [own EXCEPT ![r] = [@ EXCEPT !.in = TRUE, !.entries = {v}, !.dirty = TRUE]]
            /\ req' = [req EXCEPT ![r].id = New] /\ UNCHANGED <<cache, truth>>
    /\ UNCHANGED <<store, expires, saved, cookie, clock, uses, stops, hist>>

\* mutex() alone creates a session, too.
TakeMutex(r) ==
    /\ InHandler(r) /\ req[r].id = None
    /\ own' = [own EXCEPT ![r].in = TRUE] /\ req' = [req EXCEPT ![r].id = New]
    /\ UNCHANGED <<cache, store, expires, saved, cookie, truth, clock, uses, stops, hist>>

\* remove of the value; a session the request created is changed by it, too.
Remove(r) ==
    /\ InHandler(r)
    /\ \/ /\ req[r].id \in Ids
          /\ cache' = [cache EXCEPT ![req[r].id].entries = {}, ![req[r].id].dirty = TRUE]
          /\ truth' = [truth EXCEPT ![req[r].id] = {}] /\ UNCHANGED own
       \/ /\ req[r].id = New
          /\ own' = [own EXCEPT ![r].entries = {}, ![r].dirty = TRUE] /\ UNCHANGED <<cache, truth>>
    /\ UNCHANGED <<req, store, expires, saved, cookie, clock, uses, stops, hist>>

\* refresh_expiration; a new session gets its time anyway.
RefreshExpiration(r) ==
    /\ InHandler(r) /\ req[r].id \in Ids
    /\ cache' = [cache EXCEPT ![req[r].id].refresh = TRUE]
    /\ UNCHANGED <<own, req, store, expires, saved, cookie, truth, clock, uses, stops, hist>>

-----------------------------------------------------------------------------
(* after_handle *)

End(r) == req' = [req EXCEPT ![r] = Idle]

AfterWithout(r) ==
    /\ InHandler(r) /\ req[r].id = None /\ End(r)
    /\ UNCHANGED <<cache, own, store, expires, saved, cookie, truth, clock, uses, stops, hist>>

\* Other requests still use the session.
AfterShared(r) ==
    /\ InHandler(r) /\ req[r].id \in Ids /\ cache[req[r].id].referrers > 1 /\ End(r)
    /\ cache' = [cache EXCEPT ![req[r].id].referrers = @ - 1]
    /\ UNCHANGED <<own, store, expires, saved, cookie, truth, clock, uses, stops, hist>>

\* The last one: out of the cache, and saved.
AfterLast(r) ==
    LET i == req[r].id IN
    /\ InHandler(r) /\ i \in Ids /\ cache[i].referrers <= 1 /\ End(r)
    /\ Save(i, cache[i]) /\ cache' = [cache EXCEPT ![i] = NoNode]
    /\ UNCHANGED <<own, saved, cookie, truth, clock, uses, stops, hist>>

\* A session that the request created gets an id and a cookie, and is saved.
\* Ids are long enough not to repeat.
AfterNew(r, i) ==
    /\ InHandler(r) /\ req[r].id = New /\ End(r)
    /\ i \in Ids \ cookie /\ ~Stored(i) /\ cookie' = cookie \cup {i}
    /\ Save(i, [own[r] EXCEPT !.refresh = TRUE]) /\ own' = [own EXCEPT ![r] = NoNode]
    /\ truth' = [truth EXCEPT ![i] = own[r].entries]
    /\ hist' = hist \cup (IF files /\ ~own[r].dirty THEN {"unwritten"} ELSE {})
    /\ UNCHANGED <<cache, saved, clock, uses, stops>>

-----------------------------------------------------------------------------
(* The process *)

Tick ==
    /\ clock < MaxTime /\ clock' = clock + 1
    /\ UNCHANGED <<cache, own, req, store, expires, saved, cookie, truth, uses, stops, hist>>

\* The FileStore that starts on the files left takes the times of the sessions among them.
Restart(times, left) ==
    /\ stops < MaxStops /\ stops' = stops + 1 /\ files
    /\ store' = [i \in Ids |-> IF i \in Expired(times) THEN Absent ELSE left[i]]
    /\ expires' = [i \in Ids |-> IF store'[i].there THEN times[i] ELSE NoTime]
    /\ cache' = [i \in Ids |-> NoNode] /\ own' = [r \in Requests |-> NoNode]
    /\ req' = [r \in Requests |-> Idle]
    /\ UNCHANGED <<cookie, clock, uses>>

\* mutant: the times are not written on an orderly stop.
StopForgets ==
    /\ \A r \in Requests : req[r].at = "idle"
    /\ saved' = saved /\ Restart(saved, store) /\ UNCHANGED <<truth, hist>>

\* An orderly stop writes .expirations.
Stop ==
    /\ \A r \in Requests : req[r].at = "idle"
    /\ saved' = expires /\ Restart(expires, store) /\ UNCHANGED <<truth, hist>>

\* A crash does not, and what running requests changed is lost.
Dies(left) ==
    /\ Restart(saved, left)
    /\ truth' = [i \in Ids |-> IF Cached(i) THEN store[i].entries ELSE truth[i]]
    /\ hist' = hist \cup {"crash"} /\ UNCHANGED saved

Crash == Dies(store)

\* save empties the file before it writes it: a crash in between leaves it so,
\* for the last request of a session or for one with a new session.
CrashSaving(r, i) ==
    /\ InHandler(r)
    /\ \/ req[r].id = i /\ cache[i].referrers <= 1 /\ cache[i].dirty
       \/ req[r].id = New /\ own[r].dirty /\ i \notin cookie /\ ~Stored(i)
    /\ Dies([store EXCEPT ![i] = Torn])

\* .expirations is emptied first, too: only the lines in S were written.
CrashStopping(S) ==
    /\ \A r \in Requests : req[r].at = "idle"
    /\ saved' = [i \in Ids |-> IF i \in S THEN expires[i] ELSE NoTime] /\ Restart(saved', store)
    /\ hist' = hist \cup {"crash"} /\ UNCHANGED truth

-----------------------------------------------------------------------------

Step ==
    \/ \E r \in Requests :
         \/ \E i \in Ids \cup {None} : BeforeWithout(r, i)
         \/ \E i \in Ids : BeforeCached(r, i) \/ \E S \in SUBSET Ids : BeforeLoad(r, i, S)
         \/ \E v \in Values : SetValue(r, v)
         \/ TakeMutex(r) \/ Remove(r) \/ RefreshExpiration(r)
         \/ AfterWithout(r) \/ AfterShared(r) \/ AfterLast(r)
         \/ \E i \in Ids : AfterNew(r, i) \/ CrashSaving(r, i)
    \/ Tick \/ Stop \/ Crash
    \/ \E S \in SUBSET {i \in Ids : expires[i] # NoTime} : CrashStopping(S)

Next == Step /\ UNCHANGED files
Spec == Init /\ [][Next]_vars

-----------------------------------------------------------------------------
(* Properties *)

Users(i) == {r \in Requests : req[r].id = i}

\* Types.
TypeOK ==
    /\ files \in BOOLEAN /\ clock \in 0 .. MaxTime /\ uses \in 0 .. MaxUses /\ cookie \subseteq Ids
    /\ \A i \in Ids : /\ cache[i].entries \subseteq Values /\ cache[i].referrers \in 0 .. Cardinality(Requests)
                      /\ store[i].entries \subseteq Values /\ expires[i] \in NoTime .. MaxTime + Lifetime

\* A session is in the cache exactly while requests use it, its referrers are
\* those requests, and a request's new session is nobody else's.
CacheExact ==
    /\ \A i \in Ids : Cached(i) = (Users(i) # {}) /\ cache[i].referrers = Cardinality(Users(i))
    /\ \A r \in Requests : own[r].in = (req[r].id = New)

\* What the requests stored in a session is there for the next one, however
\* they overlap: in the cache while one of them runs, in the store afterwards,
\* and after a crash, unless it came while that very file was written.
NothingLost ==
    \A i \in cookie :
        /\ Cached(i) => cache[i].entries = truth[i]
        /\ ~Cached(i) /\ Stored(i) /\ ~store[i].torn => store[i].entries = truth[i]

\* Every file has a time at which it is deleted, in the process and, after an
\* orderly stop, in the next one.
Tracked ==
    files /\ hist \cap {"evicted", "crash"} = {} => \A i \in Ids : Stored(i) => expires[i] # NoTime

\* A client that comes with the cookie of a session that did not expire is
\* given that session, with the values it left there.
Honoured ==
    \A r \in Requests, i \in cookie :
        req[r].at = "idle" /\ req'[r].ask = i /\ (files => expires[i] >= clock) => req'[r].id = i
CookieHonoured == hist' \subseteq {"late"} => Honoured

\* A session that expired is not handed out again.
NotAfterExpiry ==
    hist' \cap {"late"} = {} =>
        \A r \in Requests, i \in Ids :
            req[r].id # i /\ req'[r].id = i /\ ~Cached(i) => expires[i] = NoTime \/ clock <= expires[i]

\* A request is given the session its cookie names, while it lasts and not after.
SessionsHonoured == [][CookieHonoured /\ NotAfterExpiry]_vars

\* Sessions are counted, kept and tracked as they should be.
SessionsSound == TypeOK /\ CacheExact /\ NothingLost /\ Tracked

-----------------------------------------------------------------------------
(* What the code does not keep *)

\* A crash loses what the running requests changed, and nothing that was saved before.
SavedSurvives == \A i \in cookie : ~Cached(i) /\ Stored(i) => store[i].entries = truth[i]

\* Files are deleted after expiration, whatever happens meanwhile.
TrackedAlways == files => \A i \in Ids : Stored(i) => expires[i] # NoTime

\* The cookie of a new session names a session, whatever the handler did with it.
CookieOfSession == [][hist' \subseteq {"unwritten"} => Honoured]_vars

\* A session is still there when its last value was removed.
EmptyHonoured == [][hist' \subseteq {"null"} => Honoured]_vars

\* A session is loaded only before it expires.
NeverLate == "late" \notin hist
=============================================================================
