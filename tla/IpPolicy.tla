------------------------------ MODULE IpPolicy ------------------------------
(***************************************************************************)
(* libhttpserver's policy on addresses: ban_ip, unban_ip, allow_ip and     *)
(* disallow_ip over two std::sets of ip_representation, and the decision   *)
(* of policy_callback.  The sets are ordered by operator<, which adds up   *)
(* the weighted pieces both sides have unmasked: neither the comparison of *)
(* two wildcards nor that of two plain addresses is an order on addresses, *)
(* so what a set finds depends on the tree it has grown.  The tree is kept *)
(* here: a root and its two children, which no rotation ever touches.      *)
(*                                                                         *)
(* Nothing locks the sets: policy_callback runs in the daemon's thread and *)
(* meets a call of the program half done.  Every operation on one set is a *)
(* step, and the program's threads make one call at a time.                *)
(*                                                                         *)
(* Addresses are IPv4: pieces 12 to 15, a wildcard being a cleared bit of  *)
(* the mask.                                                               *)
(***************************************************************************)
EXTENDS Integers, Sequences, FiniteSets, FiniteSetsExt

CONSTANTS
    Patterns,       \* what is banned and allowed: four pieces, Any for a wildcard
    Undone,         \* what is unbanned and disallowed
    Clients         \* addresses of clients

Any == -1
None == <<>>

Covers(p, a) == \A i \in 1 .. 4 : p[i] = Any \/ p[i] = a[i]

VARIABLES
    policy,             \* default_policy, fixed when the server is made
    bans, allowances,   \* the sets: [root, left, right]
    pending,            \* the wider range ban_ip or allow_ip has yet to insert, None without one
    decision,           \* policy_callback: where it is, for which client, and what it decided
    banned, allowed     \* history: patterns given and not taken back

vars == <<policy, bans, allowances, pending, decision, banned, allowed>>

Empty == [root |-> None, left |-> None, right |-> None]
\* History: the right decisions since it began, the calls that overlapped it, and whether one of them widened.
Undecided == [at |-> "idle", client |-> None, refused |-> FALSE, right |-> {}, met |-> 0, widened |-> FALSE]

Init ==
    /\ policy \in {"ACCEPT", "REJECT"} /\ bans = Empty /\ allowances = Empty
    /\ pending = None /\ decision = Undecided /\ banned = {} /\ allowed = {}

-----------------------------------------------------------------------------
(* ip_representation *)

\* The score of a against b: (16 - i) times piece i, where neither is masked.
Score(a, b) ==
    MapThenSumSet(LAMBDA i : (5 - i) * a[i], {i \in 1 .. 4 : a[i] # Any /\ b[i] # Any})

Less(a, b) == Score(a, b) < Score(b, a)

\* The bits of the mask that are set, the twelve before the pieces included.
Weight(p) == 12 + Cardinality({i \in 1 .. 4 : p[i] # Any})

-----------------------------------------------------------------------------
(* std::set *)

\* find: the lower bound, unless the key is less than it.
LowerBound(t, k) ==
    IF t.root = None THEN None
    ELSE IF ~Less(t.root, k)
         THEN IF t.left # None /\ ~Less(t.left, k) THEN t.left ELSE t.root
         ELSE IF t.right # None /\ ~Less(t.right, k) THEN t.right ELSE None

Found(t, k) == LET n == LowerBound(t, k) IN IF n # None /\ Less(k, n) THEN None ELSE n

\* insert: down to a free place, unless the node before it is not less than
\* the key.  A place below the children would start rotations: not modelled.
Insert(t, k) ==
    CASE t.root = None -> [t EXCEPT !.root = k]
      [] t.root # None /\ Less(k, t.root) ->
            IF t.left = None THEN [t EXCEPT !.left = k] ELSE t
      [] OTHER ->
            IF Less(t.root, k) /\ t.right = None THEN [t EXCEPT !.right = k] ELSE t

\* The insertions that need no place below the children.
Fits(t, k) ==
    CASE t.root = None -> TRUE
      [] t.root # None /\ Less(k, t.root) ->
            t.left # None => ~Less(k, t.left) /\ ~Less(t.left, k)
      [] OTHER ->
            t.right # None => ~Less(t.right, k) /\ (Less(k, t.right) => ~Less(t.root, k))

\* erase of a node: the successor takes the place of a root with two children.
EraseRoot(t) ==
    IF t.right # None THEN [t EXCEPT !.root = t.right, !.right = None]
    ELSE [root |-> t.left, left |-> None, right |-> None]

EraseNode(t, n) ==
    CASE n = t.left -> [t EXCEPT !.left = None]
      [] n = t.right -> [t EXCEPT !.right = None]
      [] n = t.root -> EraseRoot(t)

\* erase by key: the range between the lower and the upper bound.
Erase(t, k) ==
    CASE t.root = None -> t
      [] t.root # None /\ Less(t.root, k) ->
            IF t.right # None /\ ~Less(k, t.right) /\ ~Less(t.right, k)
            THEN [t EXCEPT !.right = None] ELSE t
      [] t.root # None /\ Less(k, t.root) ->
            IF t.left # None /\ ~Less(k, t.left) /\ ~Less(t.left, k)
            THEN [t EXCEPT !.left = None] ELSE t
      [] OTHER ->
            EraseRoot([t EXCEPT !.left = IF @ # None /\ ~Less(@, k) THEN None ELSE @,
                                !.right = IF @ # None /\ ~Less(k, @) THEN None ELSE @])

-----------------------------------------------------------------------------
(* The operations *)

In(ps, a) == \E p \in ps : Covers(p, a)

\* What the calls made so far say of a client: it is in a range that was banned
\* and in none that was allowed, or, under REJECT, in no range that was allowed
\* or in one that was banned.
Verdict(b, l, a) ==
    \/ policy = "ACCEPT" /\ In(b, a) /\ ~In(l, a)
    \/ policy = "REJECT" /\ (~In(l, a) \/ In(b, a))

\* A call is made while a client is decided on.
Meets(b, l, widened) ==
    decision' = IF decision.at # "second" THEN decision
                ELSE [decision EXCEPT !.right = @ \cup {Verdict(b, l, decision.client)}, !.met = IF @ = 0 THEN 1 ELSE 2,
                                      !.widened = @ \/ widened]

\* A wider range replaces the entry it is found equal to.
Wider(t, p) == LET n == Found(t, p) IN n # None /\ Weight(p) < Weight(n)
Widens(t, p) == Fits(IF Wider(t, p) THEN EraseNode(t, Found(t, p)) ELSE t, p)

\* ban_ip and allow_ip: the entry is erased before the wider range is inserted.
BanIp(p) ==
    /\ pending = None /\ Widens(bans, p) /\ banned' = banned \cup {p}
    /\ bans' = IF Wider(bans, p) THEN EraseNode(bans, Found(bans, p)) ELSE Insert(bans, p)
    /\ pending' = IF Wider(bans, p) THEN <<"bans", p>> ELSE None
    /\ Meets(banned', allowed, Wider(bans, p))
    /\ UNCHANGED <<policy, allowances, allowed>>

AllowIp(p) ==
    /\ pending = None /\ Widens(allowances, p) /\ allowed' = allowed \cup {p}
    /\ allowances' = IF Wider(allowances, p) THEN EraseNode(allowances, Found(allowances, p)) ELSE Insert(allowances, p)
    /\ pending' = IF Wider(allowances, p) THEN <<"allowances", p>> ELSE None
    /\ Meets(banned, allowed', Wider(allowances, p))
    /\ UNCHANGED <<policy, bans, banned>>

InsertWider ==
    /\ pending # None /\ pending' = None
    /\ bans' = IF pending[1] = "bans" THEN Insert(bans, pending[2]) ELSE bans
    /\ allowances' = IF pending[1] = "allowances" THEN Insert(allowances, pending[2]) ELSE allowances
    /\ UNCHANGED <<policy, decision, banned, allowed>>

UnbanIp(p) ==
    /\ pending = None /\ bans' = Erase(bans, p) /\ banned' = banned \ {p}
    /\ Meets(banned', allowed, FALSE)
    /\ UNCHANGED <<policy, allowances, pending, allowed>>

DisallowIp(p) ==
    /\ pending = None /\ allowances' = Erase(allowances, p) /\ allowed' = allowed \ {p}
    /\ Meets(banned, allowed', FALSE)
    /\ UNCHANGED <<policy, bans, pending, banned>>

-----------------------------------------------------------------------------
(* policy_callback, the ban system being enabled *)

Has(t, a) == Found(t, a) # None
Refused(a) ==
    \/ policy = "ACCEPT" /\ Has(bans, a) /\ ~Has(allowances, a)
    \/ policy = "REJECT" /\ (~Has(allowances, a) \/ Has(bans, a))

Decides(refused) == decision' = [decision EXCEPT !.at = "done", !.refused = refused]

\* One set is asked first, and the other one only if that does not settle it.
First(a) ==
    LET settled == ~Has(IF policy = "ACCEPT" THEN bans ELSE allowances, a)
    IN  /\ decision.at = "idle"
        /\ decision' = [Undecided EXCEPT !.at = IF settled THEN "done" ELSE "second", !.client = a,
                                         !.refused = settled /\ policy = "REJECT",
                                         !.right = {Verdict(banned, allowed, a)},
                                         !.widened = pending # None]
        /\ UNCHANGED <<policy, bans, allowances, pending, banned, allowed>>

Second ==
    /\ decision.at = "second"
    /\ IF policy = "ACCEPT" THEN Decides(~Has(allowances, decision.client)) ELSE Decides(Has(bans, decision.client))
    /\ UNCHANGED <<policy, bans, allowances, pending, banned, allowed>>

Decided == decision.at = "done" /\ decision' = Undecided /\ UNCHANGED <<policy, bans, allowances, pending, banned, allowed>>

Next ==
    \/ \E p \in Patterns : BanIp(p) \/ AllowIp(p)
    \/ InsertWider
    \/ \E p \in Undone : UnbanIp(p) \/ DisallowIp(p)
    \/ \E a \in Clients : First(a)
    \/ Second \/ Decided

Spec == Init /\ [][Next]_vars

-----------------------------------------------------------------------------

\* Types.
TypeOK ==
    /\ \A t \in {bans, allowances} :
          /\ {t.root, t.left, t.right} \subseteq Patterns \cup {None}
          /\ t.root = None => t.left = None /\ t.right = None
    /\ policy \in {"ACCEPT", "REJECT"} /\ banned \subseteq Patterns /\ allowed \subseteq Patterns
    /\ decision.at \in {"idle", "second", "done"} /\ decision.client \in Clients \cup {None}

\* A client is turned away exactly when the calls made so far say so, whatever
\* order they came in and whatever trees they left: between calls, and, when one
\* call that widens nothing comes between the two questions, as before that call
\* or as after it.
PolicyKept ==
    /\ pending = None => \A a \in Clients : Refused(a) <=> Verdict(banned, allowed, a)
    /\ decision.at = "done" /\ decision.met < 2 /\ ~decision.widened => decision.refused \in decision.right

\* What the code does not keep: the same while a range is widened (a client that
\* was banned and stays banned is let in), and whatever calls come between.
PolicyAlways == \A a \in Clients : Refused(a) <=> Verdict(banned, allowed, a)
DecisionAlways == decision.at = "done" /\ ~decision.widened => decision.refused \in decision.right

=============================================================================
