--------------------------- MODULE PistacheRouter ---------------------------
(***************************************************************************)
(* Pistache's Rest::Router (router.cc): a tree of path segments for each   *)
(* method, in which routes are registered, removed and looked up.          *)
(*                                                                         *)
(* A resource is the sequence of its segments, as sanitizeResource leaves  *)
(* it: those of a route are fixed, parameters, optional parameters or      *)
(* splats; those of a request are values.  A node of the tree is the       *)
(* sequence of segments that leads to it.  The order in which the          *)
(* unordered_maps of a node are walked is any order.                       *)
(***************************************************************************)
EXTENDS Naturals, Sequences, FiniteSets, SequencesExt

CONSTANTS
  Methods,      \* Http::Method
  RoutePaths,   \* the resources routes are registered for
  Requests,     \* the resources that are asked for
  MaxRoutes,    \* how many routes there may be at a time
  MaxHandlers   \* how many custom handlers and middlewares there may be

Segments == [kind : {"fixed", "param", "optional", "splat"}, name : STRING]

ASSUME PathsAssumption == RoutePaths \subseteq Seq(Segments) /\ MaxRoutes \in Nat /\ MaxHandlers \in Nat

VARIABLES
  routes,       \* routes[m]: the nodes of the tree of m, and those that have a route_
  handlers,     \* the number of middlewares and customHandlers, and whether there is a notFoundHandler
  registered,   \* the routes that were added and not removed, by method
  answer,       \* what came of the request route() just handled
  hist          \* whether a route with a splat was removed

vars == <<routes, handlers, registered, answer, hist>>

Root == <<>>
EmptyTree == [made |-> FALSE, nodes |-> {Root}, leaves |-> {}]
NoAnswer == [status |-> "none", request |-> Root, method |-> "", route |-> Root, params |-> <<>>, splats |-> <<>>,
             allowed |-> {}]

Init ==
  /\ routes = [m \in Methods |-> EmptyTree]
  /\ handlers = [middlewares |-> 0, custom |-> 0, notFound |-> FALSE]
  /\ registered = [m \in Methods |-> {}]
  /\ answer = NoAnswer
  /\ hist = {}

-----------------------------------------------------------------------------
(* SegmentTreeNode. *)

PrefixesOf(path) == {SubSeq(path, 1, i) : i \in 0 .. Len(path)}

Children(t, n, kind) == {c \in t.nodes : Len(c) = Len(n) + 1 /\ IsPrefix(n, c) /\ Last(c).kind = kind}

Childless(t, n) == \A c \in t.nodes : ~(Len(c) = Len(n) + 1 /\ IsPrefix(n, c))

\* A bug: the nodes on the way are not made.
InsertLeaf(t, path) == [t EXCEPT !.nodes = @ \cup {path}, !.leaves = @ \cup {path}]

\* addRoute: throws where the route exists; the nodes on the way exist then, too.
InsertRoute(t, path) == [t EXCEPT !.nodes = @ \cup PrefixesOf(path), !.leaves = @ \cup {path}]

\* A bug: a node is removed with its route, whatever is below it.
RemovableAlways(t, n) == n \notin t.leaves

\* What removeRoute returns for a node.
Removable(t, n) == Childless(t, n) /\ n \notin t.leaves

\* removeRoute, from the leaf back up: a child that is removable is erased.  A splat is not, and
\* the node it belongs to returns what the splat returned, whatever else it holds.
EraseRoute(t, path) ==
  LET bare == [t EXCEPT !.leaves = @ \ {path}]
      Up[i \in 0 .. Len(path)] ==
        IF i = Len(path) THEN [t |-> bare, removable |-> Removable(bare, path)]
        ELSE LET below == Up[i + 1]
                 child == SubSeq(path, 1, i + 1)
                 kept == [below.t EXCEPT !.nodes = {n \in @ : ~IsPrefix(child, n)},
                                         !.leaves = {n \in @ : ~IsPrefix(child, n)}]
                 now == IF below.removable THEN kept ELSE below.t
             IN IF path[i + 1].kind = "splat" THEN below
                ELSE [t |-> now, removable |-> Removable(now, SubSeq(path, 1, i))]
  IN Up[0].t

None == [route |-> <<[kind |-> "none", name |-> ""]>>, params |-> <<>>, splats |-> <<>>]

\* The first search that finds something.
OrElse(A, B) == (A \ {None}) \cup (IF None \in A THEN B ELSE {})

\* The results of searches made in any order until one finds something.
FirstOf(results) == UNION {r \ {None} : r \in results} \cup (IF \A r \in results : None \in r THEN {None} ELSE {})

\* A bug: where there is a fixed segment, the others are not tried.
ChooseFixed(fixed, param, optional, splat) == IF fixed # {} THEN FirstOf(fixed) ELSE OrElse(FirstOf(param), OrElse(FirstOf(optional), FirstOf(splat)))

\* A bug: parameters go before fixed segments.
ChooseParam(fixed, param, optional, splat) ==
  OrElse(FirstOf(param), OrElse(FirstOf(fixed), OrElse(FirstOf(optional), FirstOf(splat))))

\* The order in which a node's children are tried.
Choose(fixed, param, optional, splat) ==
  OrElse(FirstOf(fixed), OrElse(FirstOf(param), OrElse(FirstOf(optional), FirstOf(splat))))

\* A bug: a parameter is added once the rest of the path was searched.
BindLate(c, value, found) ==
  {IF r = None THEN None
   ELSE IF Last(c).kind = "splat" THEN [r EXCEPT !.splats = <<value>> \o @]
   ELSE [r EXCEPT !.params = Append(@, <<Last(c).name, value>>)] : r \in found}

\* What was found below a parameter or a splat, with its value.
Bind(c, value, found) ==
  {IF r = None THEN None
   ELSE IF Last(c).kind = "splat" THEN [r EXCEPT !.splats = <<value>> \o @]
   ELSE [r EXCEPT !.params = <<<<Last(c).name, value>>>> \o @] : r \in found}

\* findRoute.  The second search below an optional, meant for a path without it, is made for the
\* same lower path as the first and adds nothing.
FindRoute(t, request) ==
  LET Found[n \in t.nodes, i \in 1 .. Len(request) + 1] ==
        LET bound(kind) == {Bind(c, request[i], Found[c, i + 1]) : c \in Children(t, n, kind)}
            fixed == {c \in Children(t, n, "fixed") : Last(c).name = request[i]}
        IN IF i <= Len(request)
           THEN Choose({Found[c, i + 1] : c \in fixed}, bound("param"), bound("optional"), bound("splat"))
           ELSE IF Children(t, n, "optional") # {}
           THEN UNION {Found[c, i] : c \in Children(t, n, "optional")}
           ELSE IF n \in t.leaves THEN {[None EXCEPT !.route = n]}
           ELSE {None}
  IN Found[Root, 1]

-----------------------------------------------------------------------------
(* Router. *)

\* routes[method] makes the tree, even when the call then throws.
AddRoute(m, path) ==
  /\ answer = NoAnswer
  /\ Cardinality(UNION {{o} \X registered[o] : o \in Methods}) < MaxRoutes
  /\ routes' = [routes EXCEPT ![m] = IF path \in @.leaves THEN [@ EXCEPT !.made = TRUE]
                                     ELSE [InsertRoute(@, path) EXCEPT !.made = TRUE]]
  /\ registered' = [registered EXCEPT ![m] = @ \cup {path}]
  /\ UNCHANGED <<handlers, answer, hist>>

\* A resource without a node throws; one with a node that has no route does nothing.
RemoveRoute(m, path) ==
  /\ answer = NoAnswer
  /\ routes' = [routes EXCEPT ![m] = IF path \in @.nodes THEN [EraseRoute(@, path) EXCEPT !.made = TRUE]
                                     ELSE [@ EXCEPT !.made = TRUE]]
  /\ registered' = [registered EXCEPT ![m] = @ \ {path}]
  /\ hist' = hist \cup (IF path \in routes[m].nodes /\ \E i \in DOMAIN path : path[i].kind = "splat"
                        THEN {"splat"} ELSE {})
  /\ UNCHANGED <<handlers, answer>>

AddMiddleware ==
  /\ answer = NoAnswer
  /\ handlers.middlewares < MaxHandlers
  /\ handlers' = [handlers EXCEPT !.middlewares = @ + 1]
  /\ UNCHANGED <<routes, registered, answer, hist>>

AddCustomHandler ==
  /\ answer = NoAnswer
  /\ handlers.custom < MaxHandlers
  /\ handlers' = [handlers EXCEPT !.custom = @ + 1]
  /\ UNCHANGED <<routes, registered, answer, hist>>

AddNotFoundHandler ==
  /\ answer = NoAnswer
  /\ handlers' = [handlers EXCEPT !.notFound = TRUE]
  /\ UNCHANGED <<routes, registered, answer, hist>>

Answer(m, request, status, found, allowed) ==
  [status |-> status, request |-> request, method |-> m, route |-> found.route, params |-> found.params,
   splats |-> found.splats, allowed |-> allowed]

\* A bug: the methods that find nothing are listed, too.
ListedAll(m, listed, request) == listed = {o \in Methods \ {m} : routes[o].made}

\* The methods sendMethodNotAllowed lists: the other ones that find a route.
Listed(m, listed, request) ==
  /\ \A o \in listed : routes[o].made /\ FindRoute(routes[o], request) # {None}
  /\ \A o \in Methods \ ({m} \cup listed) : routes[o].made => None \in FindRoute(routes[o], request)

\* Router::route.  A middleware may end it; then the route, the custom handlers in turn, the
\* methods that would have found a route, and the handler for what was not found.
Route(m, request) ==
  /\ answer = NoAnswer
  /\ \E found \in IF routes[m].made THEN FindRoute(routes[m], request) ELSE {None},
        supported \in SUBSET (Methods \ {m}) :
       /\ Listed(m, supported, request)
       /\ answer' \in
            (IF handlers.middlewares > 0 THEN {Answer(m, request, "middleware", None, {})} ELSE {})
            \cup
            (IF found # None THEN {Answer(m, request, "match", found, {})}
             ELSE (IF handlers.custom > 0 THEN {Answer(m, request, "custom", None, {})} ELSE {})
                  \cup {IF supported # {} THEN Answer(m, request, "not allowed", None, supported)
                        ELSE Answer(m, request, IF handlers.notFound THEN "not found handler" ELSE "not found", None, {})})
  /\ UNCHANGED <<routes, handlers, registered, hist>>

\* route() returns.
Answered == answer # NoAnswer /\ answer' = NoAnswer /\ UNCHANGED <<routes, handlers, registered, hist>>

Next ==
  \/ \E m \in Methods, path \in RoutePaths : AddRoute(m, path) \/ RemoveRoute(m, path)
  \/ AddMiddleware \/ AddCustomHandler \/ AddNotFoundHandler
  \/ \E m \in Methods, request \in Requests : Route(m, request)
  \/ Answered

Spec == Init /\ [][Next]_vars

-----------------------------------------------------------------------------
(* Properties. *)

\* Every variable keeps its type, and each tree is a tree: it holds the prefixes of its nodes (addRoute).
TypeOK ==
  /\ \A m \in Methods : /\ \A n \in routes[m].nodes : PrefixesOf(n) \subseteq routes[m].nodes
                        /\ routes[m].leaves \subseteq routes[m].nodes
                        /\ Root \in routes[m].nodes
  /\ handlers \in [middlewares : 0 .. MaxHandlers, custom : 0 .. MaxHandlers, notFound : BOOLEAN]
  /\ registered \in [Methods -> SUBSET RoutePaths]

\* The tree of a method holds exactly the routes that were added and not removed, and no branch that
\* leads to none of them (addRoute, removeRoute); as long as no route with a splat was removed.
TreeExact ==
  hist = {} => \A m \in Methods : /\ routes[m].leaves = registered[m]
                                  /\ routes[m].nodes = {Root} \cup UNION {PrefixesOf(r) : r \in registered[m]}

\* The same whatever was removed ("Removes the route handler associated to a given path").
RemovesOnlyItsRoute == \A m \in Methods : routes[m].leaves = registered[m]

\* A segment of a route stands for a value.
StandsFor(segment, value) == segment.kind # "fixed" \/ segment.name = value

\* A route matches a request of as many segments, or of fewer when the rest are optional.
Matches(route, request) ==
  /\ Len(request) <= Len(route)
  /\ \A i \in DOMAIN request : StandsFor(route[i], request[i])
  /\ \A i \in Len(request) + 1 .. Len(route) : route[i].kind = "optional"

ParamsOf(route, request) ==
  LET is(i) == route[i].kind \in {"param", "optional"}
      at == SelectSeq([i \in DOMAIN request |-> i], is)
  IN [j \in DOMAIN at |-> <<route[at[j]].name, request[at[j]]>>]

SplatsOf(route, request) ==
  LET is(i) == route[i].kind = "splat"
      at == SelectSeq([i \in DOMAIN request |-> i], is)
  IN [j \in DOMAIN at |-> request[at[j]]]

\* A handler is only called for a request its route matches, with each parameter
\* and each splat bound to its own segment, whatever the search tried before (findRoute's params.pop_back).
MatchSound ==
  answer.status = "match" =>
    /\ answer.route \in routes[answer.method].leaves
    /\ Matches(answer.route, answer.request)
    /\ answer.params = ParamsOf(answer.route, answer.request)
    /\ answer.splats = SplatsOf(answer.route, answer.request)

\* No optional parameter follows this route: one that does hides it from a request that ends there.
Unhidden(m, route) == \A o \in registered[m] : ~(Len(o) > Len(route) /\ IsPrefix(route, o) /\ o[Len(route) + 1].kind = "optional")

Plainly(m, request) == {r \in registered[m] : Len(r) = Len(request) /\ Matches(r, request) /\ Unhidden(m, r)}

\* A request that some route matches segment by segment always finds one: a wrong turn in
\* the tree is always taken back.  A 405 lists every method that would have matched, and a 404 means that none does.
MatchComplete ==
  hist = {} =>
    /\ answer.status \in {"custom", "not allowed", "not found", "not found handler"} => Plainly(answer.method, answer.request) = {}
    /\ answer.status \in {"not allowed", "not found", "not found handler"} =>
         \A m \in Methods \ {answer.method} : Plainly(m, answer.request) # {} => m \in answer.allowed

\* A 405 lists no method for which the resource would not be found (RFC 7231, quoted in Router::route).
AllowedExists ==
  \A m \in answer.allowed : \E r \in routes[m].leaves : Matches(r, answer.request)

\* A route of fixed segments only wins over every other one that matches the request.
FixedFirst ==
  (hist = {} /\ answer.status = "match") =>
    \A r \in Plainly(answer.method, answer.request) :
      (\A i \in DOMAIN r : r[i].kind = "fixed") => answer.route = r

\* The tree is what was registered, and the answers are right by it.
RouterSound == TypeOK /\ TreeExact /\ MatchSound /\ MatchComplete /\ AllowedExists /\ FixedFirst

\* A route is found whatever other routes there are ("in case of more than one optional at this point,
\* as it is an ambiguity, it is resolved by using the first optional"): false of a route that an optional follows.
NeverHidden ==
  (hist = {} /\ answer.status \in {"not found", "not found handler"}) =>
    \A r \in registered[answer.method] : Len(r) = Len(answer.request) => ~Matches(r, answer.request)
====
