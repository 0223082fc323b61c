----------------------------- MODULE MCRequests -----------------------------
(***************************************************************************)
(* Instances, for TLC, of the modules that take a request apart and find   *)
(* who answers it: PistacheParser, CrowParser, PistacheRouter,             *)
(* CrowRouting, HttpResources and IpPolicy.  They share one state space:   *)
(* the initial state picks the one that moves, the others rest.            *)
(***************************************************************************)
EXTENDS PistacheRouter, TLC

CONSTANTS
  Components,       \* the ones to check
  Blueprints,       \* of CrowRouting
  Urls, Unregisters,    \* of HttpResources
  Patterns, Clients     \* of IpPolicy

VARIABLES
  component,
  side, sent, wire, parser, todo, out, pHist,                               \* PistacheParser
  cStream, cSent, pos, cParser, mark, again, self, handled, cHist,          \* CrowParser
  rules, catchalls, state, tries, cAnswer,                                  \* CrowRouting
  resources, str, hPending, search, live, calls,                            \* HttpResources
  policy, bans, allowances, iPending, decision, banned, allowed             \* IpPolicy

pVars == <<side, sent, wire, parser, todo, out, pHist>>
cVars == <<cStream, cSent, pos, cParser, mark, again, self, handled, cHist>>
gVars == <<rules, catchalls, state, tries, cAnswer>>
hVars == <<resources, str, hPending, search, live, calls>>
iVars == <<policy, bans, allowances, iPending, decision, banned, allowed>>

F(name) == [kind |-> "fixed", name |-> name]
V(name) == [kind |-> "param", name |-> name]
O(name) == [kind |-> "optional", name |-> name]
Splat == [kind |-> "splat", name |-> "*"]

MCRoutePaths == {
  <<F("a")>>, <<F("a"), F("b")>>, <<F("a"), V("x")>>, <<V("y"), F("b")>>, <<F("a"), Splat>>,
  <<F("a"), O("z"), F("c")>>, <<V("y"), V("x"), F("c")>> }

MCRequestPaths == {<<>>, <<"a">>, <<"a", "b">>, <<"c", "b">>, <<"a", "c">>, <<"a", "b", "c">>, <<"c", "c", "c">>}

-----------------------------------------------------------------------------
(* The parsers *)

PM == INSTANCE PistacheMessages
P == INSTANCE PistacheParser WITH
       Sides <- {"server", "client"}, Messages <- PM!Messages, MaxMessages <- 2, MaxSize <- 27, hist <- pHist

CM == INSTANCE CrowMessages
C == INSTANCE CrowParser WITH
       Messages <- CM!Messages, MaxMessages <- 2, MaxHeader <- 33, Top <- 35,
       stream <- cStream, sent <- cSent, parser <- cParser, hist <- cHist

-----------------------------------------------------------------------------
(* CrowRouting *)

CrowUrls == {<<"/", "x">>, <<"/", "x", "/">>, <<"/", "<int>">>, <<"/", "<string>">>,
             <<"/", "<string>", "/", "x">>, <<"/", "x", "<path>">>}

\* The blueprint "b" with a blueprint "c" below it, and one called "bx".
MCBlueprints == (<<0>> :> <<"b">>) @@ (<<0, 0>> :> <<"b", "/", "c">>) @@ (<<1>> :> <<"b", "x">>)

\* The same with a blueprint below "bx".
MCNested == MCBlueprints @@ (<<1, 0>> :> <<"b", "x", "/", "c">>)

\* "b" has two blueprints below it, so that the index of "bx" is also that of one of them.
MCSiblings == MCBlueprints @@ (<<0, 1>> :> <<"b", "/", "d">>)

\* "b" alone, with two blueprints below it.
MCTwins == (<<0>> :> <<"b">>) @@ (<<0, 0>> :> <<"b", "/", "c">>) @@ (<<0, 1>> :> <<"b", "/", "d">>)

\* The app is <<>>.
Catchalls == {{<<>>, <<0>>, <<0, 0>>, <<1>>}, {<<0, 0>>, <<0, 1>>}}

CrowRequests ==
  {<<"/", "x">>, <<"/", "1">>, <<"/", "1", "/", "x">>, <<"/", "x", "/">>, <<"/", "x", "1">>,
   <<"/", "b", "/", "c", "/", "x">>, <<"/", "b", "/", "c", "/", "x", "/">>, <<"/", "b", "/", "c", "/", "b">>, <<"/", "b", "x", "/", "b">>,
   <<"/", "b", "x", "/", "c", "/", "b">>}

G == INSTANCE CrowRouting WITH
       Urls <- CrowUrls, BpUrls <- {<<"/", "x">>, <<"/", "x", "/">>}, CatchallSets <- Catchalls,
       Requests <- CrowRequests, MaxRules <- 3, answer <- cAnswer

-----------------------------------------------------------------------------
(* HttpResources and IpPolicy *)

MCUrls == {<<>>, <<"a">>, <<"x">>, <<"a", "b">>, <<"a", "x">>, <<"a", "r">>}
MCFamilies == {<<>>, <<"a">>, <<"x">>, <<"a", "r">>}
HttpRequests == {<<>>, <<"a">>, <<"b">>, <<"a", "b">>, <<"a", "a">>, <<"b", "a">>, <<"a", "a", "b">>}

\* Urls that are no families, unregistered as they were spelled.
MCUnregisters == {<<"a", "b">>, <<"a", "x">>}

\* A family that is unregistered; one parameter under two names; a parameter
\* that takes slashes at the root.
MCFamilyToo == {<<"a">>}
MCSpellings == {<<"a", "x">>, <<"a", "y">>}
MCRooted == {<<"r">>, <<"a">>}

H == INSTANCE HttpResources WITH
       Families <- MCFamilies, Requests <- HttpRequests, Resources <- {"h1", "h2"}, MaxCalls <- 3,
       registered <- resources, pending <- hPending

\* Ranges inside one another, and an address apart from them; -1 is a wildcard.
MCPatterns == {<<10, 0, 0, 1>>, <<10, 0, 0, -1>>, <<10, 0, -1, -1>>, <<20, 0, 0, 1>>}
MCClients == {<<10, 0, 0, 1>>, <<10, 0, 0, 2>>, <<10, 0, 1, 1>>, <<20, 0, 0, 1>>, <<30, 0, 0, 9>>}

\* 10.0.0.1 and 9.1.0.2 have the same score; ranges that overlap.
MCScores == {<<10, 0, 0, 1>>, <<9, 1, 0, 2>>}
MCOverlap == {<<10, 0, 0, -1>>, <<10, 0, -1, 1>>}
MCOverlapClients == {<<10, 0, 5, 1>>, <<10, 0, 0, 5>>}

I == INSTANCE IpPolicy WITH Undone <- Patterns \cap {<<20, 0, 0, 1>>}, pending <- iPending

-----------------------------------------------------------------------------

ASSUME P!MessagesAssumption
ASSUME G!RulesAssumption

\* The methods of the two routers are alike.
Symmetry == Permutations(Methods)

Rests(v) == v = "rest"

MCInit ==
  /\ component \in Components /\ Init
  /\ IF component = "parser" THEN P!Init
     ELSE Rests(side) /\ Rests(sent) /\ Rests(wire) /\ Rests(parser) /\ Rests(todo) /\ Rests(out) /\ Rests(pHist)
  /\ IF component = "crow parser" THEN C!Init
     ELSE /\ Rests(cStream) /\ Rests(cSent) /\ Rests(pos) /\ Rests(cParser) /\ Rests(mark)
          /\ Rests(again) /\ Rests(self) /\ Rests(handled) /\ Rests(cHist)
  /\ IF component = "crow routing" THEN G!Init
     ELSE Rests(rules) /\ Rests(catchalls) /\ Rests(state) /\ Rests(tries) /\ Rests(cAnswer)
  /\ IF component = "resources" THEN H!Init
     ELSE Rests(resources) /\ Rests(str) /\ Rests(hPending) /\ Rests(search) /\ Rests(live) /\ Rests(calls)
  /\ IF component = "policy" THEN I!Init
     ELSE /\ Rests(policy) /\ Rests(bans) /\ Rests(allowances) /\ Rests(iPending) /\ Rests(decision)
          /\ Rests(banned) /\ Rests(allowed)

MCNext ==
  /\ \/ component = "router" /\ Next /\ UNCHANGED <<pVars, cVars, gVars, hVars, iVars>>
     \/ component = "parser" /\ P!Next /\ UNCHANGED <<vars, cVars, gVars, hVars, iVars>>
     \/ component = "crow parser" /\ C!Next /\ UNCHANGED <<vars, pVars, gVars, hVars, iVars>>
     \/ component = "crow routing" /\ G!Next /\ UNCHANGED <<vars, pVars, cVars, hVars, iVars>>
     \/ component = "resources" /\ H!Next /\ UNCHANGED <<vars, pVars, cVars, gVars, iVars>>
     \/ component = "policy" /\ I!Next /\ UNCHANGED <<vars, pVars, cVars, gVars, hVars>>
  /\ UNCHANGED component

MCSpec == MCInit /\ [][MCNext]_<<component, vars, pVars, cVars, gVars, hVars, iVars>>

-----------------------------------------------------------------------------
\* PistacheParser: what comes of the messages does not depend on where reads cut them.
MessagesExact == component = "parser" => P!MessagesExact

\* CrowParser: the same, for requests.
CrowMessagesExact == component = "crow parser" => C!CrowMessagesExact

\* CrowRouting: the optimised tries give what the rules give one by one.
CrowRoutesSound == component = "crow routing" => G!CrowRoutesSound

\* HttpResources and IpPolicy: libhttpserver gives a request to the best of the
\* urls registered at that moment, and turns away the clients it was told to.
LibhttpSound ==
  /\ component = "resources" => H!ResourcesSound
  /\ component = "policy" => I!TypeOK /\ I!PolicyKept

\* What the code does not keep, for the runs the README describes.
ResetIsComplete == P!ResetIsComplete
ChunkCutAnywhere == P!ChunkCutAnywhere
TailCutAnywhere == P!TailCutAnywhere
ClientRecovers == P!ClientRecovers
PipedUrl == C!PipedUrl
UrlCutAnywhere == C!UrlCutAnywhere
EmptyHeaderKept == C!EmptyHeaderKept
OwnBudget == C!OwnBudget
StartsUpNested == G!StartsUpNested
CatchallOfBlueprint == G!CatchallOfBlueprint
ValidateDefined == G!ValidateDefined
BpLookupDefined == G!BpLookupDefined
AlwaysAsserts == C!AlwaysAsserts
BoundInRange == H!BoundInRange
AlwaysRight == H!AlwaysRight
FoundThere == H!FoundThere
PolicyAlways == I!PolicyAlways
DecisionAlways == I!DecisionAlways
=============================================================================
