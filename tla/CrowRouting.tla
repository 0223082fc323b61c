----------------------------- MODULE CrowRouting -----------------------------
(***************************************************************************)
(* Crow's routing (crow_all.h: Trie, Blueprint, Router): rules and         *)
(* blueprints are registered, validate() builds a trie of characters for   *)
(* each method, and handle() looks requests up in it.                      *)
(*                                                                         *)
(* A URL is a sequence of characters; a rule's URL holds parameters, too.  *)
(* The numeric parameters take a run of digits.  A blueprint is named by   *)
(* the indices that lead to it, counted from 0 as in the code.             *)
(***************************************************************************)
EXTENDS Naturals, Sequences, FiniteSets, SequencesExt

CONSTANTS
  Methods,      \* the methods rules are registered for
  Urls,         \* the URLs of the app's rules
  BpUrls,       \* the URLs of the blueprints' rules, without their prefixes
  Blueprints,   \* the registered blueprints and their prefixes, as register_blueprint extended them
  CatchallSets, \* who may have a catchall rule: blueprints, and the app
  Requests,     \* the URLs that are asked for
  MaxRules      \* how many rules there may be

Digits == {"0", "1"}
Params == {"<int>", "<uint>", "<double>", "<string>", "<path>"}
Numbers == {"<int>", "<uint>", "<double>"}
Slash == "/"
REDIRECT == 1   \* RULE_SPECIAL_REDIRECT_SLASH
App == <<>>     \* the app, beside its blueprints

RulesAssumption ==
  /\ MaxRules \in Nat
  /\ \A u \in Urls \cup BpUrls : u # <<>> /\ u[1] = Slash

VARIABLES
  rules,        \* the rules in the order validate() will take them: those of the blueprints come first
  catchalls,    \* who has a catchall rule
  state,        \* "setup", "running", "failed" (validate() threw) or "crashed" (it read past a list)
  tries,        \* per method: the nodes of the trie, in the order of their creation, and the rules
  answer        \* what came of the request handle() was called for

vars == <<rules, catchalls, state, tries, answer>>

NoRule == [method |-> "", bp |-> <<>>, url |-> <<>>]
EmptyTrie == [nodes |-> <<>>, rules |-> <<NoRule, NoRule>>]   \* rules(2): indices 0 and 1 are taken
NoAnswer == [status |-> 0, method |-> "", url |-> <<>>, rule |-> <<>>, params |-> <<>>, by |-> <<>>]

Init ==
  /\ rules = <<>> /\ catchalls \in CatchallSets /\ state = "setup"
  /\ tries = [m \in Methods |-> EmptyTrie] /\ answer = NoAnswer

-----------------------------------------------------------------------------
(* Setting up. *)

BpIds == DOMAIN Blueprints
Prefix(bp) == Blueprints[bp]
Kids(bp) == {b \in BpIds : Len(b) = Len(bp) + 1 /\ IsPrefix(bp, b)}

\* '/' + prefix_ + rule.
FullUrl(bp, url) == IF bp = <<>> THEN url ELSE <<Slash>> \o Prefix(bp) \o url

Add(m, bp, url) ==
  /\ state = "setup" /\ Len(rules) < MaxRules
  /\ rules' = Append(rules, [method |-> m, bp |-> bp, url |-> FullUrl(bp, url)])
  /\ UNCHANGED <<catchalls, state, tries, answer>>

NewRule(m, url) == url \in Urls /\ Add(m, <<>>, url)

NewBpRule(bp, m, url) == url \in BpUrls /\ Add(m, bp, url)

-----------------------------------------------------------------------------
(* Trie::add and optimize. *)

NodeAt(t, path) == {i \in DOMAIN t.nodes : t.nodes[i].path = path}

\* A bug: every character of the prefix gets the blueprint.
MarkedUpTo(url, i, len, bp) == IF len # 0 /\ i <= len + 1 /\ url[i] \notin Params THEN bp ELSE <<>>

\* Which blueprint a new node for the i-th character gets: the one whose prefix ends there.
Marked(url, i, len, bp) == IF len # 0 /\ i = len + 1 /\ url[i] \notin Params THEN bp ELSE <<>>

\* The nodes that are missing are made; the last one gets the rule.  An URL that has one is an error.
AddUrl(t, url, rule, len, bp) ==
  LET missing == SelectSeq([i \in 1 .. Len(url) |-> i], LAMBDA i : NodeAt(t, SubSeq(url, 1, i)) = {})
      grown == t.nodes \o [j \in DOMAIN missing |->
                 [path |-> SubSeq(url, 1, missing[j]), rule |-> 0, bp |-> Marked(url, missing[j], len, bp)]]
      taken == \E i \in DOMAIN grown : grown[i].path = url /\ grown[i].rule # 0
  IN [t EXCEPT !.nodes = [i \in DOMAIN grown |-> IF grown[i].path = url THEN [grown[i] EXCEPT !.rule = rule] ELSE grown[i]],
               !.failed = @ \/ taken]

PrefixLength(bp) == IF bp = <<>> THEN 0 ELSE Len(Prefix(bp))

\* The redirect's prefix is looked up in the router's list, whatever list the rule's blueprint is in.
OfRouter(bp) == <<Last(bp)>>
RouterPrefixLength(bp) == IF bp = <<>> \/ OfRouter(bp) \notin BpIds THEN 0 ELSE PrefixLength(OfRouter(bp))

\* A bug: the index is taken after the rule was added.
AddRuleObjectLate(ts, rule) ==
  LET t == ts[rule.method]
  IN [ts EXCEPT ![rule.method] =
        AddUrl([t EXCEPT !.rules = Append(@, rule)], rule.url, Len(t.rules) + 1, PrefixLength(rule.bp), rule.bp)]

\* internal_add_rule_object; a rule that ends in a slash brings a redirect, for which the router's list may
\* be read past its end (unless an exception came before).
AddRuleObject(ts, rule) ==
  LET t == ts[rule.method]
      n == Len(t.rules)
      one == AddUrl([t EXCEPT !.rules = Append(@, rule)], rule.url, n, PrefixLength(rule.bp), rule.bp)
      thrown == one.failed \/ \E m \in Methods : ts[m].failed
      past == ~thrown /\ rule.bp # <<>> /\ OfRouter(rule.bp) \notin BpIds
      two == IF Len(rule.url) > 1 /\ Last(rule.url) = Slash
             THEN AddUrl([one EXCEPT !.past = @ \/ past], Front(rule.url), REDIRECT, RouterPrefixLength(rule.bp), rule.bp)
             ELSE one
  IN [ts EXCEPT ![rule.method] = two]

RulesOf(bp) == SelectSeq(rules, LAMBDA r : r.bp = bp)

\* The methods of the rules below a blueprint without rules.
ChildMethods(bp) ==
  {rules[i].method : i \in {j \in DOMAIN rules :
      /\ rules[j].bp # <<>> /\ Len(rules[j].bp) > Len(bp) /\ IsPrefix(bp, rules[j].bp)
      /\ \A b \in BpIds : (IsPrefix(bp, b) /\ IsPrefix(b, rules[j].bp) /\ b # rules[j].bp) => RulesOf(b) = <<>>}}

\* validate_bp for one blueprint: without rules, its prefix alone is added, without a slash before it.  (The
\* blueprint's index given with it is that of the method, but no node of a bare prefix is marked with it.)
ValidateBp(ts, bp) ==
  LET bare == [m \in Methods |-> IF RulesOf(bp) = <<>> /\ m \in ChildMethods(bp)
                                 THEN AddUrl(ts[m], Prefix(bp), 0, PrefixLength(bp), bp) ELSE ts[m]]
  IN FoldLeft(AddRuleObject, bare, RulesOf(bp))

\* Blueprints in the order of the nested loops of validate_bp.
BpOrder == SetToSortSeq(BpIds, LAMBDA a, b :
             \/ IsPrefix(a, b) /\ a # b
             \/ \E k \in DOMAIN a \cap DOMAIN b : a[k] < b[k] /\ \A j \in 1 .. k - 1 : a[j] = b[j])

\* A bug: a node with a rule is joined, too.
JoinedRule(t, i) ==
  LET kids == {j \in DOMAIN t.nodes : Len(t.nodes[j].path) = Len(t.nodes[i].path) + 1 /\ IsPrefix(t.nodes[i].path, t.nodes[j].path)}
  IN Last(t.nodes[i].path) \notin Params /\ Cardinality(kids) = 1 /\ \A j \in kids : Last(t.nodes[j].path) \notin Params

\* A node optimizeNode joins with its only child.
Joined(t, i) ==
  LET kids == {j \in DOMAIN t.nodes : Len(t.nodes[j].path) = Len(t.nodes[i].path) + 1 /\ IsPrefix(t.nodes[i].path, t.nodes[j].path)}
  IN /\ t.nodes[i].rule = 0 /\ t.nodes[i].bp = <<>> /\ Last(t.nodes[i].path) \notin Params
     /\ Cardinality(kids) = 1 /\ \A j \in kids : Last(t.nodes[j].path) \notin Params

Optimize(t) ==
  LET kept == SelectSeq([i \in DOMAIN t.nodes |-> i], LAMBDA i : ~Joined(t, i))
  IN [t EXCEPT !.nodes = [j \in DOMAIN kept |-> t.nodes[kept[j]]]]

\* A bug: the head may have no child at all.
HeadOne(t) == Cardinality({t.nodes[i].path[1] : i \in DOMAIN t.nodes}) = 1

\* Trie::validate throws when the head has more than one child.
HeadSimple(t) == Cardinality({t.nodes[i].path[1] : i \in DOMAIN t.nodes}) < 2

Validate ==
  /\ state = "setup"
  /\ LET start == [m \in Methods |-> [nodes |-> <<>>, rules |-> EmptyTrie.rules, failed |-> FALSE, past |-> FALSE]]
         bps == FoldLeft(ValidateBp, start, BpOrder)
         all == FoldLeft(AddRuleObject, bps, RulesOf(<<>>))
         ok == \A m \in Methods : ~all[m].failed /\ HeadSimple(all[m])
         past == {m \in Methods : all[m].past}   \* what is there may be anything: it crashes or goes unnoticed
     IN /\ state' \in {IF ok THEN "running" ELSE "failed"} \cup {"crashed" : m \in past}
        /\ tries' = IF state' = "running" THEN [m \in Methods |-> LET t == Optimize(all[m]) IN [nodes |-> t.nodes, rules |-> t.rules]]
                    ELSE tries
  /\ UNCHANGED <<rules, catchalls, answer>>

-----------------------------------------------------------------------------
(* Trie::find. *)

\* The nodes directly below path, in the order of their creation.
ChildrenOf(t, path) ==
  SelectSeq(t.nodes, LAMBDA n : /\ Len(n.path) > Len(path) /\ IsPrefix(path, n.path)
                                /\ \A i \in DOMAIN t.nodes : ~( /\ IsPrefix(path, t.nodes[i].path) /\ IsPrefix(t.nodes[i].path, n.path)
                                                                /\ Len(t.nodes[i].path) > Len(path) /\ Len(t.nodes[i].path) < Len(n.path)))

\* Where a parameter that starts at pos ends; nowhere when it would be empty.
Taken(param, url, pos) ==
  LET in(c) == CASE param \in Numbers -> c \in Digits [] param = "<string>" -> c # Slash [] OTHER -> TRUE
  IN {e \in pos + 1 .. Len(url) + 1 : (\A i \in pos .. e - 1 : in(url[i])) /\ (e > Len(url) \/ ~in(url[e]))}

\* Where the search goes on below a child, if its key or its parameter is there.
After(child, path, url, pos) ==
  LET key == SubSeq(child.path, Len(path) + 1, Len(child.path))
  IN IF key[1] \in Params THEN Taken(key[1], url, pos)
     ELSE IF pos + Len(key) - 1 <= Len(url) /\ SubSeq(url, pos, pos + Len(key) - 1) = key THEN {pos + Len(key)} ELSE {}

\* A search goes through the trie with the vectors of parameters and blueprints it shares with its callers.
\* A child that has no blueprint takes one off the vector all the same.
RECURSIVE Find(_, _, _, _, _, _)
Find(t, url, node, pos, params, bps) ==
  LET try(acc, child) ==
        LET ends == After(child, node.path, url, pos)
            e == CHOOSE x \in ends : TRUE
            value == SubSeq(url, pos, e - 1)
            ps == IF Last(child.path) \in Params THEN Append(params, <<Last(child.path), value>>) ELSE params
            found == Find(t, url, child, e, ps, IF child.bp = <<>> THEN acc.bps ELSE Append(acc.bps, child.bp))
            better == found.rule # 0 /\ (acc.rule = 0 \/ acc.rule > found.rule)
        IN IF ends = {} THEN acc
           ELSE [rule |-> IF better THEN found.rule ELSE acc.rule,
                 params |-> IF better THEN found.params ELSE acc.params,
                 found_BP |-> found.found_BP,
                 bps |-> IF found.bps = <<>> THEN <<>> ELSE Front(found.bps),
                 fragment |-> TRUE]
      none == [rule |-> 0, params |-> <<>>, found_BP |-> <<>>, bps |-> bps, fragment |-> FALSE]
      all == FoldLeft(try, none, ChildrenOf(t, node.path))
  IN IF pos > Len(url)
     THEN [rule |-> node.rule, params |-> params, found_BP |-> <<>>, bps |-> <<>>]   \* *blueprints was moved from
     ELSE IF all.fragment THEN [rule |-> all.rule, params |-> all.params, found_BP |-> all.found_BP, bps |-> all.bps]
     ELSE [rule |-> 0, params |-> <<>>, found_BP |-> bps, bps |-> <<>>]

Search(m, url) == Find(tries[m], url, [path |-> <<>>, rule |-> 0, bp |-> <<>>], 1, <<>>, <<>>)

-----------------------------------------------------------------------------
(* Router::handle. *)

StartsWith(bp, above) == IsPrefix(Append(Prefix(above), Slash), Prefix(bp))

Undefined == <<<<Cardinality(BpIds)>>>>   \* no blueprint: what was read is not one

\* get_found_bp: each index is looked up below the last blueprint found, or else beside it, or in the
\* router's list.  found_bps is read at the position of the index before, which may be past its end.
FoundBps(bps) ==
  LET step(acc, bp) ==
        LET found == acc.found
            below == IF found = <<>> THEN <<>> ELSE Append(Last(found), Last(bp))
            up == IF Len(found) < 2 THEN <<>> ELSE Front(found)
            other == Append(IF up = <<>> THEN <<>> ELSE Last(up), Last(bp))
        IN [n |-> acc.n + 1,
            found |-> IF found = Undefined THEN Undefined
                      ELSE IF acc.n > 0 /\ below \in BpIds /\ Len(found) < acc.n THEN Undefined
                      ELSE IF acc.n > 0 /\ below \in BpIds /\ StartsWith(below, found[acc.n]) THEN Append(found, below)
                      ELSE IF other \in BpIds THEN Append(up, other) ELSE Undefined]
  IN FoldLeft(step, [n |-> 0, found |-> <<>>], bps).found

\* get_error: the innermost blueprint with a catchall rule, the first one of the list excepted; then the app.
Catchall(bps) ==
  LET found == FoundBps(bps)
      having == {i \in 2 .. Len(found) : found[i] \in catchalls}
  IN IF found = Undefined THEN Undefined
     ELSE IF having # {} THEN <<found[CHOOSE i \in having : \A j \in having : j <= i]>>
     ELSE IF App \in catchalls THEN <<App>>
     ELSE <<>>

Answer(status, m, url, rule, params, by) ==
  [status |-> status, method |-> m, url |-> url, rule |-> rule, params |-> params, by |-> by]

\* A request of one of the methods; HEAD is looked up as GET.
Handle(m, url) ==
  /\ state = "running" /\ answer = NoAnswer
  /\ LET found == Search(m, url)
         elsewhere == \E o \in Methods : Search(o, url).rule # 0
     IN answer' = CASE found.rule = 0 -> Answer(IF elsewhere THEN 405 ELSE 404, m, url, <<>>, <<>>, Catchall(found.found_BP))
                    [] found.rule = REDIRECT -> Answer(301, m, url, <<>>, <<>>, <<>>)
                    [] OTHER -> Answer(200, m, url, tries[m].rules[found.rule + 1].url, found.params, <<>>)
  /\ UNCHANGED <<rules, catchalls, state, tries>>

\* A bug: a URL that is only redirected is not counted.
HandleOptionsDirect(url) ==
  /\ state = "running" /\ answer = NoAnswer
  /\ LET allow == {m \in Methods : Search(m, url).rule > REDIRECT}
     IN answer' = Answer(IF allow # {} THEN 204 ELSE 404, "OPTIONS", url, <<>>, <<>>, <<>>)
  /\ UNCHANGED <<rules, catchalls, state, tries>>

\* OPTIONS: the methods that have a rule for the URL.
HandleOptions(url) ==
  /\ state = "running" /\ answer = NoAnswer
  /\ LET allow == {m \in Methods : Search(m, url).rule # 0}
     IN answer' = Answer(IF allow # {} THEN 204 ELSE 404, "OPTIONS", url, <<>>, <<>>, <<>>)
  /\ UNCHANGED <<rules, catchalls, state, tries>>

Answered == answer # NoAnswer /\ answer' = NoAnswer /\ UNCHANGED <<rules, catchalls, state, tries>>

Next ==
  \/ \E m \in Methods, url \in Urls : NewRule(m, url)
  \/ \E m \in Methods, bp \in BpIds, url \in BpUrls : NewBpRule(bp, m, url)
  \/ Validate
  \/ \E m \in Methods, url \in Requests : Handle(m, url)
  \/ \E url \in Requests : HandleOptions(url)
  \/ Answered

Spec == Init /\ [][Next]_vars

-----------------------------------------------------------------------------
(* Properties. *)

\* Every variable keeps its type, and the trie's rule indices are those of its rules ("Trie internal structure corrupted").
TypeOK ==
  /\ rules \in Seq([method : Methods, bp : BpIds \cup {<<>>}, url : Seq(STRING)])
  /\ state \in {"setup", "running", "failed", "crashed"}
  /\ \A m \in Methods : \A i \in DOMAIN tries[m].nodes : tries[m].nodes[i].rule < Len(tries[m].rules)

\* A rule by itself: where each of its characters and parameters ends in the URL; 0 once one does not fit.
Ends(rule, url) ==
  LET E[j \in 0 .. Len(rule)] ==
        IF j = 0 THEN 1
        ELSE IF E[j - 1] = 0 THEN 0
        ELSE IF rule[j] \in Params
             THEN LET ends == Taken(rule[j], url, E[j - 1]) IN IF ends = {} THEN 0 ELSE CHOOSE e \in ends : TRUE
        ELSE IF E[j - 1] <= Len(url) /\ url[E[j - 1]] = rule[j] THEN E[j - 1] + 1 ELSE 0
  IN E

Fits(rule, url) == Ends(rule, url)[Len(rule)] = Len(url) + 1

ParamsOf(rule, url) ==
  LET at == SelectSeq([j \in DOMAIN rule |-> j], LAMBDA j : rule[j] \in Params)
  IN [k \in DOMAIN at |-> <<rule[at[k]], SubSeq(url, Ends(rule, url)[at[k] - 1], Ends(rule, url)[at[k]] - 1)>>]

\* The rules themselves, compared one by one.
MatchingRules(m, url) == {r \in 3 .. Len(tries[m].rules) : Fits(tries[m].rules[r].url, url)}

Redirects(m, url) ==
  \E r \in 3 .. Len(tries[m].rules) :
    LET u == tries[m].rules[r].url IN Len(u) > 1 /\ Last(u) = Slash /\ Fits(Front(u), url)

Found(m, url) == MatchingRules(m, url) # {} \/ Redirects(m, url)

\* Trie::find over the shared and optimised trie gives what the rules give one by one: the first rule
\* registered among those that fit the URL, with the parameters of that rule; a redirect before all of them;
\* 405 when only other methods have one, 404 when none has.
FindsFirst ==
  LET m == answer.method
      fit == MatchingRules(m, answer.url)
  IN answer # NoAnswer /\ m \in Methods =>
       CASE answer.status = 301 -> Redirects(m, answer.url)
         [] answer.status = 200 ->
              /\ ~Redirects(m, answer.url)
              /\ \E r \in fit : /\ \A o \in fit : r <= o
                                /\ answer.rule = tries[m].rules[r].url
                                /\ answer.params = ParamsOf(answer.rule, answer.url)
         [] OTHER -> /\ ~Found(m, answer.url)
                     /\ answer.status = 405 <=> \E o \in Methods : Found(o, answer.url)

\* OPTIONS finds a URL exactly when some method does.
OptionsRight == answer.method = "OPTIONS" => (answer.status = 204 <=> \E m \in Methods : Found(m, answer.url))

\* Whose prefix a URL starts with.
Inside(bp, url) == IsPrefix(<<Slash>> \o Prefix(bp), url)

\* The catchall rule of a blueprint is only called for a URL below its prefix ("to prevent a blueprint that
\* has a prefix of "bp_prefix2" to be assumed as a child of one that has "bp_prefix"").
CatchallSound ==
  answer.by # <<>> => \/ answer.by = <<App>>
                      \/ answer.by[1] \in BpIds /\ Inside(answer.by[1], answer.url)

\* Two rules want the same place in a trie.
Targets(r) == {r.url} \cup (IF Len(r.url) > 1 /\ Last(r.url) = Slash THEN {Front(r.url)} ELSE {})

Duplicates == \E i, j \in DOMAIN rules : i # j /\ rules[i].method = rules[j].method /\ Targets(rules[i]) \cap Targets(rules[j]) # {}

\* validate() only throws for rules that clash; as long as no blueprint without rules has rules below it.
StartsUp ==
  (state = "failed" /\ \A b \in BpIds : RulesOf(b) = <<>> => ChildMethods(b) = {}) => Duplicates

\* The application starts, and its tries give what its rules say.
CrowRoutesSound == TypeOK /\ FindsFirst /\ OptionsRight /\ CatchallSound /\ StartsUp

\* The same without the exception ("Blueprints can also register other blueprints").
StartsUpNested == state = "failed" => Duplicates

\* "any requests with a URL starting with /prefix and no route found to call the blueprint's catchall route. If no
\* catchall route is defined, Crow will default to either the parent blueprint or the app's catchall route."
CatchallOfBlueprint ==
  answer.status = 404 /\ answer.method \in Methods =>
    \A b \in BpIds : (Inside(b, answer.url) /\ b \in catchalls /\ RulesOf(b) # <<>>) =>
      \E i \in DOMAIN answer.by : answer.by[i] # App

\* validate() never reads past the end of the router's list of blueprints.
ValidateDefined == state # "crashed"

\* get_found_bp never reads past the end of what it found.
BpLookupDefined == answer.by # Undefined
====
