----------------------------- MODULE RouterTree ------------------------------
(***************************************************************************)
(* The tree of routes of one HTTP method (server/web/tree.go; router.go    *)
(* and namespace.go fill it).  A pattern is a sequence of segments: fixed  *)
(* ones, ":id", "?:id", ":id:int" and "*"; a request path is a sequence of *)
(* words.  The tree is built and searched as the code does it, fixed       *)
(* segments first, and compared with what the patterns say one by one.     *)
(* A regular expression is a sequence of pieces, each for one word ("one", *)
(* "int", a word) or for one or more ("many"): between slashes, the        *)
(* expressions the tree builds match whole words.                          *)
(***************************************************************************)
EXTENDS Integers, Sequences, SequencesExt

CONSTANTS MaxRoutes,     \* routes of the tree: a bound
          LongPattern,   \* segments of the first of them: a bound
          ShortPattern,  \* and of the others: a bound
          MaxPath        \* words of a request's path: a bound

VARIABLES tree,    \* the nodes of the tree, the root first
          routes,  \* the patterns, in the order they were added
          done     \* nothing is added any more: the server runs

treeVars == <<tree, routes, done>>

Words == {"a", "1"}
Fixed == {"a"}
Segments == Fixed \cup {":id", "?:id", ":int", "*"}
Paths == UNION {[1 .. n -> Words] : n \in 0 .. MaxPath}
Patterns(n) == UNION {[1 .. m -> Segments] : m \in 0 .. n}

Params == {":id", ":splat"}
Pieces == Fixed \cup {"one", "int", "many"}
Passed == Seq(Params)     \* the wildcards on the way to a node
Regs == Seq(Pieces)

\* A node: its fixed subtrees, its wildcard (0 if there is none), its leaves.
Nodes == [fix : Seq([prefix : Fixed, tree : Nat]), wild : Nat,
          leaves : Seq([route : Nat, wcs : Passed, reg : Regs])]
NewTree == [fix |-> <<>>, wild |-> 0, leaves |-> <<>>]
NoMatch == [route |-> 0, params |-> <<>>]

-----------------------------------------------------------------------------
(* Building.                                                               *)

\* splitSegment: the parameters a segment names, and its expression.
SplitSegment(seg) ==
  CASE seg \in Fixed -> [wild |-> FALSE, params |-> <<>>, reg |-> <<>>]
    [] seg = "*" -> [wild |-> TRUE, params |-> <<":splat">>, reg |-> <<>>]
    [] seg = ":int" -> [wild |-> TRUE, params |-> <<":id">>, reg |-> <<"int">>]
    [] OTHER -> [wild |-> TRUE, params |-> <<":id">>, reg |-> <<>>]

\* The expression of the wildcards passed so far.
RegOf(wcs) == [i \in DOMAIN wcs |-> IF wcs[i] = ":splat" THEN "many" ELSE "one"]

Leaf(r, wcs, reg) == [route |-> r, wcs |-> wcs, reg |-> reg]

\* The expression after one more segment: splat and what it makes of fixed
\* segments need one, and once there is one every segment adds to it.
ExtendReg(seg, wcs, reg) ==
  LET s == SplitSegment(seg)
      own == IF ~s.wild THEN <<seg>>
             ELSE IF seg = "*" /\ wcs # <<>> /\ reg = <<>> THEN <<"many">> ELSE s.reg
  IN  IF own # <<>> THEN (IF reg = <<>> THEN RegOf(wcs) ELSE reg) \o own
      ELSE IF reg # <<>> THEN reg \o [i \in DOMAIN s.params |-> "one"] ELSE <<>>

\* The subtree a node has for a segment, 0 if there is none.
Below(t, seg, wild) ==
  LET here == {i \in DOMAIN t.fix : t.fix[i].prefix = seg}
  IN  IF wild THEN t.wild ELSE IF here = {} THEN 0 ELSE t.fix[Min(here)].tree

\* AddTree, for a prefix without parameters: one more fixed subtree.
AddTree(nodes, at, prefix, sub) ==
  [nodes EXCEPT ![at].fix = Append(@, [prefix |-> prefix, tree |-> sub])]

\* addseg: an optional segment first without it; behind a splat fixed
\* segments are wildcards too.  The newest leaf of a node comes first.
AddSeg[nodes \in Seq(Nodes), at \in Nat, segs \in Seq(Segments), r \in Nat, wcs \in Passed, reg \in Regs] ==
  IF segs = <<>> THEN [nodes EXCEPT ![at].leaves = <<Leaf(r, wcs, reg)>> \o @]
  ELSE
    LET seg == Head(segs)
        s == SplitSegment(seg)
        ns == IF seg = "?:id" THEN AddSeg[nodes, at, Tail(segs), r, wcs, reg] ELSE nodes
        wild == s.wild \/ ":splat" \in Range(wcs)
        below == Below(ns[at], seg, wild)
        new == Len(ns) + 1
        grown == Append(IF wild THEN [ns EXCEPT ![at].wild = new] ELSE AddTree(ns, at, seg, new), NewTree)
    IN  AddSeg[IF below = 0 THEN grown ELSE ns, IF below = 0 THEN new ELSE below, Tail(segs), r,
               IF wild THEN wcs \o s.params ELSE wcs, IF wild THEN ExtendReg(seg, wcs, reg) ELSE reg]

-----------------------------------------------------------------------------
(* Matching.                                                               *)

\* FindStringSubmatch: what each group matched, leftmost groups longest.
Groups[reg \in Regs, ws \in Seq(Words)] ==
  IF reg = <<>> THEN [ok |-> ws = <<>>, gs |-> <<>>]
  ELSE
    LET p == Head(reg)
        takes == IF p = "many" THEN 1 .. Len(ws)
                 ELSE IF ws # <<>> /\ (p = "one" \/ (p = "int" /\ ws[1] = "1") \/ p = ws[1]) THEN {1} ELSE {}
        fits == {n \in takes : Groups[Tail(reg), SubSeq(ws, n + 1, Len(ws))].ok}
        n == Max(fits)
        rest == Groups[Tail(reg), SubSeq(ws, n + 1, Len(ws))]
    IN  IF fits = {} THEN [ok |-> FALSE, gs |-> <<>>]
        ELSE [ok |-> TRUE, gs |-> IF p \in Fixed THEN rest.gs ELSE <<SubSeq(ws, 1, n)>> \o rest.gs]

\* leafInfo.match: the values of the wildcards, or no match.
LeafMatch(leaf, treePattern, vals) ==
  LET yes(ps) == [route |-> leaf.route, params |-> ps]
      g == Groups[leaf.reg, vals]
  IN  IF leaf.reg # <<>> THEN IF g.ok THEN yes(g.gs) ELSE NoMatch
      ELSE IF leaf.wcs = <<":splat">> THEN yes(<<treePattern>>)
      ELSE IF Len(leaf.wcs) = Len(vals) THEN yes([i \in DOMAIN vals |-> <<vals[i]>>])
      ELSE NoMatch

\* Mutant: what was tried last wins.
LastMatch(ms) ==
  LET hits == {i \in DOMAIN ms : ms[i].route # 0} IN IF hits = {} THEN NoMatch ELSE ms[Max(hits)]

\* What was tried first wins.
FirstMatch(ms) ==
  LET hits == {i \in DOMAIN ms : ms[i].route # 0} IN IF hits = {} THEN NoMatch ELSE ms[Min(hits)]
LeavesMatch(t, treePattern, vals) ==
  FirstMatch([i \in DOMAIN t.leaves |-> LeafMatch(t.leaves[i], treePattern, vals)])

\* The wildcard's turn: no fixed subtree has given a route.
TryWild(subs, fixed) == fixed.route = 0

\* Tree.match: the fixed subtrees of the segment, the wildcard, the leaves of
\* this node with all that is left.  treePattern, what a splat will be, is cut
\* when a fixed subtree is tried, and stays cut when that one does not match.
Match[at \in Nat, treePattern \in Seq(Words), ws \in Seq(Words), vals \in Seq(Words)] ==
  LET t == tree[at] IN
  IF ws = <<>>
  THEN FirstMatch(<<LeavesMatch(t, treePattern, vals),
                    IF t.wild = 0 THEN NoMatch ELSE LeavesMatch(tree[t.wild], treePattern, vals)>>)
  ELSE
    LET seg == Head(ws)
        rest == Tail(ws)
        subs == SelectSeq(t.fix, LAMBDA f : f.prefix = seg)
        cut == IF subs = <<>> THEN treePattern ELSE rest
        fixed == FirstMatch([i \in DOMAIN subs |-> Match[subs[i].tree, rest, rest, vals]])
        wild == IF t.wild = 0 THEN NoMatch ELSE Match[t.wild, cut, rest, Append(vals, seg)]
    IN  IF fixed.route # 0 THEN fixed
        ELSE IF TryWild(subs, fixed) /\ wild.route # 0 THEN wild
        ELSE LeavesMatch(t, cut, vals \o ws)

FindRouter(path) == Match[1, path, path, <<>>]

-----------------------------------------------------------------------------
(* Registering.                                                            *)

Init == tree = <<NewTree>> /\ routes = <<>> /\ done = FALSE

Bound == IF routes = <<>> THEN LongPattern ELSE ShortPattern

AddRouter ==
  /\ ~done /\ Len(routes) < MaxRoutes
  /\ \E p \in Patterns(Bound) :
       /\ routes' = Append(routes, p)
       /\ tree' = AddSeg[tree, 1, p, Len(routes) + 1, <<>>, <<>>]
  /\ UNCHANGED done

\* AddNamespace: the routes of the namespace are a tree of their own first.
AddNamespace ==
  /\ ~done /\ Len(routes) < MaxRoutes
  /\ \E p \in Patterns(Bound - 1) :
       LET new == Len(tree) + 1
           own == AddSeg[Append(tree, NewTree), new, p, Len(routes) + 1, <<>>, <<>>]
       IN  routes' = Append(routes, <<"a">> \o p) /\ tree' = AddTree(own, 1, "a", new)
  /\ UNCHANGED done

Run == ~done /\ done' = TRUE /\ UNCHANGED <<tree, routes>>

Next == AddRouter \/ AddNamespace \/ Run

Spec == Init /\ [][Next]_treeVars

-----------------------------------------------------------------------------
(* Properties.                                                             *)

\* What a pattern says by itself: the values of its parameters for every way
\* in which it fits the path.  A splat takes at least least words.
Readings[p \in Seq(Segments), ws \in Seq(Words), least \in {0, 1}] ==
  IF p = <<>> THEN IF ws = <<>> THEN {<<>>} ELSE {}
  ELSE
    LET seg == Head(p)
        takes == CASE seg \in Fixed -> IF ws # <<>> /\ ws[1] = seg THEN {1} ELSE {}
                   [] seg = ":id" -> {1}
                   [] seg = "?:id" -> {0, 1}
                   [] seg = ":int" -> IF ws # <<>> /\ ws[1] = "1" THEN {1} ELSE {}
                   [] seg = "*" -> least .. Len(ws)
    IN  UNION {{(IF seg \in Fixed \/ (seg = "?:id" /\ n = 0) THEN <<>> ELSE <<SubSeq(ws, 1, n)>>) \o r :
                  r \in Readings[Tail(p), SubSeq(ws, n + 1, Len(ws)), least]} :
                n \in {m \in takes : m <= Len(ws)}}

\* A route is only found for a path its own pattern fits, whatever other
\* routes the tree holds.
MatchSound ==
  done => \A ws \in Paths : LET m == FindRouter(ws) IN
    m.route # 0 => Readings[routes[m.route], ws, 0] # {}

\* A splat stands at the end, behind segments without an expression.
Plain(p) == \A i \in DOMAIN p : p[i] = "*" => i = Len(p) /\ ":int" \notin {p[j] : j \in 1 .. i}

\* A path that the pattern of some route fits is found, and no other route
\* hides it.
MatchComplete ==
  done => \A ws \in Paths :
    (\E r \in DOMAIN routes : Plain(routes[r]) /\ Readings[routes[r], ws, 1] # {}) => FindRouter(ws).route # 0

\* A path that some route spells out word for word is not given to one that
\* needs a parameter for it, unless a namespace repeats the prefix of earlier
\* routes: those are all tried before its own.
OnePrefixEach ==
  LET fix == tree[1].fix IN \A i, j \in DOMAIN fix : fix[i].prefix = fix[j].prefix => i = j
FixedFirst ==
  done /\ OnePrefixEach => \A r \in DOMAIN routes :
    Range(routes[r]) \subseteq Fixed /\ Len(routes[r]) <= MaxPath => FindRouter(routes[r]).params = <<>>

\* Parameters other than splat have the values the pattern gives them.
ParamsRight ==
  done => \A ws \in Paths : LET m == FindRouter(ws) IN
    m.route # 0 /\ "*" \notin Range(routes[m.route]) => m.params \in Readings[routes[m.route], ws, 0]

\* So has a splat at the end of the pattern: "/*" gives "customer/2009/12/11"
\* for "/customer/2009/12/11" (tree_test.go), whatever other routes there are.
SplatRight ==
  done => \A ws \in Paths : LET m == FindRouter(ws) IN
    m.route # 0 /\ Plain(routes[m.route]) => m.params \in Readings[routes[m.route], ws, 0]

\* A request gets a route that matches it, if there is one, fixed segments
\* before wildcards, with the parameters the pattern names.
RoutingSound == MatchSound /\ MatchComplete /\ FixedFirst /\ ParamsRight

=============================================================================
