----------------------------- MODULE WebRegister -----------------------------
(***************************************************************************)
(* Registering routes, filters and namespaces before the server runs       *)
(* (server/web: router.go, namespace.go, filter.go), and which of them a   *)
(* request meets.  A namespace is a register of its own; linking it into   *)
(* another one puts its prefix in front of its routes and filters.  Words  *)
(* are written in upper or lower case; how a tree is searched is in        *)
(* RouterTree.                                                             *)
(***************************************************************************)
EXTENDS Integers, Sequences, SequencesExt, FiniteSetsExt

CONSTANT MaxSteps    \* registrations: a bound

VARIABLES cs,       \* RouterCaseSensitive
          routers,  \* of each register: the routes of each method
          filters,  \* of each register: the filters at BeforeRouter
          parent,   \* what a namespace was linked into
          pattern,  \* of each route: ControllerInfo.pattern
          placed,   \* history: the register and the path each route was added with
          got       \* the last request: filters run, and the route whose handler ran

regVars == <<cs, routers, filters, parent, pattern, placed, got>>

Namespaces == {"n1", "n2"}
Registers == {"app"} \cup Namespaces
Prefix == [n1 |-> <<"v">>, n2 |-> <<"V">>]
Words == {"v", "X"}
Methods == {"GET", "POST"}
Low(path) == [i \in DOMAIN path |-> IF path[i] \in {"v", "V"} THEN "v" ELSE "x"]
Idle == [path |-> <<>>, run |-> {}, no |-> {}, route |-> 0]

Init ==
  /\ cs \in BOOLEAN
  /\ routers = [g \in Registers |-> [m \in Methods |-> <<>>]]
  /\ filters = [g \in Registers |-> <<>>]
  /\ parent = [n \in Namespaces |-> "none"]
  /\ pattern = <<>> /\ placed = <<>> /\ got = Idle

Steps == Len(placed) + Len(filters.app) + Len(filters.n1) + Len(filters.n2)
Registering == got = Idle /\ Steps < MaxSteps
Open(g) == IF g = "app" THEN TRUE ELSE parent[g] = "none"

-----------------------------------------------------------------------------
(* Routes.                                                                 *)

\* parseMappingMethods, getHttpMethodMapMethod and addRouterForMethod: no
\* mapping and "*" stand for every method.
MethodsOf(mapping) == IF mapping = {} \/ "*" \in mapping THEN Methods ELSE mapping

\* addToRouter, for every method.
AddRouter(g, mapping, path) ==
  LET r == Len(placed) + 1
      stored == [path |-> IF cs THEN path ELSE Low(path), route |-> r]
  IN  /\ routers' = [routers EXCEPT ![g] = [m \in Methods |->
                       IF m \in MethodsOf(mapping) THEN <<stored>> \o routers[g][m] ELSE routers[g][m]]]
      /\ pattern' = Append(pattern, path)
      /\ placed' = Append(placed, [reg |-> g, path |-> path, mapping |-> mapping])
      /\ UNCHANGED <<cs, filters, parent, got>>

\* The mappings of Add, of CtrlGet to CtrlAny, of Get to Any and AddMethod,
\* of Handler, and of the methods of a controller that AddAuto finds.
AddMappings == {{}, {"*"}, {"GET"}}
CtrlMappings == {{"GET"}, {"*"}}
FuncMappings == {{"GET"}, {"*"}}
HandlerMappings == {{}}
AutoMappings == {{"*"}}

Route ==
  \E w \in Words, mapping \in AddMappings \cup CtrlMappings \cup FuncMappings \cup HandlerMappings \cup AutoMappings :
    Registering /\ AddRouter("app", mapping, <<w>>)

\* Namespace.Get, CtrlGet and the others, Namespace.Router with a mapping, and
\* the functions that make them parameters of NewNamespace.
NSMappings == CtrlMappings \cup FuncMappings
NSRoute ==
  \E n \in Namespaces, w \in Words, mapping \in NSMappings :
    Registering /\ Open(n) /\ AddRouter(n, mapping, <<w>>)

-----------------------------------------------------------------------------
(* Filters.                                                                *)

\* newFilterRouter: the tree gets the pattern as it was written.
InsertFilter(g, path, kind, returnOnOutput) ==
  filters' = [filters EXCEPT ![g] =
    Append(@, [path |-> path, kind |-> kind, ret |-> returnOnOutput, of |-> g])]

\* InsertFilter of the application.
Before ==
  \E path \in {<<>>, <<"v">>, <<"V">>}, ret \in BOOLEAN :
    /\ Registering /\ InsertFilter("app", path, "filter", ret)
    /\ UNCHANGED <<cs, routers, parent, pattern, placed, got>>

\* Namespace.Filter, NSBefore: for all of the namespace, returnOnOutput.
NSBefore ==
  \E n \in Namespaces :
    /\ Registering /\ Open(n) /\ InsertFilter(n, <<>>, "filter", TRUE)
    /\ UNCHANGED <<cs, routers, parent, pattern, placed, got>>

\* Mutant: the condition goes behind the filters there are.
CondLast(n) ==
  /\ filters' = [filters EXCEPT ![n] = Append(@, [path |-> <<>>, kind |-> "cond", ret |-> FALSE, of |-> n])]
  /\ UNCHANGED <<cs, routers, parent, pattern, placed, got>>

\* Namespace.Cond: in front of the filters there are, and then it does not
\* stop the request by itself.
Cond(n) ==
  /\ filters' = [filters EXCEPT ![n] =
       <<[path |-> <<>>, kind |-> "cond", ret |-> @ = <<>>, of |-> n]>> \o @]
  /\ UNCHANGED <<cs, routers, parent, pattern, placed, got>>
AddCond == \E n \in Namespaces : Registering /\ Open(n) /\ Cond(n)

-----------------------------------------------------------------------------
(* Linking.                                                                *)

\* addPrefix, once for every method tree the route is in.
AddPrefix(pat, prefix, times) == IF times = 0 \/ IsPrefix(prefix, pat) THEN pat ELSE prefix \o pat

TreesWith(n, r) == {m \in Methods : \E i \in DOMAIN routers[n][m] : routers[n][m][i].route = r}

\* Namespace.Namespace and AddNamespace: AddTree behind the routes there are.
LinkTo(n, g) ==
  /\ parent' = [parent EXCEPT ![n] = g]
  /\ routers' = [routers EXCEPT ![g] = [m \in Methods |-> routers[g][m] \o
       [i \in DOMAIN routers[n][m] |-> [routers[n][m][i] EXCEPT !.path = Prefix[n] \o @]]]]
  /\ filters' = [filters EXCEPT ![g] = @ \o
       [i \in DOMAIN filters[n] |-> [filters[n][i] EXCEPT !.path = Prefix[n] \o @]]]
  /\ pattern' = [r \in DOMAIN pattern |-> AddPrefix(pattern[r], Prefix[n], IF TreesWith(n, r) = {} THEN 0 ELSE Len(SetToSeq(TreesWith(n, r))))]
  /\ UNCHANGED <<cs, placed, got>>

Link ==
  \E n \in Namespaces, g \in Registers \ {"n1"} :
    got = Idle /\ n # g /\ Open(n) /\ Open(g) /\ LinkTo(n, g)

-----------------------------------------------------------------------------
(* A request.                                                              *)

\* FindRouter: among fixed segments the first path that fits.
FindRouter(m, url) ==
  LET hits == {i \in DOMAIN routers.app[m] : routers.app[m][i].path = url}
  IN  IF hits = {} THEN 0 ELSE routers.app[m][Min(hits)].route

\* execFilter: whether filter i runs, given those that say no; the first that
\* says no has started the output.
Runs(url, no) ==
  LET f == filters.app
      fits(i) == IsPrefix(f[i].path, url)
      alive[i \in 0 .. Len(f)] ==   \* [on: not stopped, out: output started], after filter i
        IF i = 0 THEN [on |-> TRUE, out |-> FALSE]
        ELSE LET was == alive[i - 1]
                 out == was.out \/ (was.on /\ ~(f[i].ret /\ was.out) /\ fits(i) /\ i \in no)
             IN  [on |-> was.on /\ ~(f[i].ret /\ out), out |-> out]
  IN  [run |-> {i \in DOMAIN f : fits(i) /\ alive[i - 1].on /\ ~(f[i].ret /\ alive[i - 1].out)},
       on |-> alive[Len(f)].on]

Request(m, path, no) ==
  LET url == IF cs THEN path ELSE Low(path)
      x == Runs(url, no)
  IN  /\ got' = [path |-> path, run |-> x.run, no |-> no,
                 route |-> IF x.on THEN FindRouter(m, url) ELSE 0]
      /\ UNCHANGED <<cs, routers, filters, parent, pattern, placed>>

\* The path a route was registered for, prefixes included.
FullPath(r) ==
  LET p == placed[r] IN
  IF p.reg = "app" THEN p.path
  ELSE IF parent[p.reg] \in Namespaces THEN Prefix[parent[p.reg]] \o Prefix[p.reg] \o p.path
  ELSE Prefix[p.reg] \o p.path

Serve ==
  /\ got = Idle /\ placed # <<>>
  /\ \E m \in Methods, r \in DOMAIN placed, no \in SUBSET {i \in DOMAIN filters.app : filters.app[i].kind = "cond"} :
       Request(m, FullPath(r), no)

Next == Route \/ NSRoute \/ Before \/ NSBefore \/ AddCond \/ Link \/ Serve

Spec == Init /\ [][Next]_regVars

-----------------------------------------------------------------------------
(* Properties.                                                             *)

\* The namespaces a register is in, itself included.
Within(g) == IF g = "app" THEN {} ELSE {g} \cup (IF parent[g] \in Namespaces THEN {parent[g]} ELSE {})
Linked(r) == \A n \in Within(placed[r].reg) : parent[n] # "none"
             /\ (parent[n] \in Namespaces => parent[parent[n]] = "app")

\* A handler runs only if every condition of the namespaces around it said
\* yes, in whichever order conditions and filters were added and namespaces
\* were linked.
CondHolds ==
  got.route # 0 =>
    \A i \in DOMAIN filters.app :
      filters.app[i].kind = "cond" /\ filters.app[i].of \in Within(placed[got.route].reg) => i \notin got.no

\* Once its namespace is linked a route answers for its path and for all the
\* methods it was registered with, unless the prefix of a namespace has upper
\* case and the router does not tell cases apart.
Reachable ==
  \A r \in DOMAIN placed :
    LET p == placed[r]
        url == IF cs THEN FullPath(r) ELSE Low(FullPath(r))
        named == IF p.mapping = {} \/ "*" \in p.mapping THEN Methods ELSE p.mapping
    IN  Linked(r) /\ (cs \/ "n2" \notin Within(p.reg)) => \A m \in named : FindRouter(m, url) # 0

\* The pattern a route reports is the path it answers for, however many
\* methods it has, unless its own path begins like the prefix.
PatternFull ==
  \A r \in DOMAIN placed :
    Linked(r) /\ placed[r].path[1] = "X" /\ Cardinality(Within(placed[r].reg)) <= 1 => pattern[r] = FullPath(r)

\* "when a request with a matching URL arrives" the filter is run: for every
\* path that begins with its pattern, in upper or lower case unless the
\* router tells them apart.
FilterCovers ==
  got # Idle /\ got.no = {} =>
    \A i \in DOMAIN filters.app :
      (IF cs THEN IsPrefix(filters.app[i].path, got.path)
             ELSE IsPrefix(Low(filters.app[i].path), Low(got.path))) => i \in got.run

\* A namespace, its conditions and its routers, however nested, end up where
\* their full pattern says.
RegisterSound == CondHolds /\ Reachable /\ PatternFull

=============================================================================
