-------------------------- MODULE RouteDirectives --------------------------
(***************************************************************************)
(* One generation run over the router's directives (router/directive): the  *)
(* engine parses and checks every declaration, emits them - registrations   *)
(* are recorded, not made -, replays the record once as the router's        *)
(* bundle, and validates. The declarations come in the order they are       *)
(* loaded, which need not be the order of their positions.                  *)
(*                                                                         *)
(* A declaration is a record with kind, pos and target (what it stands on): *)
(* "mw" as below; "group" with type, path and refs; "http" with method,    *)
(* path, recv and refs; "handle" (a handler of every method)                *)
(* with path, recv and refs; "static" with path; "hook" with method and     *)
(* directive. recv is the handler's struct, "" for a function.              *)
(* A path is the sequence of its segments: "*" a wildcard, "**" one for the *)
(* rest, "$" the end, "" (last) a trailing slash, "?" one that is malformed.*)
(***************************************************************************)
EXTENDS Integers, Sequences, FiniteSets, SequencesExt, FiniteSetsExt

CONSTANTS
  Inputs,           \* the sequences of declarations generated from
  Demanding,        \* positions of routes whose handler injects the HTTP server
  Segments          \* segments of request paths

----------------------------------------------------------------------------
(* The order of the global middleware (router/directive/ordering.go), from  *)
(* requires=, after=, before= and the wildcards. A middleware has a pos     *)
(* (file and line, as one number), a name ("" for none), global, the        *)
(* sequences of names requires, after and before, and afterAll and          *)
(* beforeAll. An error is <<what, pos>>.                                    *)

declLess(a, b) == a.pos < b.pos

byNameOf(decls, x) == SelectSeq(decls, LAMBDA nd : nd.name = x)

band(nd) == IF nd.beforeAll THEN 0 ELSE IF nd.afterAll THEN 2 ELSE 1

----------------------------------------------------------------------------
(* One cycle of a graph, or <<>>: a depth-first search from the nodes in    *)
(* order. succ[n] are the successors of n, in order.                        *)

RECURSIVE dfs(_, _, _)
dfs(succ, q, n) ==
  LET follow(p, to) ==
        CASE p.cycle # <<>> -> p
          [] p.color[to] = "gray" -> [p EXCEPT !.cycle = SubSeq(p.stack, SelectInSeq(p.stack, LAMBDA s : s = to), Len(p.stack))]
          [] p.color[to] = "white" -> dfs(succ, p, to)
          [] OTHER -> p
      out == FoldLeft(follow, [q EXCEPT !.color[n] = "gray", !.stack = Append(@, n)], succ[n])
  IN IF out.cycle # <<>> THEN out ELSE [out EXCEPT !.color[n] = "black", !.stack = Front(@)]

FirstCycle(nodes, succ) ==
  FoldLeft(LAMBDA q, n : IF q.cycle = <<>> /\ q.color[n] = "white" THEN dfs(succ, q, n) ELSE q,
           [color |-> [n \in ToSet(nodes) |-> "white"], stack |-> <<>>, cycle |-> <<>>], nodes).cycle

\* The targets of references to declared names.
Targets(decls, refs) == FlattenSeq([i \in DOMAIN refs |-> byNameOf(decls, refs[i])])

requiresCycle(remaining, decls) ==
  LET nodes == SortSeq(remaining, declLess)
  IN FirstCycle(nodes, [n \in ToSet(nodes) |->
       SelectSeq(Targets(decls, n.requires), LAMBDA t : t \in ToSet(nodes))])

\* The requires cycles found one after the other, each without the nodes of the ones before.
RECURSIVE requiresCycles(_, _)
requiresCycles(remaining, decls) ==
  LET cycle == requiresCycle(remaining, decls) IN
  IF cycle = <<>> THEN <<>>
  ELSE <<cycle>> \o requiresCycles(SelectSeq(remaining, LAMBDA n : n \notin ToSet(cycle)), decls)

----------------------------------------------------------------------------
(* resolveOrder. *)

Edge(from, to, g) == [from |-> from, to |-> to, pos |-> g.pos]

\* Mutant: only the hard edges are ordered, the soft ones are taken for hints.
EdgesHard(decls, g) ==
  LET requires == SelectSeq(Targets(decls, g.requires), LAMBDA t : t.global)
  IN [i \in DOMAIN requires |-> Edge(requires[i], g, g)]

\* What the options of a global give: edges, and errors for targets that are not global.
\* A soft reference nothing declares is inactive.
EdgesOf(decls, g) ==
  LET global(refs) == SelectSeq(Targets(decls, refs), LAMBDA t : t.global)
      requires == global(g.requires)
      after == global(g.after)
      before == global(g.before)
  IN [i \in DOMAIN requires |-> Edge(requires[i], g, g)]
     \o [i \in DOMAIN after |-> Edge(after[i], g, g)]
     \o [i \in DOMAIN before |-> Edge(g, before[i], g)]

NotGlobal(decls, g) == {t \in ToSet(Targets(decls, g.after \o g.before)) : ~t.global}

\* Kahn's algorithm over one band's members, which are sorted: the first member that waits
\* for nothing comes next. A member on or behind a cycle is never placed.
RECURSIVE placeBand(_, _, _)
placeBand(members, edges, placed) ==
  LET waits(n) == \E e \in ToSet(edges) : e.to = n /\ e.from \notin ToSet(placed)
      i == SelectInSeq(members, LAMBDA n : n \notin ToSet(placed) /\ ~waits(n))
  IN IF i = 0 THEN placed ELSE placeBand(members, edges, Append(placed, members[i]))

stuckCycle(stuck, graph) ==
  FirstCycle(stuck, [n \in ToSet(stuck) |->
    LET out == SelectSeq(graph, LAMBDA e : e.from = n /\ e.to \in ToSet(stuck))
    IN [i \in DOMAIN out |-> out[i].to]])

Edges(decls, globals) == FlattenSeq([i \in DOMAIN globals |-> EdgesOf(decls, globals[i])])

resolveOrder(globals, decls) ==
  LET edges == Edges(decls, globals)
      graph == SelectSeq(edges, LAMBDA e : band(e.from) = band(e.to))
      condemned == UNION {ToSet(c) : c \in ToSet(requiresCycles(decls, decls))}
      members(b) == SortSeq(SelectSeq(globals, LAMBDA g : band(g) = b), declLess)
      placed(b) == placeBand(members(b), graph, <<>>)
      stuck(b) == SelectSeq(members(b), LAMBDA n : n \notin ToSet(placed(b)))
      cycle(b) == stuckCycle(SelectSeq(stuck(b), LAMBDA n : n \notin condemned), graph)
      found == SelectInSeq(<<0, 1, 2>>, LAMBDA b : cycle(b) # <<>>)
  IN [stack |-> FlattenSeq([i \in 1..3 |-> placed(i - 1) \o stuck(i - 1)]),
      errors |-> {<<"not global", g.pos>> : g \in {g \in ToSet(globals) : NotGlobal(decls, g) # {}}}
                 \cup {<<"band", e.pos>> : e \in {e \in ToSet(edges) : band(e.from) > band(e.to)}}
                 \cup IF found = 0 THEN {} ELSE {<<"cycle", cycle(found - 1)[1].pos>>}]

validateDecls(decls, used) ==
  [errors |->
     UNION {LET nd == decls[i]
                unknown == \E j \in DOMAIN nd.requires : byNameOf(decls, nd.requires[j]) = <<>>
                scoped == nd.global /\ \E t \in ToSet(Targets(decls, nd.requires)) : ~t.global
            IN (IF unknown THEN {<<"unknown", nd.pos>>} ELSE {})
               \cup (IF scoped THEN {<<"not global", nd.pos>>} ELSE {})
               \cup (IF nd.name = "" /\ ~nd.global THEN {<<"inert", nd.pos>>} ELSE {}) : i \in DOMAIN decls}
     \cup {<<"requires cycle", c[1].pos>> : c \in ToSet(requiresCycles(decls, decls))},
   warnings |->
     {<<"unused", nd.pos>> : nd \in {nd \in ToSet(decls) : nd.name # "" /\ ~nd.global /\ nd.name \notin used}}]

----------------------------------------------------------------------------

VARIABLES
  items,            \* what is generated from
  phase, at,        \* the engine's phase and the next item in it
  decls, globals,   \* Middleware: checked declarations, emitted globals
  used,             \* names of middleware referenced by a chain
  groups,           \* Group: type -> declaration
  routes,           \* routeTable: keys in order
  hooks,            \* Host: method -> directive that claimed it
  deferred,         \* Host: recorded registrations
  bundle,           \* the bundle: "", "building", "done"
  nodes,            \* what is generated, in order
  errors, warnings

vars == <<items, phase, at, decls, globals, used, groups, routes, hooks, deferred, bundle, nodes, errors, warnings>>

----------------------------------------------------------------------------
(* Parse. *)

\* Terminal wildcards are last.
patternError(p) == \E i \in DOMAIN p : p[i] = "?" \/ (i < Len(p) /\ p[i] \in {"**", "$"})

isIdentifier(x) == x # "?"
parseMWRefs(refs) == \A i \in DOMAIN refs : isIdentifier(refs[i])

\* A token in upper case.
validMethod(m) == m \notin {"?", "get"}

ParseRoute(d) == validMethod(d.method) /\ ~patternError(d.path) /\ parseMWRefs(d.refs)
HandleParse(d) == ~patternError(d.path) /\ parseMWRefs(d.refs)
GroupParse(d) ==
  d.path # <<"">> /\ {"$", "**"} \cap ToSet(d.path) = {} /\ ~patternError(d.path) /\ parseMWRefs(d.refs)
StaticParse(d) == d.path # <<"">> /\ {"$", "**", "*", "?"} \cap ToSet(d.path) = {}
TrimSlash(p) == IF Last(p) = "" THEN Front(p) ELSE p

MiddlewareParse(d) ==
  /\ \A x \in ToSet(d.requires \o d.after \o d.before) : isIdentifier(x)
  /\ ~(d.beforeAll /\ d.afterAll)
  /\ d.after # <<>> \/ d.before # <<>> \/ d.afterAll \/ d.beforeAll => d.global

(* Check: what the declaration stands on, and what is declared once. *)

HTTPCheck(d) == d.target = "handler"
HandleCheck(d) == d.target \in {"handler", "factory"}
StaticCheck(d) == d.target = "embed"

Refuse(d) == errors' = errors \cup {<<"declaration", d.pos>>}

MiddlewareCheck(d) ==
  IF d.target \notin {"middleware", "constructor"} \/ (d.name # "" /\ byNameOf(decls, d.name) # <<>>)
  THEN Refuse(d) /\ UNCHANGED decls
  ELSE decls' = Append(decls, d) /\ UNCHANGED errors

GroupCheck(d) ==
  IF d.target # "struct" \/ d.type \in DOMAIN groups
  THEN Refuse(d) /\ UNCHANGED groups
  ELSE groups' = [t \in DOMAIN groups \cup {d.type} |-> IF t = d.type THEN d ELSE groups[t]] /\ UNCHANGED errors

\* One handler per miss hook, whichever directive sets it.
ClaimHook(d) ==
  IF d.method \in DOMAIN hooks
  THEN Refuse(d) /\ UNCHANGED hooks
  ELSE /\ hooks' = [m \in DOMAIN hooks \cup {d.method} |-> IF m = d.method THEN d.directive ELSE hooks[m]]
       /\ UNCHANGED errors

HookCheck(d) == IF d.target = "handler" THEN ClaimHook(d) ELSE Refuse(d) /\ UNCHANGED hooks

Parses(d) ==
  CASE d.kind = "mw" -> MiddlewareParse(d)
    [] d.kind = "group" -> GroupParse(d)
    [] d.kind = "http" -> ParseRoute(d)
    [] d.kind = "handle" -> HandleParse(d)
    [] d.kind = "static" -> StaticParse(d)
    [] OTHER -> TRUE

Fits(d) ==
  CASE d.kind = "http" -> HTTPCheck(d) [] d.kind = "handle" -> HandleCheck(d) [] OTHER -> StaticCheck(d)

Check ==
  /\ phase = "check" /\ at <= Len(items)
  /\ LET d == items[at] IN
     CASE ~Parses(d) -> Refuse(d) /\ UNCHANGED <<decls, groups, hooks>>
       [] Parses(d) /\ d.kind = "mw" -> MiddlewareCheck(d) /\ UNCHANGED <<groups, hooks>>
       [] Parses(d) /\ d.kind = "group" -> GroupCheck(d) /\ UNCHANGED <<decls, hooks>>
       [] Parses(d) /\ d.kind = "hook" -> HookCheck(d) /\ UNCHANGED <<decls, groups>>
       [] OTHER -> IF Fits(d) THEN UNCHANGED <<decls, groups, hooks, errors>>
                   ELSE Refuse(d) /\ UNCHANGED <<decls, groups, hooks>>
  /\ at' = at + 1
  /\ UNCHANGED <<items, phase, globals, used, routes, deferred, bundle, nodes, warnings>>

\* Emit only after every Parse and Check passed.
Checked ==
  /\ phase = "check" /\ at > Len(items)
  /\ phase' = IF errors = {} THEN "emit" ELSE "done"
  /\ at' = 1
  /\ UNCHANGED <<items, decls, globals, used, groups, routes, hooks, deferred, bundle, nodes, errors, warnings>>

----------------------------------------------------------------------------
(* Emit. *)

\* "/{$}" maps to the bare prefix.
joinPattern(base, path) == IF base # <<>> /\ path = <<"$">> THEN base ELSE base \o path

effectiveRoute(d) ==
  IF d.recv \in DOMAIN groups
  THEN [path |-> joinPattern(TrimSlash(groups[d.recv].path), d.path), refs |-> groups[d.recv].refs \o d.refs]
  ELSE [path |-> d.path, refs |-> d.refs]

\* The requests a ServeMux pattern <<method, path>> matches; a trailing slash matches what
\* is below.
Matches(p, r) ==
  LET n == Len(p)
      below == p[n] \in {"", "**"}
      fits(i) == IF p[i] = "*" THEN r[i] # "" ELSE r[i] = IF p[i] = "$" THEN "" ELSE p[i]
  IN /\ IF below THEN Len(r) >= n ELSE Len(r) = n
     /\ \A i \in 1..(IF below THEN n - 1 ELSE n) : fits(i)
MethodsOf(m) == IF m = "" THEN {"GET", "HEAD", "POST"} ELSE IF m = "GET" THEN {"GET", "HEAD"} ELSE {m}
RequestsOf(key) ==
  MethodsOf(key[1]) \X {r \in UNION {[1..n -> Segments] : n \in 1..3} :
                        (\A i \in 1..(Len(r) - 1) : r[i] # "") /\ Matches(key[2], r)}

\* ServeMux panics when two patterns match a request and neither is the more specific.
registers(key) ==
  \A i \in DOMAIN routes :
    LET old == RequestsOf(routes[i])
        new == RequestsOf(key)
    IN \/ old \cap new = {}
       \/ old \subseteq new /\ old # new
       \/ new \subseteq old /\ old # new

\* routeTable.add.
Adds(key) == key \notin ToSet(routes) /\ registers(key)

\* Middleware.resolve: the chain, and what is wrong with it.
resolve(refs, pos) ==
  LET step(q, r) ==
        LET found == byNameOf(decls, r)
            nd == found[1]
            unmet == \E i \in DOMAIN nd.requires :
                       LET t == byNameOf(decls, nd.requires[i])
                       IN t # <<>> /\ ~t[1].global /\ t[1] \notin ToSet(q.chain)
        IN CASE found = <<>> \/ nd.global -> [q EXCEPT !.errors = {<<"chain", pos>>}]
             [] unmet -> [chain |-> Append(q.chain, nd), errors |-> {<<"chain", pos>>}]
             [] OTHER -> [q EXCEPT !.chain = Append(@, nd)]
  IN FoldLeft(step, [chain |-> <<>>, errors |-> {}], refs)

\* A route whose pattern is taken still has its chain checked.
EmitRoute(d, method) ==
  LET route == effectiveRoute(d)
      key == <<method, route.path>>
      mws == resolve(route.refs, d.pos)
  IN /\ used' = used \cup {nd.name : nd \in ToSet(mws.chain)}
     /\ IF Adds(key)
        THEN /\ routes' = Append(routes, key)
             /\ deferred' = Append(deferred, [make |-> "route", key |-> key, chain |-> mws.chain, pos |-> d.pos])
             /\ errors' = errors \cup mws.errors
        ELSE /\ errors' = errors \cup mws.errors \cup {<<"route", d.pos>>}
             /\ UNCHANGED <<routes, deferred>>
     /\ UNCHANGED globals

\* The first global records the stack.
EmitMiddleware(d) ==
  /\ globals' = IF d.global THEN Append(globals, d) ELSE globals
  /\ deferred' = IF d.global /\ globals = <<>>
                 THEN Append(deferred, [make |-> "stack", key |-> <<>>, chain |-> <<>>, pos |-> d.pos])
                 ELSE deferred
  /\ UNCHANGED <<used, routes, errors>>

EmitStatic(d) ==
  LET key == <<"", Append(TrimSlash(d.path), "")>> IN
  /\ IF Adds(key)
     THEN /\ routes' = Append(routes, key)
          /\ deferred' = Append(deferred, [make |-> "route", key |-> key, chain |-> <<>>, pos |-> d.pos])
          /\ UNCHANGED errors
     ELSE errors' = errors \cup {<<"route", d.pos>>} /\ UNCHANGED <<routes, deferred>>
  /\ UNCHANGED <<used, globals>>

EmitHook(d) ==
  /\ deferred' = Append(deferred, [make |-> "hook", key |-> <<d.method>>, chain |-> <<>>, pos |-> d.pos])
  /\ UNCHANGED <<used, globals, routes, errors>>

Emit ==
  /\ phase = "emit" /\ at <= Len(items)
  /\ LET d == items[at] IN
     CASE d.kind = "mw" -> EmitMiddleware(d)
       [] d.kind = "http" -> EmitRoute(d, d.method)
       [] d.kind = "handle" -> EmitRoute(d, "")
       [] d.kind = "static" -> EmitStatic(d)
       [] d.kind = "hook" -> EmitHook(d)
       [] OTHER -> UNCHANGED <<used, globals, routes, deferred, errors>>
  /\ at' = at + 1
  /\ UNCHANGED <<items, phase, decls, groups, hooks, bundle, nodes, warnings>>

Emitted ==
  /\ phase = "emit" /\ at > Len(items)
  /\ phase' = "finish" /\ at' = 1
  /\ bundle' = IF bundle = "" THEN "building" ELSE bundle
  /\ UNCHANGED <<items, decls, globals, used, groups, routes, hooks, deferred, nodes, errors, warnings>>

----------------------------------------------------------------------------
(* FinishBundle: the record is replayed once. A handler that injects the    *)
(* server asks for the bundle again while it is being built.                *)

\* Middleware.expr: a constructor is called where it is first used.
expr(out, nd) ==
  LET build == [node |-> "build", key |-> <<>>, chain |-> <<>>, pos |-> nd.pos]
  IN IF nd.target = "constructor" /\ build \notin ToSet(out) THEN Append(out, build) ELSE out

Used(out, nd) == Append(expr(out, nd), [node |-> "use", key |-> <<>>, chain |-> <<>>, pos |-> nd.pos])

Replayed(out, r) ==
  CASE r.make = "stack" -> FoldLeft(Used, out, resolveOrder(globals, decls).stack)
    [] r.make = "route" -> Append(FoldLeft(expr, out, r.chain),
                                  [node |-> "route", key |-> r.key, chain |-> r.chain, pos |-> r.pos])
    [] OTHER -> Append(out, [node |-> "hook", key |-> r.key, chain |-> <<>>, pos |-> r.pos])

\* What an injected server's request for the bundle replays.
BundleAsked(r) == r.pos \in Demanding /\ bundle = ""

FinishBundle ==
  /\ phase = "finish" /\ bundle = "building" /\ at <= Len(deferred)
  /\ nodes' = IF BundleAsked(deferred[at])
              THEN Replayed(FoldLeft(Replayed, nodes, deferred), deferred[at])
              ELSE Replayed(nodes, deferred[at])
  /\ at' = at + 1
  /\ UNCHANGED <<items, phase, decls, globals, used, groups, routes, hooks, deferred, bundle, errors, warnings>>

Validate ==
  /\ phase = "finish" /\ at > Len(deferred)
  /\ errors' = errors \cup resolveOrder(globals, decls).errors \cup validateDecls(decls, used).errors
  /\ warnings' = validateDecls(decls, used).warnings
                 \cup {<<"no routes", groups[t].pos>> :
                         t \in {t \in DOMAIN groups : \A i \in DOMAIN items :
                                  items[i].kind \in {"http", "handle"} => items[i].recv # t}}
  /\ phase' = "done" /\ bundle' = "done"
  /\ UNCHANGED <<items, at, decls, globals, used, groups, routes, hooks, deferred, nodes>>

Init ==
  /\ items \in Inputs
  /\ phase = "check" /\ at = 1
  /\ decls = <<>> /\ globals = <<>> /\ used = {} /\ groups = <<>>
  /\ routes = <<>> /\ hooks = <<>> /\ deferred = <<>> /\ bundle = "" /\ nodes = <<>>
  /\ errors = {} /\ warnings = {}

Next == Check \/ Checked \/ Emit \/ Emitted \/ FinishBundle \/ Validate

----------------------------------------------------------------------------
Generated == phase = "done" /\ errors = {}

Mws == {d \in ToSet(items) : d.kind = "mw"}
Named(x) == {d \in Mws : d.name = x}
Before(a, b) ==
  \/ \E x \in ToSet(b.requires) \cup ToSet(b.after) : a \in Named(x)
  \/ \E x \in ToSet(a.before) : b \in Named(x)
Uses == SelectSeq(nodes, LAMBDA n : n.node = "use")
\* The place of a global in the stack.
Place(d) == SelectInSeq(Uses, LAMBDA n : n.pos = d.pos)
Globals == {d \in Mws : d.global}

\* The stack is what the declarations ask for: every global once, the wildcards outermost
\* and innermost, every requires=, after= and before= kept, and two neighbours stand against
\* their declaration order only where an option puts them so (resolveOrder).
StackAsDeclared ==
  Generated =>
    /\ Len(Uses) = Cardinality(Globals)
    /\ \A d \in Globals : Place(d) > 0
    /\ \A a, b \in Globals :
         /\ Before(a, b) => Place(a) < Place(b)
         /\ band(a) < band(b) => Place(a) < Place(b)
         /\ (Place(b) = Place(a) + 1 /\ band(a) = band(b) /\ declLess(b, a)) => Before(a, b)

\* A route runs its group's chain and then its own; what a middleware of it requires runs
\* before it, in the chain or for every route (resolve, effectiveRoute). Every route, hook
\* and constructor is generated once, and none for a key or a hook that is taken.
RoutesAsDeclared ==
  Generated =>
    /\ \A i \in DOMAIN nodes : nodes[i].node # "use" =>
         \A j \in DOMAIN nodes : nodes[j].node = nodes[i].node /\ nodes[j].pos = nodes[i].pos => i = j
    /\ \A d \in ToSet(items) : d.kind \in {"http", "handle", "static", "hook"} =>
         \E i \in DOMAIN nodes : nodes[i].node \in {"route", "hook"} /\ nodes[i].pos = d.pos
    /\ \A i \in DOMAIN nodes : nodes[i].node = "route" =>
         /\ \A j \in DOMAIN nodes[i].chain :
              LET nd == nodes[i].chain[j] IN
              /\ ~nd.global
              /\ nd.target = "constructor" => \E k \in 1..(i - 1) : nodes[k].node = "build" /\ nodes[k].pos = nd.pos
              /\ \A x \in ToSet(nd.requires) :
                   \E t \in Named(x) : t.global \/ t \in ToSet(SubSeq(nodes[i].chain, 1, j - 1))
         /\ \A k \in DOMAIN nodes : (nodes[k].node = "route" /\ k # i) =>
              LET p == RequestsOf(nodes[i].key)
                  q == RequestsOf(nodes[k].key)
              IN p \cap q = {} \/ (p # q /\ (p \subseteq q \/ q \subseteq p))

\* A global middleware is refused exactly when no stack could satisfy the declarations: the
\* options among the globals, with the bands, are cyclic, or a required name is not there.
Orders(K) ==
  LET step(a, b) == Before(a, b) \/ band(a) < band(b)
      RECURSIVE Reach(_)
      Reach(S) == LET T == S \cup {b \in K : \E a \in S : step(a, b)} IN IF T = S THEN S ELSE Reach(T)
  IN \A a \in K : a \notin Reach({b \in K : step(a, b)})

RefusedOnlyIfUnorderable ==
  (phase = "done" /\ \A d \in ToSet(items) : d.kind = "mw" /\ d.global /\ MiddlewareParse(d) /\ d.target # "handler") =>
    (errors = {} <=>
       /\ Orders(Globals)
       /\ \A d \in Globals : \A x \in ToSet(d.requires) : Named(x) # {}
       /\ \A a, b \in Globals : a.name # "" /\ a.name = b.name => a = b)

=============================================================================
