------------------------------ MODULE AssetPlan ------------------------------
(***************************************************************************)
(* The build plan of the asset compiler (assets/plan.go, graph.go) and the  *)
(* preload walk (importmap.go).  An asset is a number, its logical path; a  *)
(* script has references to assets, and bare imports that the importmap     *)
(* resolves.  A digest is the value it digests, so two digests are equal    *)
(* when the bytes are.  The developer edits an asset between two builds.    *)
(***************************************************************************)
EXTENDS FiniteSetsExt, Naturals, Sequences, SequencesExt

CONSTANTS
  Targets,      \* script -> assets that it may reference by path
  Bare,         \* script -> assets that it may import by a bare specifier
  Others,       \* assets without references: images, fonts
  Missing       \* the target of a root-relative reference to no asset

VARIABLES
  tree,         \* asset -> [src, refs, bare]
  edits

planVars == <<tree, edits>>

Scripts == DOMAIN Targets
Assets == Scripts \cup Others
Sorted(S) == SetToSortSeq(S, <)

-----------------------------------------------------------------------------
(* dependencyComponents: Tarjan's algorithm, neighbours in sorted order.     *)
RECURSIVE connect(_, _, _)

Low(s, node, n) == [s EXCEPT !.lowlink[node] = IF n < @ THEN n ELSE @]

neighbor(deps, s, node, dependency) ==
  IF dependency \notin DOMAIN s.indices
  THEN LET t == connect(deps, s, dependency) IN Low(t, node, t.lowlink[dependency])
  ELSE IF Contains(s.stack, dependency) THEN Low(s, node, s.indices[dependency])
  ELSE s

(* The root of a component takes the members off the stack.                  *)
emit(s, node) ==
  IF s.lowlink[node] # s.indices[node] THEN s
  ELSE LET i == CHOOSE j \in 1..Len(s.stack) : s.stack[j] = node
       IN  [s EXCEPT !.stack = SubSeq(@, 1, i - 1),
                     !.components = Append(@, {s.stack[j] : j \in i..Len(s.stack)})]

connect(deps, s, node) ==
  LET entered == [s EXCEPT !.indices = @ @@ (node :> s.index),
                           !.lowlink = @ @@ (node :> s.index),
                           !.index = @ + 1, !.stack = Append(@, node)]
  IN  emit(FoldLeft(LAMBDA t, d : neighbor(deps, t, node, d), entered, Sorted(deps[node])), node)

components(deps) ==
  FoldLeft(LAMBDA s, n : IF n \in DOMAIN s.indices THEN s ELSE connect(deps, s, n),
           [index |-> 0, indices |-> <<>>, lowlink |-> <<>>, stack |-> <<>>, components |-> <<>>],
           Sorted(DOMAIN deps)).components

(* Then the condensed graph in topological order: of the components whose    *)
(* dependencies are all out, the one whose first member sorts first.         *)
RECURSIVE topological(_, _, _)
topological(deps, todo, out) ==
  LET needs(C) == {D \in todo \ {C} : \E n \in C : deps[n] \cap D # {}}
      ready == {C \in todo : needs(C) = {}}
      first == CHOOSE C \in ready : \A D \in ready : Min(C) <= Min(D)
  IN  IF ready = {} THEN out
      ELSE topological(deps, todo \ {first},
             Append(out, [nodes |-> first,
                          cyclic |-> Cardinality(first) > 1 \/ Min(first) \in deps[Min(first)]]))

dependencyComponents(deps) == topological(deps, Range(components(deps)), <<>>)

-----------------------------------------------------------------------------
(* planBuild.  Names are pairs of a logical path and a digest; passthrough   *)
(* assets are digested first, scripts with their dependencies before them.   *)
hashedName(a, digest) == <<a, digest>>

(* A reference that has no name keeps its text.                              *)
NameOr(names, r) == IF r \in DOMAIN names THEN names[r] ELSE hashedName(r, <<"text">>)

rewritePlannedContent(asset, names) ==
  <<"bytes", asset.src, [r \in asset.refs |-> NameOr(names, r)], asset.bare>>

\* Mutant: the digest of a cycle leaves out what the cycle depends on.
cyclicSourcesOnly(t, nodes, names) ==
  <<"scc", [a \in nodes |-> t[a].src],
           [a \in nodes |-> t[a].refs],
           [a \in nodes |-> t[a].bare]>>

(* One digest for a cycle: its members, their sources, references inside it  *)
(* as markers, and the final names of those outside.                         *)
cyclicComponentHash(t, nodes, names) ==
  <<"scc", [a \in nodes |-> t[a].src],
           [a \in nodes |-> [r \in t[a].refs |->
                               IF r \in nodes THEN <<r, "inside">> ELSE NameOr(names, r)]],
           [a \in nodes |-> t[a].bare]>>

planComponent(t, names, c) ==
  IF ~c.cyclic
  THEN LET a == Min(c.nodes)
       IN  names @@ (a :> hashedName(a, rewritePlannedContent(t[a], names)))
  ELSE LET digest == cyclicComponentHash(t, c.nodes, names)
       IN  names @@ [a \in c.nodes |-> hashedName(a, digest)]

deps(t) == [a \in Scripts |-> t[a].refs \cap Scripts]

hashedNames(t) ==
  FoldLeft(LAMBDA names, c : planComponent(t, names, c),
           [a \in Others |-> hashedName(a, <<"raw", t[a].src>>)],
           dependencyComponents(deps(t)))

(* plan.assets: the bytes that Build and Compile publish under a name.       *)
published(t, names) ==
  [a \in Assets |-> IF a \in Others THEN <<"raw", t[a].src>>
                    ELSE rewritePlannedContent(t[a], names)]

-----------------------------------------------------------------------------
(* The preload walk of computePreloadGraph, depth first.  In a compiled tree *)
(* it follows manifest.Dependencies, in source mode the references read from *)
(* the file; a reference to no asset is an error there.                      *)

plannedDependencies(t, a) ==
  LET paths == t[a].refs \cap Assets
  IN  Sorted(paths) \o Sorted(t[a].bare \ paths)

readRefs(t, a) == Sorted(t[a].refs) \o Sorted(t[a].bare)

RECURSIVE visit(_, _, _, _)
visit(t, compiled, seen, a) ==
  IF a \in Range(seen) \/ a \in Others THEN seen
  ELSE LET next == IF compiled THEN plannedDependencies(t, a) ELSE readRefs(t, a)
       IN  FoldLeft(LAMBDA s, b : visit(t, compiled, s, b), Append(seen, a), next)

computePreloadGraph(t, compiled, entry) == visit(t, compiled, <<>>, entry)

-----------------------------------------------------------------------------
Init ==
  /\ \E refs \in {f \in [Scripts -> SUBSET UNION Range(Targets)] :
                      \A a \in Scripts : f[a] \subseteq Targets[a]},
        bare \in {f \in [Scripts -> SUBSET UNION Range(Bare)] :
                      \A a \in Scripts : f[a] \subseteq Bare[a]} :
       tree = [a \in Assets |-> [src |-> 0,
                                 refs |-> IF a \in Scripts THEN refs[a] ELSE {},
                                 bare |-> IF a \in Scripts THEN bare[a] ELSE {}]]
  /\ edits = 0

(* Other bytes, or a reference more or less.                                 *)
Edit ==
  /\ edits = 0
  /\ edits' = 1
  /\ \E a \in Assets :
       \/ tree' = [tree EXCEPT ![a].src = 1 - @]
       \/ /\ a \in Scripts
          /\ \E r \in Targets[a] :
               tree' = [tree EXCEPT ![a].refs = IF r \in @ THEN @ \ {r} ELSE @ \cup {r}]

Spec == Init /\ [][Edit]_planVars

-----------------------------------------------------------------------------
Follow(t, S) == S \cup UNION {t[a].refs \cap Assets : a \in S}
Reached(t, a) ==
  LET R[i \in 0..Cardinality(Assets)] == IF i = 0 THEN {a} ELSE Follow(t, R[i-1])
  IN  R[Cardinality(Assets)]

(* dependencyComponents: every script once, grouped with those it can reach  *)
(* and that reach it, dependencies before importers, a cycle marked as one.  *)
ComponentsOrdered ==
  LET cs == dependencyComponents(deps(tree))
      InCycle(a) == \E b \in deps(tree)[a] : a \in Reached(tree, b)
      Place(a) == CHOOSE i \in DOMAIN cs : a \in cs[i].nodes
  IN  /\ \A i, j \in DOMAIN cs : i # j => cs[i].nodes \cap cs[j].nodes = {}
      /\ UNION {cs[i].nodes : i \in DOMAIN cs} = Scripts
      /\ \A a \in Scripts :
           /\ cs[Place(a)].nodes = {b \in Scripts : b \in Reached(tree, a) /\ a \in Reached(tree, b)}
           /\ cs[Place(a)].cyclic <=> InCycle(a)
           /\ \A b \in deps(tree)[a] : Place(b) <= Place(a)

(* Content addressing: after an edit an asset has its old name exactly when  *)
(* nothing that it reaches by references changed, and then its bytes are the *)
(* old ones too.  A hashed URL is served as immutable for a year.            *)
NamesFollowContent ==
  LET old == hashedNames(tree)
      new == hashedNames(tree')
  IN  \A a \in Assets :
        /\ (old[a] = new[a]) <=> (\A b \in Reached(tree, a) : tree[b] = tree'[b])
        /\ (old[a] = new[a]) => published(tree, old)[a] = published(tree', new)[a]

(* A page asks the browser to preload the same scripts in the same order in  *)
(* source mode and compiled.  A root-relative reference to no asset is left   *)
(* alone by the compiler and fails the page in source mode.                   *)
PreloadAgrees ==
  \A a \in Scripts :
    (\A b \in Scripts : Missing \notin tree[b].refs) =>
      computePreloadGraph(tree, TRUE, a) = computePreloadGraph(tree, FALSE, a)
=============================================================================
