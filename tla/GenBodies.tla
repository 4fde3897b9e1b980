----------------------------- MODULE GenBodies -----------------------------
(***************************************************************************)
(* The bodies of the commands the generator writes.                        *)
(*                                                                         *)
(* How it shares code between commands (gen/fragment.go,                   *)
(* gen/fragment_emit.go). Each command is a flow over one graph of nodes;  *)
(* connected nodes that the same flows use may become a region, a function *)
(* the flows call, and every other node is emitted inline in each flow.    *)
(* Node i defines variable i. Its uses are earlier nodes of its own or an  *)
(* earlier phase, and each of its flows runs what it uses: that is how the *)
(* flows are walked. A root, what a command is called with, is an          *)
(* expression over variables, here the set of those it reads.              *)
(*                                                                         *)
(* Apart from it, the order in which a flow's statements are written:      *)
(* gen/validate.go reports dependency cycles, and gen/render.go lays out   *)
(* each phase, grouping statements that belong together as far as          *)
(* dependencies and batches allow. A position is a file, 0 for none, and a *)
(* line. Nodes of one batch are sequenced in emission order.               *)
(***************************************************************************)
EXTENDS Integers, Sequences, SequencesExt, FiniteSets, FiniteSetsExt

CONSTANTS Flows,            \* the commands, in registration order
          KindsAt,          \* KindsAt[i]: what node i may be
          UsagesAt,         \* UsagesAt[i]: the sets of flows that may use it
          MaxIns, MaxOuts, MaxDiscarded,  \* width limits of a region (4, 3, 1)
          Inputs,           \* the flows laid out: sequences of nodes in emission order
          layoutBlockMax,   \* nodes of a block (10)
          hubFanout         \* readers that make a value a hub (3)

VARIABLES nodes,            \* the store, in emission order
          roots,            \* [flow -> its root expressions]
          stage,            \* "walk", "rooted", "planned"; "emitted", "reported", "laying", "done"
          regions,          \* the regions kept, in order of their first member
          steps,            \* [flow -> its body: region indices and inline nodes]
          blocks            \* the blocks written, the last one open

fragmentVars == <<nodes, roots, stage, regions, steps>>
layoutVars == <<nodes, stage, blocks>>

FlowSet == ToSet(Flows)
MaxNodes == Len(KindsAt)
Ix == DOMAIN nodes

PhaseOf == [prelude |-> 1, config |-> 1, hook |-> 2, named |-> 3, anon |-> 3]
Phase(i) == PhaseOf[nodes[i].kind]
isConfig(i) == nodes[i].kind = "config"
uses(i) == nodes[i].uses
flowsOf(i) == nodes[i].flows

RootsOf(f) == ToSet(roots[f])
Compound(e) == Cardinality(e) > 1
RootFlows(e) == {f \in FlowSet : e \in RootsOf(f)}
SharedRoots == {e \in UNION {RootsOf(f) : f \in FlowSet} : Compound(e) /\ Cardinality(RootFlows(e)) > 1}

----------------------------------------------------------------------------
(* The partition. *)

Linked(i, j) ==
  /\ ~isConfig(i) /\ ~isConfig(j) /\ flowsOf(i) = flowsOf(j)
  /\ \/ j \in uses(i) \/ i \in uses(j)
     \/ \E e \in SharedRoots : {i, j} \subseteq e /\ RootFlows(e) = flowsOf(i)

RECURSIVE Closure(_)
Closure(S) == LET T == S \cup {j \in Ix : \E i \in S : Linked(i, j)}
              IN IF T = S THEN S ELSE Closure(T)

Component(i) == Closure({i})
formComponents ==
  LET firsts == {i \in Ix : ~isConfig(i) /\ i = Min(Component(i))}
      reg(i) == [usage |-> flowsOf(i), members |-> Component(i), primary |-> {}]
      sorted == SetToSortSeq(firsts, <)
  IN [k \in DOMAIN sorted |-> reg(sorted[k])]

runs(r, f) == f \in r.usage

\* The region of regs that owns node i in flow f, 0 if i is inline there.
homeFor(regs, i, f) ==
  LET owners == {k \in DOMAIN regs : i \in regs[k].members /\ runs(regs[k], f)}
  IN IF owners = {} THEN 0 ELSE Min(owners)

\* A compound root all its flows share moves into the region that defines all
\* it reads and that runs in just those flows; a region takes one root.
Embeds(r, e) == e \subseteq r.members /\ RootFlows(e) = r.usage
embedSharedRoots(regs) ==
  [k \in DOMAIN regs |->
     LET es == {e \in SharedRoots : Embeds(regs[k], e)}
     IN [regs[k] EXCEPT !.primary = IF es = {} THEN {} ELSE CHOOSE e \in es : TRUE]]

\* What flow f reads of the roots in its own body.
RootRefs(regs, f) ==
  UNION {e \in RootsOf(f) : ~\E k \in DOMAIN regs : regs[k].primary = e /\ runs(regs[k], f)}

\* The regions, 0 for inline code, that read variable v in flow f.
Homes(regs, v, f) ==
  {homeFor(regs, j, f) : j \in {j \in Ix : v \in uses(j) /\ f \in flowsOf(j)}}
    \cup (IF v \in RootRefs(regs, f) /\ f \in flowsOf(v) THEN {0} ELSE {})
Agreed(regs, v) == \A f \in FlowSet : Cardinality(Homes(regs, v, f)) <= 1

\* A configuration load joins the regions that read it when every flow that
\* reads it does so in one place.
Colocate(regs, i) ==
  IF ~(isConfig(i) /\ Agreed(regs, i)) THEN regs
  ELSE [k \in DOMAIN regs |->
          IF \E f \in FlowSet : k \in Homes(regs, i, f)
          THEN [regs[k] EXCEPT !.members = @ \cup {i}] ELSE regs[k]]
colocateConfigs(regs) == FoldLeft(Colocate, regs, [i \in Ix |-> i])

Anchored(r) ==
  \/ r.primary # {}
  \/ \E i \in r.members : nodes[i].kind \in {"prelude", "hook", "named"}
  \/ \E i \in r.members, f \in FlowSet : {i} \in RootsOf(f)
regionEligible(r) == Cardinality(r.usage) >= 2 /\ Cardinality(r.members) >= 2 /\ Anchored(r)

----------------------------------------------------------------------------
(* The order of a flow's body: regions and inline nodes by their first      *)
(* node, each after what it reads, and what is wired after every hook.      *)

Units(regs, f) ==
  LET inFlow == {i \in Ix : f \in flowsOf(i)}
      ofRegion(k) == {i \in inFlow : homeFor(regs, i, f) = k}
      reg == {[reg |-> k, nodes |-> ofRegion(k)] : k \in {k \in DOMAIN regs : ofRegion(k) # {}}}
      inline == {[reg |-> 0, nodes |-> {i}] : i \in ofRegion(0)}
  IN SetToSortSeq(reg \cup inline, LAMBDA a, b : Min(a.nodes) < Min(b.nodes))

Hook(u) == \E i \in u.nodes : Phase(i) = 2
Prov(u) == \E i \in u.nodes : Phase(i) >= 3
Reads(u) == UNION {uses(i) : i \in u.nodes} \ u.nodes

\* done: units emitted so far, in order. The first unit that is ready is next.
Ready(us, done, k) ==
  /\ k \notin ToSet(done)
  /\ \A d \in DOMAIN us : us[d].nodes \cap Reads(us[k]) # {} => d \in ToSet(done)
  /\ Prov(us[k]) /\ ~Hook(us[k]) => \A d \in DOMAIN us : Hook(us[d]) => d \in ToSet(done)

RECURSIVE Emit(_, _)
Emit(us, done) ==
  LET ready == {k \in DOMAIN us : Ready(us, done, k)}
  IN IF ready = {} THEN done ELSE Emit(us, Append(done, Min(ready)))

\* The body, and the region that keeps it from being ordered (0: none).
orderFlow(regs, f) ==
  LET us == Units(regs, f)
      done == Emit(us, <<>>)
      stuck == {k \in DOMAIN us : k \notin ToSet(done) /\ us[k].reg # 0}
  IN [body |-> [k \in DOMAIN done |-> us[done[k]]],
      broken |-> IF stuck = {} THEN 0 ELSE us[Min(stuck)].reg]

findUnschedulable(regs) ==
  LET broken == SelectSeq([k \in DOMAIN Flows |-> orderFlow(regs, Flows[k]).broken], LAMBDA r : r # 0)
  IN IF broken = <<>> THEN 0 ELSE broken[1]

dissolve(regs, k) == RemoveAt(regs, k)

RECURSIVE dissolveUnschedulable(_)
dissolveUnschedulable(regs) ==
  LET broken == findUnschedulable(regs)
  IN IF broken = 0 THEN regs ELSE dissolveUnschedulable(dissolve(regs, broken))

----------------------------------------------------------------------------
(* What crosses a region's boundary. *)

liveIns(r) == UNION {uses(i) : i \in r.members} \ r.members
consumedIn(regs, v, f, k) == Homes(regs, v, f) \ {k} # {}
liveOutsEverywhere(regs, k) ==
  {v \in regs[k].members : \A f \in regs[k].usage : consumedIn(regs, v, f, k)}
liveOuts(regs, k) ==
  {v \in regs[k].members : \E f \in regs[k].usage : consumedIn(regs, v, f, k)}

\* The one value of the prelude does not count as a parameter.
optsVar(regs) ==
  UNION {liveOuts(regs, k) : k \in {k \in DOMAIN regs :
           /\ \E i \in regs[k].members : nodes[i].kind = "prelude"
           /\ Cardinality(liveOuts(regs, k)) = 1}}

regionNarrow(regs, k) ==
  LET r == regs[k]
      outs == Cardinality(liveOuts(regs, k)) + (IF r.primary = {} THEN 0 ELSE 1)
  IN /\ Cardinality(liveIns(r) \ optsVar(regs)) <= MaxIns
     /\ outs <= MaxOuts
     /\ \A f \in r.usage :
          Cardinality({v \in liveOuts(regs, k) : ~consumedIn(regs, v, f, k)}) <= MaxDiscarded

RECURSIVE dissolveWide(_)
dissolveWide(regs) ==
  LET wide == {k \in DOMAIN regs : ~regionNarrow(regs, k)}
  IN IF wide = {} THEN regs ELSE dissolveWide(dissolve(regs, Min(wide)))

planRegions ==
  LET placed == colocateConfigs(embedSharedRoots(formComponents))
  IN dissolveWide(dissolveUnschedulable(SelectSeq(placed, regionEligible)))

----------------------------------------------------------------------------

Init ==
  /\ nodes = <<>>
  /\ roots = [f \in FlowSet |-> <<>>]
  /\ stage = "walk"
  /\ regions = <<>>
  /\ steps = [f \in FlowSet |-> <<>>]

AddNode ==
  /\ stage = "walk" /\ Len(nodes) < MaxNodes
  /\ \E kind \in KindsAt[Len(nodes) + 1], us \in SUBSET Ix, fl \in UsagesAt[Len(nodes) + 1] :
       /\ \A j \in us : fl \subseteq flowsOf(j) /\ Phase(j) <= PhaseOf[kind]
       /\ nodes' = Append(nodes, [kind |-> kind, uses |-> us, flows |-> fl])
  /\ UNCHANGED <<roots, stage, regions, steps>>

\* Each flow is called with one expression over its last nodes.
WalkRoots ==
  /\ stage = "walk" /\ Len(nodes) = MaxNodes
  /\ \E e \in {{MaxNodes}, {MaxNodes - 1, MaxNodes}} :
       roots' = [f \in FlowSet |-> LET own == {i \in e : f \in flowsOf(i)}
                                   IN IF own = {} THEN <<>> ELSE <<own>>]
  /\ stage' = "rooted"
  /\ UNCHANGED <<nodes, regions, steps>>

PlanFragments ==
  /\ stage = "rooted"
  /\ regions' = planRegions
  /\ steps' = [f \in FlowSet |-> orderFlow(planRegions, f).body]
  /\ stage' = "planned"
  /\ UNCHANGED <<nodes, roots>>

Next == AddNode \/ WalkRoots \/ PlanFragments

Spec == Init /\ [][Next]_fragmentVars

----------------------------------------------------------------------------

Body(f) == steps[f]
RunBy(u) == IF u.reg = 0 THEN u.nodes ELSE regions[u.reg].members
Needs(u) == IF u.reg = 0 THEN UNION {uses(i) : i \in u.nodes} ELSE liveIns(regions[u.reg])

\* What the caller's body can name once unit u ran: an inline node's variable,
\* and what a region returns to it.
Gives(f, u) ==
  IF u.reg = 0 THEN u.nodes
  ELSE {v \in liveOuts(regions, u.reg) : consumedIn(regions, v, f, u.reg)}
InScope(f, k) == UNION {Gives(f, Body(f)[j]) : j \in 1..(k - 1)}

Embedded(f, e) ==
  \E k \in DOMAIN Body(f) : Body(f)[k].reg # 0 /\ regions[Body(f)[k].reg].primary = e

\* However the store is cut into regions, the body of every command runs just
\* the nodes its flow uses, each once; a call and an inline node read only what
\* the body has in scope by then; and at the end it can name, or a region has
\* returned, every root the command is called with.
BodiesSound ==
  stage = "planned" =>
    \A f \in FlowSet :
      /\ {i \in Ix : f \in flowsOf(i)} = UNION {RunBy(Body(f)[k]) : k \in DOMAIN Body(f)}
      /\ \A k, l \in DOMAIN Body(f) : k # l => RunBy(Body(f)[k]) \cap RunBy(Body(f)[l]) = {}
      /\ \A k \in DOMAIN Body(f) : Needs(Body(f)[k]) \subseteq InScope(f, k)
      /\ \A e \in RootsOf(f) : Embedded(f, e) \/ e \subseteq InScope(f, Len(Body(f)) + 1)

----------------------------------------------------------------------------
(* The layout. *)

NodesOf(p) == {i \in Ix : nodes[i].phase = p}
Phases == {nodes[i].phase : i \in Ix}
\* What node i reads of its own phase, itself aside.
depsIn(i) == {j \in nodes[i].uses \ {i} : nodes[j].phase = nodes[i].phase}

----------------------------------------------------------------------------
(* Cycles: a depth-first search from each white node in turn. *)

\* st: the colors and whether a gray node was met. Children in ascending order.
RECURSIVE visit(_, _)
visitChild(st, j) ==
  IF st.cycle THEN st
  ELSE IF st.color[j] = "gray" THEN [st EXCEPT !.cycle = TRUE]
  ELSE IF st.color[j] = "white" THEN visit(st, j)
  ELSE st
visit(st, i) ==
  LET in == [st EXCEPT !.color[i] = "gray"]
      out == FoldLeft(visitChild, in, SetToSortSeq(depsIn(i), <))
  IN IF out.cycle THEN out ELSE [out EXCEPT !.color[i] = "black"]

visitRoot(st, i) == IF st.cycle \/ st.color[i] # "white" THEN st ELSE visit(st, i)
validatePhaseCycles(p) ==
  Cardinality(NodesOf(p)) >= 2 /\
    FoldLeft(visitRoot, [color |-> [i \in Ix |-> "white"], cycle |-> FALSE],
             SetToSortSeq(NodesOf(p), <)).cycle

----------------------------------------------------------------------------
(* Affinity. *)

Readers(v) == {i \in Ix : v \in nodes[i].uses}
fanout(v) == Cardinality(Readers(v))
next(i) == IF fanout(i) > hubFanout THEN {} ELSE Readers(i)

RECURSIVE featureRoots(_)
featureRoots(i) == IF next(i) = {} THEN {i} ELSE UNION {featureRoots(c) : c \in next(i)}

producerConsumer(a, b) ==
  IF b \notin Readers(a) THEN 0
  ELSE IF fanout(a) = 1 THEN 80 ELSE IF fanout(a) <= hubFanout THEN 60 ELSE 15

sharedConsumer(a, b) ==
  IF /\ next(a) # {} \/ next(b) # {}
     /\ (featureRoots(a) \cap featureRoots(b)) \ {a, b} # {} THEN 55 ELSE 0

Valid(i) == nodes[i].file # 0
Distance(a, b) == LET d == nodes[a].line - nodes[b].line IN IF d < 0 THEN -d ELSE d
nearby(a, b) ==
  IF ~(Valid(a) /\ Valid(b)) THEN 0
  ELSE IF nodes[a].file # nodes[b].file THEN 25
  ELSE IF Distance(a, b) = 0 THEN 50 ELSE IF Distance(a, b) <= 10 THEN 40 ELSE 30

affinity(a, b) ==
  IF nodes[a].group # 0 /\ nodes[a].group = nodes[b].group THEN 100
  ELSE IF nodes[a].batch # 0 /\ nodes[a].batch = nodes[b].batch THEN 90
  ELSE Max({producerConsumer(a, b), producerConsumer(b, a), sharedConsumer(a, b), nearby(a, b)})

anchorLess(a, b) ==
  IF Valid(a) # Valid(b) THEN Valid(a)
  ELSE IF nodes[a].file # nodes[b].file THEN nodes[a].file < nodes[b].file
  ELSE IF nodes[a].line # nodes[b].line THEN nodes[a].line < nodes[b].line
  ELSE a < b

----------------------------------------------------------------------------
(* The layout: one statement at a time. *)

Placed == FlattenSeq(blocks)
Done(i) == i \in ToSet(Placed)
Current == IF blocks = <<>> THEN <<>> ELSE Last(blocks)
phase == Min({nodes[i].phase : i \in {i \in Ix : ~Done(i)}})
Left == {i \in NodesOf(phase) : ~Done(i)}

\* The node of the same batch and phase just before i in emission order.
batchDeps(i) ==
  LET before == {j \in NodesOf(nodes[i].phase) : j < i /\ nodes[i].batch # 0 /\ nodes[j].batch = nodes[i].batch}
  IN IF before = {} THEN {} ELSE {Max(before)}

deps(i) == depsIn(i) \cup batchDeps(i)
ready == {i \in Left : \A j \in deps(i) : Done(j)}
\* With nothing ready, the first statement left in emission order.
Candidates == IF ready = {} THEN {Min(Left)} ELSE ready

Aff(i) == Max({affinity(i, Current[k]) : k \in DOMAIN Current})
SamePhaseBlock == Current # <<>> /\ nodes[Current[1]].phase = phase
Affine == IF SamePhaseBlock /\ Len(Current) < layoutBlockMax
          THEN {i \in Candidates : Aff(i) >= 40} ELSE {}

First(S) == CHOOSE i \in S : \A j \in S \ {i} : anchorLess(i, j)
Closest == {i \in Affine : \A j \in Affine : Aff(j) <= Aff(i)}

layoutStep ==
  IF Affine # {} THEN [blocks EXCEPT ![Len(blocks)] = Append(@, First(Closest))]
                 ELSE Append(blocks, <<First(Candidates)>>)

----------------------------------------------------------------------------

LayoutInit == nodes \in Inputs /\ stage = "emitted" /\ blocks = <<>>

ValidateGraph ==
  /\ stage = "emitted"
  /\ stage' = IF \E p \in Phases : validatePhaseCycles(p) THEN "reported" ELSE "laying"
  /\ UNCHANGED <<nodes, blocks>>

Place ==
  /\ stage = "laying" /\ Len(Placed) < Len(nodes)
  /\ blocks' = layoutStep
  /\ UNCHANGED <<nodes, stage>>

Finish ==
  /\ stage = "laying" /\ Len(Placed) = Len(nodes)
  /\ stage' = "done"
  /\ UNCHANGED <<nodes, blocks>>

LayoutNext == ValidateGraph \/ Place \/ Finish

LayoutSpec == LayoutInit /\ [][LayoutNext]_layoutVars

----------------------------------------------------------------------------

RECURSIVE Reach(_, _)
Reach(S, n) == IF n = 0 THEN S ELSE Reach(S \cup UNION {depsIn(i) : i \in S}, n - 1)
Cyclic == \E i \in Ix : i \in Reach(depsIn(i), Len(nodes))

\* The validation reports exactly the flows with a dependency cycle inside a phase
\* (validatePhaseCycles), so the layout's way out when nothing is ready is never
\* taken: grouping by affinity, batches and phases never force a statement before
\* one whose variable it reads, nor two statements of a batch out of order.
LayoutSound ==
  /\ stage = "reported" <=> (stage # "emitted" /\ Cyclic)
  /\ (stage = "laying" /\ Len(Placed) < Len(nodes)) => ready # {}
  /\ \A a \in DOMAIN Placed :
       LET i == Placed[a] IN
         /\ nodes[i].uses \subseteq {Placed[b] : b \in 1..(a - 1)}
         /\ \A b \in 1..(a - 1) :
              /\ Placed[b] # i
              /\ nodes[Placed[b]].phase <= nodes[i].phase
              /\ (nodes[i].batch # 0 /\ nodes[i].batch = nodes[Placed[b]].batch
                    /\ nodes[i].phase = nodes[Placed[b]].phase) => Placed[b] < i
=============================================================================
