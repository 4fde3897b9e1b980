----------------------------- MODULE GenResolve -----------------------------
(***************************************************************************)
(* How the generator resolves what commands need (gen/gen.go, usage.go,     *)
(* scope.go, fragment.go) in the order the engine drives it                 *)
(* (fabrik/internal/engine/engine.go): the flow of each command is walked,  *)
(* a binding is built when it is first asked for and shared from then on,   *)
(* epilogues run, a validation pass builds in a scratch scope whatever no   *)
(* flow reached, and what each flow uses is spread along the edges recorded *)
(* while building.                                                          *)
(*                                                                          *)
(* A demand is a lazy binding of a type, of a path, or a singleton. Its     *)
(* build asks for other demands in order, emits one node, and may fail or   *)
(* panic on its own; a build that is refused a demand fails.                *)
(***************************************************************************)
EXTENDS Integers, Sequences, SequencesExt, FiniteSets

CONSTANTS Demands, Kind,       \* the demands and, of each, "type", "path" or "singleton"
          Asks, Roots,         \* what a build may ask for, and a flow be rooted in, in order
          Flows,               \* the commands in registration order
          Singleton, EpilogueAsks,   \* the singleton an epilogue emits for, and what it asks for
          None

VARIABLES deps, own,           \* [demand -> what its build asks for], [demand -> its own outcome]
          roots,               \* [flow -> its roots]
          stage, flow, todo,   \* where the engine is, the flow walked, top-level requests left
          stack,               \* builds in progress, innermost last
          binds, pathExprs,    \* caches of the default scope
          scratch,             \* demands cached in the validation scope
          diagnosed, fatal,    \* failed builds not to be run again; an error was reported
          uses, edges,         \* [demand -> flows], and which build asked for what
          store                \* nodes emitted, by demand

vars == <<deps, own, roots, stage, flow, todo, stack, binds, pathExprs, scratch, diagnosed, fatal,
          uses, edges, store>>
input == <<deps, own, roots>>

Validating == stage = "validate"
currentDemand == IF stack = <<>> THEN None ELSE Last(stack).key

\* No flow is recorded by the epilogues and the validation pass.
flowID == IF stage = "walk" THEN flow ELSE None
RecordedEdge(parent, k) == IF parent \in {None, k} THEN {} ELSE {<<parent, k>>}
recordDemand(parent, k) ==
  /\ edges' = edges \cup RecordedEdge(parent, k)
  /\ uses' = IF flowID = None THEN uses ELSE [uses EXCEPT ![k] = @ \cup {flowID}]

\* Paths are cached apart: by type a path's value is bound on first use.
Cached(k) ==
  IF Validating THEN k \in scratch
  ELSE k \in binds \/ (Kind[k] = "path" /\ k \in pathExprs)
Running(k) == \E i \in DOMAIN stack : stack[i].key = k

----------------------------------------------------------------------------

Init ==
  /\ deps \in [Demands -> Asks]
  /\ own \in {o \in [Demands -> {"ok", "fatal", "panic"}] :
                Cardinality({k \in Demands : o[k] # "ok"}) <= 1}
  /\ \A k \in Demands : Kind[k] = "singleton" => deps[k] = <<>> /\ own[k] = "ok"
  /\ roots \in [ToSet(Flows) -> Roots]
  /\ stage = "walk" /\ flow = Flows[1] /\ todo = roots[Flows[1]]
  /\ stack = <<>> /\ binds = {} /\ pathExprs = {} /\ scratch = {}
  /\ diagnosed = {} /\ fatal = FALSE
  /\ uses = [k \in Demands |-> {}] /\ edges = {} /\ store = <<>>

\* The caller goes on: the innermost build, or the engine. ok says whether it got
\* its value without an error.
Resumed(ok) ==
  IF stack = <<>>
  THEN todo' = Tail(todo) /\ fatal' = (fatal \/ ~ok) /\ UNCHANGED stack
  ELSE /\ stack' = [stack EXCEPT ![Len(stack)].rest = Tail(@), ![Len(stack)].ok = @ /\ ok]
       /\ UNCHANGED <<todo, fatal>>

Asked == IF stack = <<>> THEN todo # <<>> ELSE Last(stack).rest # <<>>
Request == IF stack = <<>> THEN Head(todo) ELSE Head(Last(stack).rest)

\* A value that exists is returned; outside the validation scope the demand is
\* recorded all the same.
InstanceHit ==
  /\ Asked /\ Cached(Request)
  /\ IF Validating THEN UNCHANGED <<uses, edges>> ELSE recordDemand(currentDemand, Request)
  /\ binds' = IF Validating THEN binds ELSE binds \cup {Request}
  /\ Resumed(TRUE)
  /\ UNCHANGED <<input, stage, flow, pathExprs, scratch, diagnosed, store>>

\* A failed build is not repeated, nor its errors.
InstanceDiagnosed ==
  /\ Asked /\ ~Cached(Request) /\ Request \in diagnosed
  /\ IF Kind[Request] = "path" THEN recordDemand(currentDemand, Request) ELSE UNCHANGED <<uses, edges>>
  /\ IF Validating THEN scratch' = scratch \cup {Request} /\ UNCHANGED binds
                   ELSE binds' = binds \cup {Request} /\ UNCHANGED scratch
  /\ Resumed(TRUE)
  /\ UNCHANGED <<input, stage, flow, pathExprs, diagnosed, store>>

\* A build that asks for itself, directly or not, is refused.
ProviderCycle ==
  /\ Asked /\ ~Cached(Request) /\ Request \notin diagnosed /\ Running(Request)
  /\ IF Kind[Request] = "path" THEN recordDemand(currentDemand, Request) ELSE UNCHANGED <<uses, edges>>
  /\ Resumed(FALSE)
  /\ UNCHANGED <<input, stage, flow, binds, pathExprs, scratch, diagnosed, store>>

Materialize ==
  /\ Asked /\ ~Cached(Request) /\ Request \notin diagnosed /\ ~Running(Request)
  /\ recordDemand(currentDemand, Request)
  /\ stack' = Append(stack, [key |-> Request, rest |-> deps[Request], ok |-> TRUE])
  /\ UNCHANGED <<input, stage, flow, todo, binds, pathExprs, scratch, diagnosed, fatal, store>>

\* The build returns. A panic is recovered: no value and nothing bound.
Built ==
  LET top == Last(stack)
      k == top.key
      clean == top.ok /\ own[k] = "ok"
      below == Front(stack)
  IN /\ stack # <<>> /\ ~Asked
     /\ store' = IF Validating \/ own[k] = "panic" THEN store ELSE Append(store, k)
     /\ diagnosed' = IF clean \/ Validating THEN diagnosed ELSE diagnosed \cup {k}
     /\ IF own[k] = "panic" THEN UNCHANGED <<binds, pathExprs, scratch>>
        ELSE IF Validating THEN scratch' = scratch \cup {k} /\ UNCHANGED <<binds, pathExprs>>
        ELSE /\ binds' = binds \cup {k}
             /\ pathExprs' = IF Kind[k] = "path" /\ clean THEN pathExprs \cup {k} ELSE pathExprs
             /\ UNCHANGED scratch
     /\ IF below = <<>>
        THEN stack' = <<>> /\ todo' = Tail(todo) /\ fatal' = (fatal \/ ~clean)
        ELSE /\ stack' = [below EXCEPT ![Len(below)].rest = Tail(@), ![Len(below)].ok = @ /\ clean]
             /\ UNCHANGED <<todo, fatal>>
     /\ UNCHANGED <<input, stage, flow, uses, edges>>

\* The epilogue's requests are made on behalf of its singleton, which is active
\* meanwhile.
Idle == stack = <<>> /\ todo = <<>>

NextFlow ==
  /\ stage = "walk" /\ Idle
  /\ LET i == CHOOSE i \in DOMAIN Flows : Flows[i] = flow
     IN IF i < Len(Flows)
        THEN flow' = Flows[i + 1] /\ todo' = roots[Flows[i + 1]] /\ UNCHANGED <<stage, stack>>
        ELSE /\ stage' = "epilogue" /\ flow' = None /\ UNCHANGED todo
             /\ stack' = IF uses[Singleton] = {} THEN <<>>
                         ELSE <<[key |-> Singleton, rest |-> EpilogueAsks, ok |-> TRUE]>>
  /\ UNCHANGED <<input, binds, pathExprs, scratch, diagnosed, fatal, uses, edges, store>>

EpilogueDone ==
  /\ stage = "epilogue" /\ Len(stack) <= 1 /\ ~Asked
  /\ fatal' = (fatal \/ \E i \in DOMAIN stack : ~stack[i].ok)
  /\ stack' = <<>> /\ stage' = "validate"
  /\ todo' = SetToSeq({k \in Demands : uses[k] = {} /\ Kind[k] # "singleton"})
  /\ UNCHANGED <<input, flow, binds, pathExprs, scratch, diagnosed, uses, edges, store>>

propagateOnce(u) == [k \in Demands |-> u[k] \cup UNION {u[e[1]] : e \in {e \in edges : e[2] = k}}]
RECURSIVE propagateDemandUsage(_)
propagateDemandUsage(u) == IF propagateOnce(u) = u THEN u ELSE propagateDemandUsage(propagateOnce(u))

\* Rendering follows only when nothing was fatal.
PlanFragments ==
  /\ stage = "validate" /\ Idle
  /\ stage' = IF fatal THEN "failed" ELSE "planned"
  /\ uses' = IF fatal THEN uses ELSE propagateDemandUsage(uses)
  /\ UNCHANGED <<input, flow, todo, stack, binds, pathExprs, scratch, diagnosed, fatal, edges, store>>

BuiltStep == stage # "epilogue" \/ Len(stack) > 1
Next == InstanceHit \/ InstanceDiagnosed \/ ProviderCycle \/ Materialize \/ (BuiltStep /\ Built)
          \/ NextFlow \/ EpilogueDone \/ PlanFragments

Spec == Init /\ [][Next]_vars

----------------------------------------------------------------------------

Successors(k) == ToSet(deps[k]) \cup (IF k = Singleton THEN ToSet(EpilogueAsks) ELSE {})
RECURSIVE Reach(_)
Reach(S) == LET T == S \cup UNION {Successors(k) : k \in S} IN IF T = S THEN S ELSE Reach(T)
RECURSIVE AsksFor(_)
AsksFor(S) == LET T == S \cup UNION {ToSet(deps[k]) : k \in S} IN IF T = S THEN S ELSE AsksFor(T)

\* Every demand is built once however many flows and bindings ask for it, a failed
\* one included, and still each emitted node is run by exactly the flows whose roots
\* reach it: the edges recorded while the first flow built it carry the later flows
\* to everything it needs (recordDemand, propagateDemandUsage), and what the
\* validation pass builds leaves no trace.
FlowsGetWhatTheyUse ==
  /\ \A i, j \in DOMAIN store : store[i] = store[j] => i = j
  /\ stage = "planned" =>
       \A k \in Demands :
         /\ uses[k] = {f \in ToSet(Flows) : k \in Reach(ToSet(roots[f]))}
         /\ k \in ToSet(store) <=> uses[k] # {}

\* A graph in which a flow reaches a cycle or a failing build is never rendered,
\* and one in which no binding fails always is.
FailuresStop ==
  LET cyclic(k) == k \in AsksFor(ToSet(deps[k]))
      bad == {k \in Demands : own[k] # "ok" \/ cyclic(k)}
  IN /\ stage = "planned" => bad = {}
     /\ stage = "failed" => bad # {}
=============================================================================
