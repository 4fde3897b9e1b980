-------------------------- MODULE CoreDirectives --------------------------
(***************************************************************************)
(* One generation run over the directives that declare the dependency graph *)
(* (fabrik/internal/directives/core, config/directive): providers, config   *)
(* structs, interfaces selected by a config key, setup hooks and inject     *)
(* mappings. The engine checks the declarations in the order they are       *)
(* loaded, registers bindings, walks the commands' flows, builds the rest   *)
(* in a scratch scope, and asks the directives to validate                  *)
(* (engine.WireOptions, gen.WalkFlows, gen.RunValidationPass).              *)
(*                                                                          *)
(* A declaration is a record with dir. "provider": obj, fits, results,      *)
(* name, case, type, params. "select": type, fits, key. "config": type,     *)
(* fits, section, fields (key -> string, def). "hook": obj, fits, params.   *)
(* "inject": obj, of, type, members, selector, name. "command": obj,        *)
(* params, its dependencies. "handler": obj, type, members, a struct routes *)
(* are declared on. fits stands for the tests of the target's shape that do *)
(* not depend on other declarations; "?" is a malformed name. A parameter   *)
(* or field has ident, type and exported.                                   *)
(***************************************************************************)
EXTENDS Integers, Sequences, FiniteSets, SequencesExt, TLC

CONSTANTS Inputs,       \* the sequences of declarations generated from
          Implements    \* <<type, interface>>: assignability of what providers return

VARIABLES
  items, phase, at,
  seen, caseNodes, groups,   \* Provider: <<type, name>> provided, case providers, interface -> select
  configs, hooks, injects,   \* what the other directives registered
  lazy,                      \* bindings: type, name, and the declaration that builds them
  scopes,                    \* the commands, each a flow
  used,                      \* inject mappings consumed: <<declaration, selector>>
  run,                       \* what resolution did: see NewRun
  fatal, warnings

vars == <<items, phase, at, seen, caseNodes, groups, configs, hooks, injects, lazy, scopes, used, run, fatal, warnings>>

Ptr(n) == [name |-> n, ptr |-> TRUE]
Val(n) == [name |-> n, ptr |-> FALSE]
Context == Val("context.Context")
IsContext(t) == t = Context

nameRE(n) == n # "?"

----------------------------------------------------------------------------
(* Parse and Check. *)

Refuse == fatal' = TRUE

ProviderParse(d) == nameRE(d.name) /\ ~(d.name # "" /\ d.case # "")
returnsCleanup(d) == d.results \in {"cleanup", "cleanup and error"}


\* A type is provided once under each name, or selected, never both.
ProviderCheck(d) ==
  IF \/ ~ProviderParse(d) \/ ~d.fits
     \/ d.results \notin {"value", "error", "cleanup", "cleanup and error"}
     \/ d.case # "" /\ returnsCleanup(d)
  THEN Refuse /\ UNCHANGED <<seen, caseNodes>>
  ELSE IF d.case # ""
  THEN caseNodes' = Append(caseNodes, at) /\ UNCHANGED <<seen, fatal>>
  ELSE IF <<d.type, d.name>> \in seen \/ d.type \in DOMAIN groups
  THEN Refuse /\ UNCHANGED <<seen, caseNodes>>
  ELSE seen' = seen \cup {<<d.type, d.name>>} /\ UNCHANGED <<caseNodes, fatal>>

\* A mutation that asks only for an unnamed provider.
SelectOverNamed(d) ==
  IF ~d.fits \/ <<d.type, "">> \in seen \/ d.type \in DOMAIN groups
  THEN Refuse /\ UNCHANGED groups
  ELSE groups' = groups @@ (d.type :> at) /\ UNCHANGED fatal

SelectCheck(d) ==
  IF ~d.fits \/ (\E s \in seen : s[1] = d.type) \/ d.type \in DOMAIN groups
  THEN Refuse /\ UNCHANGED groups
  ELSE groups' = groups @@ (d.type :> at) /\ UNCHANGED fatal

InjectParse(d) == d.selector # "_" /\ nameRE(d.name)

InjectCheck(d) ==
  IF /\ InjectParse(d) /\ d.of \in {"func", "struct"}
     /\ \E i \in DOMAIN d.members : d.members[i].ident = d.selector /\ d.members[i].exported
     /\ \A i \in injects : <<items[i].obj, items[i].selector>> # <<d.obj, d.selector>>
  THEN injects' = injects \cup {at} /\ UNCHANGED fatal
  ELSE Refuse /\ UNCHANGED injects

\* A struct without a section owns the whole file.
ConfigCheck(d) ==
  IF /\ d.fits
     /\ \A i \in configs : items[i].type # d.type /\ items[i].section \notin {d.section, ""}
     /\ d.section = "" => configs = {}
  THEN configs' = configs \cup {at} /\ UNCHANGED fatal
  ELSE Refuse /\ UNCHANGED configs

HookCheck(d) ==
  IF /\ d.fits /\ d.params # <<>> /\ \A j \in DOMAIN d.params : IsContext(d.params[j].type) <=> j = 1
     /\ \A i \in hooks : items[i].obj # d.obj
  THEN hooks' = hooks \cup {at} /\ UNCHANGED fatal
  ELSE Refuse /\ UNCHANGED hooks

Check ==
  /\ phase = "check" /\ at <= Len(items)
  /\ LET d == items[at]
     IN CASE d.dir = "provider" -> ProviderCheck(d) /\ UNCHANGED <<groups, injects, configs, hooks>>
          [] d.dir = "select" -> SelectCheck(d) /\ UNCHANGED <<seen, caseNodes, injects, configs, hooks>>
          [] d.dir = "inject" -> InjectCheck(d) /\ UNCHANGED <<seen, caseNodes, groups, configs, hooks>>
          [] d.dir = "config" -> ConfigCheck(d) /\ UNCHANGED <<seen, caseNodes, groups, injects, hooks>>
          [] d.dir = "hook" -> HookCheck(d) /\ UNCHANGED <<seen, caseNodes, groups, injects, configs>>
          [] OTHER -> UNCHANGED <<seen, caseNodes, groups, injects, configs, hooks, fatal>>
  /\ at' = at + 1
  /\ UNCHANGED <<items, phase, lazy, scopes, used, run, warnings>>

\* Nothing is emitted for a program with a refused declaration.
Checked ==
  /\ phase = "check" /\ at > Len(items)
  /\ phase' = IF fatal THEN "rejected" ELSE "bind"
  /\ at' = 1
  /\ UNCHANGED <<items, seen, caseNodes, groups, configs, hooks, injects, lazy, scopes, used, run, fatal, warnings>>

----------------------------------------------------------------------------
(* Emit: bindings are registered lazily. *)

\* The provider name an accepted mapping selects for a parameter or field.
InjectName(obj, ident) ==
  {items[i].name : i \in {i \in injects : items[i].obj = obj /\ items[i].selector = ident}}
SelectedName(obj, ident) == IF InjectName(obj, ident) = {} THEN "" ELSE CHOOSE n \in InjectName(obj, ident) : TRUE

\* The mappings of a declaration's parameters, which SelectedName consumes. A
\* provider's context parameter is not looked up.
Consumed(obj, params) == {<<obj, params[j].ident>> : j \in DOMAIN params}
ProviderConsumed(d) == Consumed(d.obj, SelectSeq(d.params, LAMBDA p : ~IsContext(p.type)))

Lazy(t, n) == {b \in lazy : b.type = t /\ b.name = n}

BindLazyAt(t, n) ==
  IF Lazy(t, n) # {} THEN Refuse /\ UNCHANGED lazy
  ELSE lazy' = lazy \cup {[type |-> t, name |-> n, at |-> at]} /\ UNCHANGED fatal

EmitBind ==
  /\ phase = "bind" /\ at <= Len(items)
  /\ LET d == items[at]
     IN CASE d.dir = "provider" /\ d.case = "" ->
               /\ used' = used \cup ProviderConsumed(d)
               /\ BindLazyAt(d.type, d.name) /\ UNCHANGED scopes
          [] d.dir = "select" -> BindLazyAt(d.type, "") /\ UNCHANGED <<used, scopes>>
          [] d.dir = "config" -> BindLazyAt(Ptr(d.type), "") /\ UNCHANGED <<used, scopes>>
          [] d.dir = "command" -> /\ used' = used \cup Consumed(d.obj, d.params)
                                  /\ scopes' = Append(scopes, at) /\ UNCHANGED <<lazy, fatal>>
          [] OTHER -> UNCHANGED <<used, lazy, scopes, fatal>>
  /\ at' = at + 1
  /\ UNCHANGED <<items, phase, seen, caseNodes, groups, configs, hooks, injects, run, warnings>>

\* Handler structs are registered when every other binding is: an existing one wins.
PrepareNodes ==
  /\ phase = "bind" /\ at > Len(items)
  /\ lazy' = lazy \cup {[type |-> Ptr(items[i].type), name |-> "", at |-> i] :
                          i \in {i \in DOMAIN items :
                                   /\ items[i].dir = "handler" /\ Lazy(Ptr(items[i].type), "") = {}
                                   /\ \A j \in 1 .. (i - 1) : items[j].dir = "handler" => items[j].type # items[i].type}}
  /\ phase' = "hooks" /\ at' = 1
  /\ UNCHANGED <<items, seen, caseNodes, groups, configs, hooks, injects, scopes, used, run, fatal, warnings>>

----------------------------------------------------------------------------
(* Resolution. A value is the declaration it comes from, 0 for nil and -1 for the  *)
(* application context. An answer has the run after it, the value, whether it came *)
(* without diagnostics, and whether there is a binding at all.                     *)

\* bound: the scope's cache; failed: builds not to be repeated; calls: what is
\* emitted; built: declarations built for a flow; running: builds in progress;
\* used: mappings consumed by building structs.
NewRun == [bound |-> <<>>, failed |-> <<>>, calls |-> <<>>, built |-> {}, running |-> {},
           used |-> {}, scratch |-> FALSE]
Emits(r, i, args) == [r EXCEPT !.calls = Append(@, [at |-> i, args |-> args])]
Builds(r, i) == IF r.scratch THEN r ELSE [r EXCEPT !.built = @ \cup {i}]

HasBinding(r, t, n) == <<t, n>> \in DOMAIN r.bound \/ Lazy(t, n) # {}
NodeFor(t) == {i \in configs : Ptr(items[i].type) = t}
IsConfig(t) == NodeFor(t) # {}

\* A key names a field below a section, or below the struct that owns the file.
fieldPath(i, key) == IF items[i].section = "" THEN key
                     ELSE IF items[i].section = Head(key) THEN Tail(key) ELSE <<>>
ResolveKey(key) == {i \in configs : fieldPath(i, key) \in DOMAIN items[i].fields}
field(i, key) == items[i].fields[fieldPath(i, key)]

groupImpls(t) == {i \in ToSet(caseNodes) : <<items[i].type, t>> \in Implements}
cases(t) == {items[i].case : i \in groupImpls(t)}

\* One implementation for each case, and a default that names one of them.
CasesValid(t, def) ==
  /\ \A i, j \in groupImpls(t) : items[i].case = items[j].case => i = j
  /\ def # "" => def \in cases(t)

KeyValid(key) == \E i \in ResolveKey(key) : field(i, key).string
validateSelection(d) == KeyValid(d.key) /\ \A i \in ResolveKey(d.key) : CasesValid(d.type, field(i, d.key).def)

\* A case provider takes config structs, loaded where its case runs, and the context.
CaseArg(p) == IF IsContext(p.type) THEN -1 ELSE IF IsConfig(p.type) THEN CHOOSE i \in NodeFor(p.type) : TRUE ELSE 0
resolveCaseParams(i) == [j \in DOMAIN items[i].params |-> CaseArg(items[i].params[j])]
CaseParamsValid(i) == \A j \in DOMAIN items[i].params : CaseArg(items[i].params[j]) # 0

\* What a build asks for, in order: a provider's parameters under the names selected
\* for them, a struct's fields, the config struct that holds a selection's key.
Ask(obj, p) == [type |-> p.type, name |-> SelectedName(obj, p.ident),
                as |-> IF p.exported THEN "binding" ELSE "unexported"]
ProviderAsk(obj, p) == IF IsContext(p.type) THEN [Ask(obj, p) EXCEPT !.as = "context"] ELSE Ask(obj, p)
ConfigAsk(i) == [type |-> Ptr(items[i].type), name |-> "", as |-> "binding"]
KeyAsk(d) == IF KeyValid(d.key) THEN <<ConfigAsk(CHOOSE c \in ResolveKey(d.key) : TRUE)>> ELSE <<>>
Asks(i) ==
  LET d == items[i]
  IN CASE d.dir = "provider" -> [j \in DOMAIN d.params |-> ProviderAsk(d.obj, d.params[j])]
       [] d.dir = "handler" -> [j \in DOMAIN d.members |-> Ask(d.obj, d.members[j])]
       [] d.dir = "command" -> [j \in DOMAIN d.params |-> Ask(d.obj, d.params[j])]
       [] d.dir = "select" -> KeyAsk(d)
       [] OTHER -> <<>>

\* What a build emits once its arguments are there, and the value it returns.
buildProvider(a, i) == [run |-> Emits(Builds(a.run, i), i, a.args), val |-> i, clean |-> a.clean]
LoadNode(a, i) == buildProvider(a, i)

\* An interface whose key is not a string field has no value. Every case loads the
\* config structs it takes.
buildGroup(a, i) ==
  LET d == items[i]
      b == [a.run EXCEPT !.built = @ \cup {i}]
      impl(c) == CHOOSE m \in groupImpls(d.type) : items[m].case = c
      loads == UNION {ToSet(resolveCaseParams(m)) : m \in groupImpls(d.type)} \cap configs
      switch == [c \in cases(d.type) |-> <<impl(c), resolveCaseParams(impl(c))>>]
  IN IF a.args = <<>> THEN [run |-> b, val |-> 0, clean |-> FALSE]
     ELSE [run |-> Emits(IF b.scratch THEN b ELSE [b EXCEPT !.built = @ \cup loads], i, Append(a.args, switch)),
           val |-> i,
           clean |-> a.clean /\ validateSelection(d) /\ \A m \in groupImpls(d.type) : CaseParamsValid(m)]

\* The struct's value form is bound too when nothing else is.
buildStruct(a, i) ==
  LET d == items[i]
      v == <<Val(d.type), "">>
      b == [a.run EXCEPT !.used = @ \cup Consumed(d.obj, SelectSeq(d.members, LAMBDA f : f.exported)),
                         !.bound = IF HasBinding(a.run, v[1], v[2]) THEN @ ELSE @ @@ (v :> i)]
  IN [run |-> Emits(b, i, a.args), val |-> i, clean |-> a.clean]

build(a, i) ==
  CASE items[i].dir = "select" -> buildGroup(a, i)
    [] items[i].dir = "handler" -> buildStruct(a, i)
    [] items[i].dir = "config" -> LoadNode(a, i)
    [] items[i].dir = "provider" -> buildProvider(a, i)

\* The build has returned: a failed one is not repeated outside the scratch scope.
Materialized(r, k, b) ==
  LET done == [b.run EXCEPT !.running = r.running,
                            !.failed = IF b.clean \/ r.scratch THEN @ ELSE @ @@ (k :> b.val),
                            !.bound = IF k \in DOMAIN @ THEN @ ELSE @ @@ (k :> b.val)]
  IN [run |-> done, val |-> b.val, clean |-> b.clean, ok |-> TRUE]

\* A dependency that has no binding is diagnosed and passed as nil. An unexported
\* field stays zero, and is refused when its type has a provider.
NoArgs(r) == [run |-> r, args |-> <<>>, clean |-> TRUE]
Passed(acc, a) == [run |-> a.run, args |-> Append(acc.args, IF a.ok THEN a.val ELSE 0), clean |-> acc.clean /\ a.clean /\ a.ok]

RECURSIVE Instance(_, _, _)
resolveArg(acc, p) ==
  CASE p.as = "context" -> [acc EXCEPT !.args = Append(@, -1)]
    [] p.as = "refused" -> [acc EXCEPT !.args = Append(@, 0), !.clean = FALSE]
    [] p.as = "unexported" -> [acc EXCEPT !.clean = @ /\ ~HasBinding(acc.run, p.type, "")]
    [] p.as = "binding" -> Passed(acc, Instance(acc.run, p.type, p.name))
resolveArgs(r, asks) == FoldLeft(resolveArg, NoArgs(r), asks)

Instance(r, t, n) ==
  LET k == <<t, n>>
  IN IF k \in DOMAIN r.bound THEN [run |-> r, val |-> r.bound[k], clean |-> TRUE, ok |-> TRUE]
     ELSE IF Lazy(t, n) = {} THEN [run |-> r, val |-> 0, clean |-> TRUE, ok |-> FALSE]
     ELSE IF k \in DOMAIN r.failed
     THEN [run |-> [r EXCEPT !.bound = @ @@ (k :> r.failed[k])], val |-> r.failed[k], clean |-> TRUE, ok |-> TRUE]
     ELSE IF k \in r.running THEN [run |-> r, val |-> 0, clean |-> FALSE, ok |-> FALSE]
     ELSE LET i == (CHOOSE b \in Lazy(t, n) : TRUE).at
          IN Materialized(r, k, build(resolveArgs([r EXCEPT !.running = @ \cup {k}], Asks(i)), i))

----------------------------------------------------------------------------
(* Hooks, flows and the validation pass. *)

\* A hook takes each config struct once, and nothing else: what it may not take is
\* passed as nil and diagnosed.
HookAsk(i, j) ==
  LET p == items[i].params
  IN [type |-> p[j].type, name |-> "",
      as |-> IF IsContext(p[j].type) THEN "context"
             ELSE IF IsConfig(p[j].type) /\ \A k \in 1 .. (j - 1) : p[k].type # p[j].type THEN "binding"
             ELSE "refused"]
emitHook(acc, i) ==
  LET a == resolveArgs(acc.run, [j \in DOMAIN items[i].params |-> HookAsk(i, j)])
  IN [run |-> Emits(a.run, i, a.args), clean |-> acc.clean /\ a.clean]
Prologues(r) == FoldLeft(emitHook, [run |-> r, clean |-> TRUE], SetToSortSeq(hooks, <))

\* Without commands the hooks are emitted at once, and nothing else is resolved;
\* with them a hook is a prologue of every flow.
EmitHooks ==
  /\ phase = "hooks"
  /\ LET p == Prologues(run)
     IN IF scopes = <<>> THEN run' = p.run /\ fatal' = (fatal \/ ~p.clean) /\ phase' = "validate"
                         ELSE phase' = (IF fatal THEN "sweep" ELSE "walk") /\ UNCHANGED <<run, fatal>>
  /\ UNCHANGED <<items, at, seen, caseNodes, groups, configs, hooks, injects, lazy, scopes, used, warnings>>

\* The first flow emits the prologues, whose errors are left to the validation pass.
WalkFlow ==
  /\ phase = "walk" /\ at <= Len(scopes)
  /\ LET start == IF at = 1 THEN Prologues(run).run ELSE run
         a == resolveArgs(start, Asks(scopes[at]))
     IN run' = Emits(a.run, scopes[at], a.args) /\ fatal' = (fatal \/ ~a.clean)
  /\ at' = at + 1
  /\ UNCHANGED <<items, phase, seen, caseNodes, groups, configs, hooks, injects, lazy, scopes, used, warnings>>

FlowsWalked ==
  /\ phase = "walk" /\ at > Len(scopes)
  /\ phase' = "sweep"
  /\ UNCHANGED <<items, at, seen, caseNodes, groups, configs, hooks, injects, lazy, scopes, used, run, fatal, warnings>>

\* Whatever no flow asked for is built in a scope that is thrown away.
demanded(b) == <<b.type, b.name>> \in DOMAIN run.bound
Sweep(r) ==
  LET p == Prologues(r)
      a == resolveArgs(p.run, SetToSeq({[type |-> b.type, name |-> b.name, as |-> "binding"] :
                                          b \in {b \in lazy : ~demanded(b)}}))
  IN [run |-> a.run, clean |-> p.clean /\ a.clean]

RunValidationPass ==
  /\ phase = "sweep"
  /\ LET s == Sweep([run EXCEPT !.bound = <<>>, !.scratch = TRUE])
     IN /\ fatal' = (fatal \/ ~s.clean)
        /\ run' = [run EXCEPT !.built = s.run.built, !.used = s.run.used]
  /\ phase' = "validate"
  /\ UNCHANGED <<items, at, seen, caseNodes, groups, configs, hooks, injects, lazy, scopes, used, warnings>>

----------------------------------------------------------------------------
(* Validate. *)

\* A group nothing asked for is checked all the same; a case belongs to one group.
finishGroups ==
  /\ \A t \in DOMAIN groups :
       /\ groupImpls(t) # {}
       /\ groups[t] \notin run.built => /\ validateSelection(items[groups[t]])
                                        /\ \A i \in groupImpls(t) : CaseParamsValid(i)
  /\ \A i \in ToSet(caseNodes) : Cardinality({t \in DOMAIN groups : i \in groupImpls(t)}) = 1

ProviderValidate ==
  /\ finishGroups
  /\ \A i \in DOMAIN items :
       items[i].dir = "provider" /\ items[i].case = "" /\ i \notin run.built =>
         \A j \in DOMAIN items[i].params :
           LET p == items[i].params[j]
           IN IsContext(p.type) \/ HasBinding(run, p.type, SelectedName(items[i].obj, p.ident))

providerOwned(t) == \E b \in lazy : b.type \in {Val(t), Ptr(t)} /\ items[b.at].dir = "provider"

\* A mapping that nothing consumed has no effect and is refused.
InjectValidate ==
  \A i \in injects :
    /\ items[i].of = "struct" => ~providerOwned(items[i].type)
    /\ <<items[i].obj, items[i].selector>> \in used \cup run.used

Validate ==
  /\ phase = "validate"
  /\ fatal' = (fatal \/ ~ProviderValidate \/ ~InjectValidate)
  /\ warnings' = configs \ run.built   \* those of a program that is accepted
  /\ phase' = IF fatal' THEN "rejected" ELSE "accepted"
  /\ UNCHANGED <<items, at, seen, caseNodes, groups, configs, hooks, injects, lazy, scopes, used, run>>

----------------------------------------------------------------------------

Init ==
  /\ items \in Inputs
  /\ phase = "check" /\ at = 1
  /\ seen = {} /\ caseNodes = <<>> /\ groups = <<>> /\ configs = {} /\ hooks = {} /\ injects = {}
  /\ lazy = {} /\ scopes = <<>> /\ used = {} /\ run = NewRun /\ fatal = FALSE /\ warnings = {}

Ended == phase \in {"accepted", "rejected"} /\ UNCHANGED vars
Next == Check \/ Checked \/ EmitBind \/ PrepareNodes \/ EmitHooks \/ WalkFlow \/ FlowsWalked
          \/ RunValidationPass \/ Validate \/ Ended

Spec == Init /\ [][Next]_vars

----------------------------------------------------------------------------
(* What the declarations mean, whatever order they are loaded in. *)

Of(dir) == {i \in DOMAIN items : items[i].dir = dir}
Constructors == {i \in Of("provider") : items[i].case = ""}
Cases == Of("provider") \ Constructors

Mappings(obj, ident) == {i \in Of("inject") : items[i].obj = obj /\ items[i].selector = ident}
NameOf(obj, p) == IF Mappings(obj, p.ident) = {} THEN ""
                  ELSE items[CHOOSE i \in Mappings(obj, p.ident) : TRUE].name

\* What a declaration provides: a type and a name.
Declares(i) ==
  CASE i \in Constructors -> {<<items[i].type, items[i].name>>}
    [] i \in Of("select") -> {<<items[i].type, "">>}
    [] i \in Of("config") -> {<<Ptr(items[i].type), "">>}
    [] OTHER -> {}
Declarers(k) == {i \in DOMAIN items : k \in Declares(i)}
Structs == {i \in Of("handler") : /\ Declarers(<<Ptr(items[i].type), "">>) = {}
                                  /\ \A j \in Of("handler") : items[j].type = items[i].type => i <= j}
Source(k) == Declarers(k) \cup {i \in Structs : k = <<Ptr(items[i].type), "">>}

Wanted(i, params) == {<<params[j].type, NameOf(items[i].obj, params[j])>> : j \in DOMAIN params}
KeyConfig(i) == {c \in Of("config") : fieldPath(c, items[i].key) \in DOMAIN items[c].fields}
Needs(i) ==
  CASE i \in Constructors \cup Of("hook") -> {k \in Wanted(i, items[i].params) : ~IsContext(k[1])}
    [] i \in Of("command") -> Wanted(i, items[i].params)
    [] i \in Structs -> Wanted(i, SelectSeq(items[i].members, LAMBDA f : f.exported))
    [] i \in Of("select") -> {<<Ptr(items[c].type), "">> : c \in KeyConfig(i)}
    [] OTHER -> {}
Feeds(i) == UNION {Source(k) : k \in Needs(i)}

RECURSIVE Reach(_)
Reach(S) == LET T == S \cup UNION {Feeds(i) : i \in S} IN IF T = S THEN S ELSE Reach(T)
Acyclic == \A i \in DOMAIN items : i \notin Reach(Feeds(i))

ImplsOf(i) == {c \in Cases : <<items[c].type, items[i].type>> \in Implements}
ConfigTypes == {Ptr(items[c].type) : c \in Of("config")}

Distinct ==
  /\ \A i, j \in DOMAIN items : Declares(i) \cap Declares(j) # {} => i = j
  /\ \A i \in Constructors, j \in Of("select") : items[i].type # items[j].type
  /\ \A i, j \in Of("config") : i # j => items[i].section # items[j].section /\ items[i].section # ""
  /\ \A i, j \in Of("hook") : items[i].obj = items[j].obj => i = j
  /\ \A i, j \in Of("inject") : items[i].obj = items[j].obj /\ items[i].selector = items[j].selector => i = j

WellShaped(i) ==
  LET d == items[i]
  IN CASE d.dir = "provider" -> /\ d.fits /\ nameRE(d.name) /\ d.results # "other"
                                /\ d.case # "" => d.name = "" /\ ~returnsCleanup(d)
       [] d.dir = "hook" -> d.fits /\ d.params # <<>> /\ \A j \in DOMAIN d.params : IsContext(d.params[j].type) <=> j = 1
       [] d.dir \in {"select", "config"} -> d.fits
       [] OTHER -> TRUE

SelectionsSound ==
  /\ \A i \in Of("select") :
       /\ ImplsOf(i) # {}
       /\ \A c, e \in ImplsOf(i) : items[c].case = items[e].case => c = e
       /\ \E c \in KeyConfig(i) : LET f == field(c, items[i].key)
                                  IN f.string /\ (f.def # "" => \E e \in ImplsOf(i) : items[e].case = f.def)
  /\ \A c \in Cases : /\ Cardinality({i \in Of("select") : c \in ImplsOf(i)}) = 1
                      /\ \A j \in DOMAIN items[c].params : items[c].params[j].type \in ConfigTypes \cup {Context}

HooksSound ==
  \A i \in Of("hook") : LET p == items[i].params
                        IN /\ \A j \in 2 .. Len(p) : p[j].type \in ConfigTypes
                           /\ \A j, k \in DOMAIN p : p[j].type = p[k].type => j = k

\* A mapping stands on a parameter or field that wiring resolves.
Resolves(i, d) ==
  \/ i \in Constructors \cup Of("command") /\ d.of = "func" /\ items[i].obj = d.obj
     /\ \E j \in DOMAIN items[i].params : items[i].params[j].ident = d.selector /\ ~IsContext(items[i].params[j].type)
  \/ i \in Structs /\ d.of = "struct" /\ items[i].obj = d.obj /\ Of("command") # {}
     /\ \E j \in DOMAIN items[i].members : items[i].members[j].ident = d.selector /\ items[i].members[j].exported
MappingsSound ==
  \A m \in Of("inject") :
    /\ nameRE(items[m].name) /\ \E i \in DOMAIN items : Resolves(i, items[m])
    /\ items[m].of = "struct" =>
         \A i \in Constructors : items[i].type \notin {Val(items[m].type), Ptr(items[m].type)}

Sound ==
  /\ \A i \in DOMAIN items : WellShaped(i)
  /\ Distinct /\ SelectionsSound /\ HooksSound /\ MappingsSound
  /\ \A i \in DOMAIN items \ (IF Of("command") = {} THEN Structs ELSE {}) : \A k \in Needs(i) : Source(k) # {}
  /\ Of("command") # {} =>
       /\ Acyclic
       /\ \A i \in Structs : \A j \in DOMAIN items[i].members :
            ~items[i].members[j].exported => Source(<<items[i].members[j].type, "">>) = {}

\* The generator accepts exactly the programs whose declarations fit together, in
\* whatever order they are loaded: what one directive's Check misses because the other
\* declaration comes later, another's Check, the registration of bindings, the walk,
\* the validation pass or a Validate finds, and no diagnostic is lost between them
\* (the walk drops those of the prologues).
VerdictExact ==
  phase \in {"accepted", "rejected"} => (phase = "accepted" <=> Sound)

Given(i, p) == IF IsContext(p.type) THEN -1 ELSE CHOOSE s \in Source(<<p.type, NameOf(items[i].obj, p)>>) : TRUE
Arguments(i, params) == [j \in DOMAIN params |-> Given(i, params[j])]
Switch(i) ==
  [c \in {items[e].case : e \in ImplsOf(i)} |->
     LET e == CHOOSE e \in ImplsOf(i) : items[e].case = c IN <<e, Arguments(e, items[e].params)>>]
Call(i) ==
  CASE i \in Of("select") -> <<CHOOSE c \in KeyConfig(i) : TRUE, Switch(i)>>
    [] i \in Of("config") -> <<>>
    [] i \in Of("handler") -> Arguments(i, SelectSeq(items[i].members, LAMBDA f : f.exported))
    [] OTHER -> Arguments(i, items[i].params)

\* An accepted program is wired as it is declared: what the commands and hooks reach is
\* constructed, once, each after what it takes; every parameter and field gets the
\* provider of its type under the name its mapping selects; a selected interface
\* switches over all its implementations; and a config struct is reported unused exactly
\* when nothing constructed loads it (resolveArgs, buildGroup, buildStruct).
WiredAsDeclared ==
  phase = "accepted" =>
    LET roots == Of("command") \cup Of("hook")
        made == [j \in DOMAIN run.calls |-> run.calls[j].at]
        inCase == {c \in Of("config") : \E i \in ToSet(made) \cap Of("select") : \E e \in ImplsOf(i) :
                     \E j \in DOMAIN items[e].params : items[e].params[j].type = Ptr(items[c].type)}
    IN /\ IsInjective(made)
       /\ ToSet(made) = Reach(roots)
       /\ \A j \in DOMAIN made : /\ run.calls[j].args = Call(made[j])
                                 /\ Feeds(made[j]) \subseteq {made[k] : k \in 1 .. (j - 1)}
       /\ warnings = Of("config") \ (ToSet(made) \cup inCase)
============================================================================
