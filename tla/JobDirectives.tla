--------------------------- MODULE JobDirectives ---------------------------
(***************************************************************************)
(* One generation run over //fabrik:job and //fabrik:cron                   *)
(* (jobs/directive): the handlers are checked in the order they are loaded, *)
(* one manager and one runner are bound for all of them, every command that *)
(* needs the manager registers all of them in its own flow, and what is     *)
(* left is built once for its errors (engine.WireOptions).                  *)
(*                                                                          *)
(* An input has decls, provided (the types that have a provider) and flows  *)
(* (the types each command needs).  A job has name, kind, msg, fits, deps;  *)
(* a cron has name, schedule, fits, deps.  fits stands for the tests of the *)
(* function's and the message's shape; fn is the name of the function.      *)
(* Kinds are numbers in the order of the strings: Absent, Malformed and     *)
(* Reserved (the prefix of crons) stand for the kinds that are none.        *)
(***************************************************************************)
EXTENDS Integers, Sequences, FiniteSets, SequencesExt, TLC

CONSTANTS Inputs,
          DerivedKind  \* message type -> the kind of its path; Absent outside the module's packages

VARIABLES
  input, phase, at,
  jobs, crons, registered,   \* the builder the two directives share
  nodes,                     \* per flow, the calls that are generated, in order
  config,                    \* per flow, what the runner is given
  fatal

vars == <<input, phase, at, jobs, crons, registered, nodes, config, fatal>>

Absent == 0
Malformed == -1
Reserved == -2

Manager == "*jobs.Manager"
Runner == "*jobs.Runner"
Store == "jobs.Store"
Config == "jobs.Config"
RuntimeConfig == "jobs.RuntimeConfig"

validIdent(n) == n \notin {"", "?"}

Init ==
  /\ input \in Inputs
  /\ phase = "check" /\ at = 1
  /\ jobs = <<>> /\ crons = <<>> /\ registered = FALSE
  /\ nodes = [f \in DOMAIN input.flows |-> <<>>]
  /\ config = [f \in DOMAIN input.flows |-> "none"]
  /\ fatal = FALSE

----------------------------------------------------------------------------
(* Check *)

\* The handler's id is the function's name unless name= gives one.
Named(d) == IF d.name = "" THEN [d EXCEPT !.name = d.fn] ELSE d

\* An exported package function that is not generic, with parameters and result as asked.
funcSig(d) == d.fits

JobsCheck(d) ==
  IF funcSig(d) /\ validIdent(Named(d).name) /\ d.kind \notin {Malformed, Reserved}
  THEN jobs' = Append(jobs, Named(d)) /\ UNCHANGED <<crons, fatal>>
  ELSE fatal' = TRUE /\ UNCHANGED <<jobs, crons>>

CronCheck(d) ==
  IF funcSig(d) /\ validIdent(d.name) /\ d.schedule = "valid"
  THEN crons' = Append(crons, d) /\ UNCHANGED <<jobs, fatal>>
  ELSE fatal' = TRUE /\ UNCHANGED <<jobs, crons>>

Check ==
  /\ phase = "check" /\ at <= Len(input.decls)
  /\ LET d == input.decls[at] IN IF d.dir = "job" THEN JobsCheck(d) ELSE CronCheck(d)
  /\ at' = at + 1
  /\ UNCHANGED <<input, phase, registered, nodes, config>>

Checked ==
  /\ phase = "check" /\ at > Len(input.decls)
  /\ phase' = IF fatal THEN "rejected" ELSE "emit"
  /\ UNCHANGED <<input, at, jobs, crons, registered, nodes, config, fatal>>

----------------------------------------------------------------------------
(* Emit and Finish: the manager and the runner are bound once. *)

ensure ==
  /\ phase = "emit"
  /\ registered' = (jobs \o crons # <<>>)
  /\ phase' = "walk" /\ at' = 1
  /\ UNCHANGED <<input, jobs, crons, nodes, config, fatal>>

----------------------------------------------------------------------------
(* build *)

kindFor(d) == IF d.kind # Absent THEN d.kind ELSE DerivedKind[d.msg]

NoKinds == [byType |-> <<>>, seen |-> {}, jobs |-> <<>>, errs |-> FALSE]
Refused(acc, d) == [acc EXCEPT !.errs = TRUE, !.jobs = Append(@, d)]

\* A second handler of one kind may not have the id of the first.
Seen(acc, d, kind) ==
  IF <<kind, d.name>> \in acc.seen THEN Refused(acc, [d EXCEPT !.kind = kind])
  ELSE [acc EXCEPT !.seen = @ \cup {<<kind, d.name>>}, !.jobs = Append(@, [d EXCEPT !.kind = kind])]

\* The first handler of a message type decides its kind.
resolveKind(acc, d) ==
  IF d.msg \notin DOMAIN acc.byType
  THEN IF kindFor(d) = Absent \/ \E t \in DOMAIN acc.byType : acc.byType[t] = kindFor(d)
       THEN Refused(acc, d)
       ELSE Seen([acc EXCEPT !.byType = @ @@ (d.msg :> kindFor(d))], d, kindFor(d))
  ELSE IF d.kind \notin {Absent, acc.byType[d.msg]} THEN Refused(acc, d)
  ELSE Seen(acc, d, acc.byType[d.msg])

resolveKinds == FoldLeft(resolveKind, NoKinds, jobs)

\* The manager itself is published before its handlers are resolved.
resolveDeps(d) == \A t \in d.deps : t \in input.provided \cup {Manager, Runner}

Registers(byType) ==
  [i \in 1 .. Cardinality(DOMAIN byType) |->
     LET t == SetToSortSeq(DOMAIN byType, LAMBDA a, b : byType[a] < byType[b])[i]
     IN  [fn |-> "Register", type |-> t, kind |-> byType[t]]]
Ons == [i \in DOMAIN jobs |-> [fn |-> "On", type |-> jobs[i].msg, name |-> jobs[i].name]]
RegisterCrons == [i \in DOMAIN crons |-> [fn |-> "RegisterCron", name |-> crons[i].name]]

\* The calls of one build, and whether it has an error.  The jobs keep the kinds it
\* gave them.
build ==
  LET k == resolveKinds
  IN  IF Store \notin input.provided THEN [calls |-> <<>>, errs |-> TRUE, jobs |-> jobs]
      ELSE IF k.errs THEN [calls |-> <<>>, errs |-> TRUE, jobs |-> k.jobs]
      ELSE [calls |-> <<[fn |-> "New", config |-> Config \in input.provided]>>
                        \o Registers(k.byType) \o Ons \o RegisterCrons,
            errs |-> \E d \in ToSet(jobs) \cup ToSet(crons) : ~resolveDeps(d), jobs |-> k.jobs]

\* The runner's configuration: the application's, or one that runs the scheduler when
\* there is something to schedule.
RunnerConfig ==
  IF RuntimeConfig \in input.provided THEN "provided" ELSE IF crons # <<>> THEN "scheduler" ELSE "zero"

Wanted(f) == {Manager, Runner} \cap input.flows[f] # {}

\* gen.WalkFlows: a command's dependencies are resolved in its own scope.
WalkFlow ==
  /\ phase = "walk" /\ at \in DOMAIN input.flows
  /\ LET builds == registered /\ Wanted(at)
         bound == IF registered THEN {Manager, Runner} ELSE {}
     IN  /\ nodes' = IF builds THEN [nodes EXCEPT ![at] = build.calls] ELSE nodes
         /\ config' = IF builds /\ Runner \in input.flows[at] THEN [config EXCEPT ![at] = RunnerConfig] ELSE config
         /\ jobs' = IF builds THEN build.jobs ELSE jobs
         /\ fatal' = (\/ fatal
                      \/ builds /\ build.errs
                      \/ ~(input.flows[at] \subseteq input.provided \cup bound))
  /\ at' = at + 1
  /\ UNCHANGED <<input, phase, crons, registered>>

\* gen.RunValidationPass builds, for its errors, what no flow needed.
RunValidationPass ==
  /\ phase = "walk" /\ at \notin DOMAIN input.flows
  /\ LET builds == registered /\ input.flows # <<>> /\ \A f \in DOMAIN input.flows : ~Wanted(f)
     IN  /\ jobs' = IF builds THEN build.jobs ELSE jobs
         /\ fatal' = (fatal \/ (builds /\ build.errs))
  /\ phase' = "validate"
  /\ UNCHANGED <<input, at, crons, registered, nodes, config>>

JobsValidate ==
  /\ phase = "validate"
  /\ phase' = IF \/ fatal
                 \/ ~IsInjective([i \in DOMAIN crons |-> crons[i].name])
                 \/ registered /\ Manager \in input.provided
              THEN "rejected" ELSE "accepted"
  /\ UNCHANGED <<input, at, jobs, crons, registered, nodes, config, fatal>>

Ended == phase \in {"accepted", "rejected"} /\ UNCHANGED vars

Next == Check \/ Checked \/ ensure \/ WalkFlow \/ RunValidationPass \/ JobsValidate \/ Ended

Spec == Init /\ [][Next]_vars

----------------------------------------------------------------------------
(* The generated program: the calls of a flow, on an empty manager. *)

NewManager == [kindByType |-> <<>>, handlers |-> {}, declared |-> {}, err |-> FALSE]

Runs(m, c) ==
  CASE c.fn = "New" -> m
    [] c.fn = "Register" ->
         IF c.type \in DOMAIN m.kindByType THEN [m EXCEPT !.err = @ \/ m.kindByType[c.type] # c.kind]
         ELSE IF \E t \in DOMAIN m.kindByType : m.kindByType[t] = c.kind THEN [m EXCEPT !.err = TRUE]
         ELSE [m EXCEPT !.kindByType = @ @@ (c.type :> c.kind)]
    [] c.fn = "On" ->
         IF c.type \notin DOMAIN m.kindByType THEN [m EXCEPT !.err = TRUE]
         ELSE IF <<m.kindByType[c.type], c.name>> \in m.handlers THEN [m EXCEPT !.err = TRUE]
         ELSE [m EXCEPT !.handlers = @ \cup {<<m.kindByType[c.type], c.name>>}]
    [] c.fn = "RegisterCron" ->
         IF c.name \in m.declared THEN [m EXCEPT !.err = TRUE] ELSE [m EXCEPT !.declared = @ \cup {c.name}]

Manages(f) == FoldLeft(Runs, NewManager, nodes[f])

----------------------------------------------------------------------------

\* What the directives accept starts: in every command that needs the manager, the
\* library accepts each generated registration (builder.build, Validate against
\* jobs.Register, On and RegisterCron).
GeneratedStarts ==
  phase = "accepted" =>
    \A f \in DOMAIN nodes :
      LET m == Manages(f) IN
      nodes[f] # <<>> =>
        /\ ~m.err
        /\ Cardinality(m.handlers) = Len(jobs) /\ Cardinality(m.declared) = Len(crons)

\* Every command registers every handler, under the kind pinned for its message or else
\* the one of its type, and all commands agree: what one enqueues another can run.
CommandsAgree ==
  phase = "accepted" =>
    \A f, g \in DOMAIN nodes :
      nodes[f] # <<>> =>
        /\ \A d \in ToSet(input.decls) :
             d.dir = "job" => Manages(f).kindByType[d.msg] =
               (LET first == CHOOSE i \in DOMAIN input.decls :
                      /\ input.decls[i].dir = "job" /\ input.decls[i].msg = d.msg
                      /\ \A j \in 1 .. i - 1 : input.decls[j].dir = "job" => input.decls[j].msg # d.msg
                IN  kindFor(input.decls[first]))
        /\ nodes[g] # <<>> => nodes[g] = nodes[f]

\* A runner that nobody configured schedules exactly when there is a cron, and a command
\* that needs a runner registers the handlers it runs.
CronsScheduled ==
  phase = "accepted" =>
    \A f \in DOMAIN nodes :
      registered /\ Runner \in input.flows[f] =>
        /\ nodes[f] # <<>>
        /\ RuntimeConfig \notin input.provided =>
             (config[f] = "scheduler" <=> \E d \in ToSet(input.decls) : d.dir = "cron")
============================================================================
