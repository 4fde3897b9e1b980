--------------------------- MODULE CliDirectives ---------------------------
(***************************************************************************)
(* One generation run over the command line directives (cli/directive): the *)
(* engine parses and checks every declaration, emits them in the order they *)
(* are loaded, and lets the family finish. What is emitted is the command   *)
(* tree the generated program hands to the library (gen.buildCommandTree).  *)
(*                                                                         *)
(* A declaration is a record with kind and pos; decl is the function or     *)
(* variable it stands on. "command": decl, fn, path, aliases, mws, params   *)
(* (after ctx: name in kebab case and type), target. "flag", "argument":    *)
(* decl, name, type, short, required, def, values, variadic. "example":     *)
(* decl. "group": decl, path, aliases, mws, target. "root": decl, version,  *)
(* mws, target. "middleware": name, requires, target. "?" is a malformed    *)
(* token and "bad" a text that does not parse as a number.                  *)
(***************************************************************************)
EXTENDS Integers, Sequences, FiniteSets, SequencesExt

CONSTANTS
  Inputs,     \* the sequences of declarations generated from
  Provided,   \* types the application has an unnamed provider for
  Selected    \* <<position, parameter>>: parameters with an inject selector

VARIABLES
  items, phase, at,
  inputs,                              \* family.order and exOrder: inputs and examples registered
  commands, groups, root, middlewares, \* what Check registered, in order; root at most one
  consumed, referenced,                \* declarations claimed, middleware names used
  declared,                            \* genState.declared: decl -> when its handles were made
  values,                              \* Command.values: parameters bound to inputs
  tree,                                \* commands, groups and root emitted, in order
  errors, warnings

vars == <<items, phase, at, inputs, commands, groups, root, middlewares, consumed, referenced, declared, values, tree, errors, warnings>>

Family == <<inputs, commands, groups, root, middlewares>>

----------------------------------------------------------------------------
(* Parse. *)

tokenRE(x) == x # "?"
Tokens(s) == \A i \in DOMAIN s : tokenRE(s[i])

inputTypes ==
  [t \in {"string", "bool", "int", "int64", "float64", "duration", "time", "strings", "ints"} |->
     [arg |-> t \in {"string", "int", "strings"},
      goType |-> CASE t = "duration" -> "time.Duration" [] t = "time" -> "time.Time"
                   [] t = "strings" -> "[]string" [] t = "ints" -> "[]int" [] OTHER -> t,
      defaultOK |-> t \notin {"time", "strings", "ints"},
      valuesOK |-> t \in {"string", "int", "int64", "float64"}]]

\* Every text is a string.
canon(t, v) == t = "string" \/ v # "bad"

InputParse(d) ==
  /\ tokenRE(d.name) /\ tokenRE(d.short)
  /\ d.type \in DOMAIN inputTypes
  /\ d.kind = "argument" => inputTypes[d.type].arg
  /\ d.def # "" => inputTypes[d.type].defaultOK /\ canon(d.type, d.def)
  /\ d.values # <<>> => inputTypes[d.type].valuesOK /\ \A i \in DOMAIN d.values : canon(d.type, d.values[i])
  /\ d.kind = "flag" => d.name # "help" /\ d.short # "h" /\ ~d.variadic
  /\ d.kind = "argument" => (d.variadic <=> d.type = "strings")

CommandParse(d) == Tokens(d.path) /\ Tokens(d.aliases) /\ Tokens(d.mws)
GroupParse(d) == d.path # <<>> /\ Tokens(d.path) /\ Tokens(d.aliases) /\ Tokens(d.mws)
RootParse(d) == Tokens(d.mws)
MiddlewareParse(d) == tokenRE(d.name) /\ Tokens(d.requires)

Parses(d) ==
  CASE d.kind \in {"flag", "argument"} -> InputParse(d)
    [] d.kind = "command" -> CommandParse(d)
    [] d.kind = "group" -> GroupParse(d)
    [] d.kind = "root" -> RootParse(d)
    [] d.kind = "middleware" -> MiddlewareParse(d)
    [] OTHER -> TRUE

----------------------------------------------------------------------------
(* Check registers; what is declared twice is refused. *)

Refuse(d) == errors' = errors \cup {<<"declaration", d.pos>>}

\* Without name= and path= the function's name is the command's.
pathOf(d) == IF d.path = <<>> THEN <<d.fn>> ELSE d.path

cmdPaths == {pathOf(c) : c \in ToSet(commands)}

CommandCheck(d) ==
  IF d.target # "command" \/ ~Tokens(pathOf(d)) \/ pathOf(d) \in cmdPaths
  THEN Refuse(d) /\ UNCHANGED commands
  ELSE commands' = Append(commands, d) /\ UNCHANGED errors

checkSentinelCarrier(d) == d.target = "sentinel"

GroupCheck(d) ==
  IF ~checkSentinelCarrier(d) \/ \E i \in DOMAIN groups : groups[i].path = d.path
  THEN Refuse(d) /\ UNCHANGED groups
  ELSE groups' = Append(groups, d) /\ UNCHANGED errors

RootCheck(d) ==
  IF ~checkSentinelCarrier(d) \/ root # <<>>
  THEN Refuse(d) /\ UNCHANGED root
  ELSE root' = <<d>> /\ UNCHANGED errors

MiddlewareCheck(d) ==
  IF d.target # "middleware" \/ \E i \in DOMAIN middlewares : middlewares[i].name = d.name
  THEN Refuse(d) /\ UNCHANGED middlewares
  ELSE middlewares' = Append(middlewares, d) /\ UNCHANGED errors

InputCheck(d) == inputs' = Append(inputs, d)

Check ==
  /\ phase = "check" /\ at <= Len(items)
  /\ LET d == items[at] IN
     CASE ~Parses(d) -> Refuse(d) /\ UNCHANGED Family
       [] Parses(d) /\ d.kind = "command" ->
            CommandCheck(d) /\ UNCHANGED <<inputs, groups, root, middlewares>>
       [] Parses(d) /\ d.kind = "group" ->
            GroupCheck(d) /\ UNCHANGED <<inputs, commands, root, middlewares>>
       [] Parses(d) /\ d.kind = "root" ->
            RootCheck(d) /\ UNCHANGED <<inputs, commands, groups, middlewares>>
       [] Parses(d) /\ d.kind = "middleware" ->
            MiddlewareCheck(d) /\ UNCHANGED <<inputs, commands, groups, root>>
       [] OTHER -> InputCheck(d) /\ UNCHANGED <<commands, groups, root, middlewares, errors>>
  /\ at' = at + 1
  /\ UNCHANGED <<items, phase, consumed, referenced, declared, values, tree, warnings>>

\* Emit only after every Parse and Check passed.
Checked ==
  /\ phase = "check" /\ at > Len(items)
  /\ phase' = IF errors = {} THEN "emit" ELSE "done"
  /\ at' = 1
  /\ UNCHANGED <<items, Family, consumed, referenced, declared, values, tree, errors, warnings>>

----------------------------------------------------------------------------
(* Inputs and their handles. A handle is <<declaration, name, when it was   *)
(* made>>: the variable of the generated run that holds the flag.           *)

InputsOf(decl) == SelectSeq(inputs, LAMBDA in : in.decl = decl /\ in.kind # "example")
Flags(ins) == SelectSeq(ins, LAMBDA in : in.kind = "flag")
Args(ins) == SelectSeq(ins, LAMBDA in : in.kind = "argument")

Handle(in, when) == <<in.decl, in.name, when>>

MadeAnew(done, decl) == [x \in DOMAIN done \cup {decl} |-> IF x = decl THEN at ELSE done[x]]

\* Handles of a group or the root are made once, by the first that asks.
handlesFor(done, decl) ==
  [x \in DOMAIN done \cup {decl} |-> IF x \in DOMAIN done THEN done[x] ELSE at]

\* Reported where the handles are made: a group or the root has no arguments.
declareInputs(done, decl) ==
  IF decl \in DOMAIN done THEN {} ELSE {<<"argument", in.pos>> : in \in ToSet(Args(InputsOf(decl)))}

isPathPrefix(outer, inner) == IsStrictPrefix(outer, inner)

\* The groups above a command, outermost first.
AncestorGroups(path) ==
  FlattenSeq([i \in 1..(Len(path) - 1) |-> SelectSeq(groups, LAMBDA g : g.path = SubSeq(path, 1, i))])

\* Root and groups whose flags a command sees; only those with flags are asked for handles.
Above(path) == SelectSeq(root \o AncestorGroups(path), LAMBDA o : Flags(InputsOf(o.decl)) # <<>>)

\* The inputs a parameter may bind, outer ones first.
chain(d) == FlattenSeq([i \in DOMAIN Above(pathOf(d)) |-> Flags(InputsOf(Above(pathOf(d))[i].decl))]) \o InputsOf(d.decl)

checkArgOrder(args) ==
  \A i \in DOMAIN args :
    IF args[i].variadic THEN i = Len(args)
    ELSE IF args[i].required THEN \A j \in 1..(i - 1) : args[j].required \/ args[j].variadic
    ELSE args[i].def # ""

isPtr(t) == t = "*string"

\* Dependencies first, then values: the parameters of a command against its chain. A name
\* binds the innermost input.
bindParams(d) ==
  LET ch == chain(d)
      step(q, p) ==
        LET i == SelectLastInSeq(ch, LAMBDA in : in.name = p.name)
            bound == \E j \in DOMAIN q.bound : q.bound[j].name = p.name
            q2 == [q EXCEPT !.seen = Append(@, p)]
        IN CASE ~q.ok -> q
             [] q.ok /\ i = 0 -> IF q.bound # <<>> THEN [q EXCEPT !.ok = FALSE] ELSE q
             [] q.ok /\ i > 0 /\ (bound \/ isPtr(p.type) \/ p.type # inputTypes[ch[i].type].goType) -> [q2 EXCEPT !.ok = FALSE]
             [] OTHER -> [q2 EXCEPT !.bound = Append(@, ch[i])]
  IN FoldLeft(step, [ok |-> TRUE, bound |-> <<>>, seen |-> <<>>], d.params)

SelectMw(name) == SelectSeq(middlewares, LAMBDA m : m.name = name)
Known(name) == SelectMw(name) # <<>>

\* Every name that is there counts as referenced.
resolveMiddleware(d) ==
  [refs |-> {n \in ToSet(d.mws) : Known(n)}, errors |-> {<<"unknown", d.pos>> : n \in {n \in ToSet(d.mws) : ~Known(n)}}]

\* Root, ancestor groups and ancestor commands, in the order they run.
earlierNames(path) ==
  FlattenSeq([i \in DOMAIN root |-> root[i].mws])
  \o FlattenSeq([i \in 1..(Len(path) - 1) |->
       FlattenSeq([j \in DOMAIN groups |-> IF groups[j].path = SubSeq(path, 1, i) THEN groups[j].mws ELSE <<>>])
       \o FlattenSeq([j \in DOMAIN commands |-> IF pathOf(commands[j]) = SubSeq(path, 1, i) THEN commands[j].mws ELSE <<>>])])

\* What a middleware requires runs before it; a name that is unknown is reported elsewhere.
validateRequires(d, base) ==
  {<<"requires", d.pos>> : i \in {i \in DOMAIN d.mws :
     \E m \in ToSet(SelectMw(d.mws[i])) : \E r \in ToSet(m.requires) :
       Known(r) /\ r \notin ToSet(base) \cup ToSet(SubSeq(d.mws, 1, i - 1))}}

----------------------------------------------------------------------------
(* Emit. *)

Entry(d, path, ins, when, gets) ==
  [kind |-> d.kind, pos |-> d.pos, path |-> path, aliases |-> IF d.kind = "root" THEN <<>> ELSE d.aliases,
   ins |-> ins, when |-> when, gets |-> gets, mws |-> d.mws, version |-> d.kind = "root" /\ d.version]

\* The first thing wrong ends the emission; handles made on the way stay made.
CommandEmit(d) ==
  LET ins == InputsOf(d.decl)
      owners == Above(pathOf(d))
      unique == IsInjective([i \in DOMAIN ins |-> ins[i].name])
      done == FoldLeft(LAMBDA acc, o : handlesFor(acc, o.decl), declared, owners)
      misplaced == UNION {declareInputs(declared, o.decl) : o \in ToSet(owners)}
      b == bindParams(d)
      bad == CASE ~b.ok -> {<<"parameter", d.pos>>}
               [] \E i \in DOMAIN ins : ins[i] \notin ToSet(b.bound) -> {<<"unbound", d.pos>>}
               [] OTHER -> resolveMiddleware(d).errors \cup validateRequires(d, earlierNames(pathOf(d)))
      whole == b.ok /\ \A i \in DOMAIN ins : ins[i] \in ToSet(b.bound)
      gets == [i \in DOMAIN b.bound |-> Handle(b.bound[i], IF b.bound[i].decl = d.decl THEN at ELSE done[b.bound[i].decl])]
  IN /\ consumed' = consumed \cup {d.decl}
     /\ IF unique /\ checkArgOrder(Args(ins))
        THEN /\ declared' = done
             /\ values' = values \o [i \in DOMAIN b.seen |-> <<d.pos, b.seen[i]>>]
             /\ referenced' = IF whole THEN referenced \cup resolveMiddleware(d).refs ELSE referenced
             /\ errors' = errors \cup misplaced \cup bad
             /\ tree' = IF misplaced \cup bad = {} THEN Append(tree, Entry(d, pathOf(d), ins, at, gets)) ELSE tree
        ELSE /\ errors' = errors \cup {<<"inputs", d.pos>>}
             /\ UNCHANGED <<declared, values, referenced, tree>>

OwnerEmit(d, path, base) ==
  LET bad == declareInputs(declared, d.decl) \cup resolveMiddleware(d).errors \cup validateRequires(d, base)
  IN /\ declared' = handlesFor(declared, d.decl)
     /\ referenced' = referenced \cup resolveMiddleware(d).refs
     /\ errors' = errors \cup bad
     /\ tree' = IF bad = {} THEN Append(tree, Entry(d, path, Flags(InputsOf(d.decl)), declared'[d.decl], <<>>)) ELSE tree

\* The command owns the node of its path.
GroupEmit(d) ==
  IF d.path \in cmdPaths
  THEN errors' = errors \cup {<<"executable", d.pos>>} /\ UNCHANGED <<consumed, referenced, declared, tree>>
  ELSE consumed' = consumed \cup {d.decl} /\ OwnerEmit(d, d.path, earlierNames(d.path))

RootEmit(d) ==
  /\ consumed' = consumed \cup {d.decl}
  /\ IF d.version /\ \E in \in ToSet(Flags(InputsOf(d.decl))) : in.name = "version"
     THEN errors' = errors \cup {<<"version", d.pos>>} /\ UNCHANGED <<referenced, declared, tree>>
     ELSE OwnerEmit(d, <<>>, <<>>)

Emit ==
  /\ phase = "emit" /\ at <= Len(items)
  /\ LET d == items[at] IN
     CASE d.kind = "command" -> CommandEmit(d)
       [] d.kind = "group" -> GroupEmit(d) /\ UNCHANGED values
       [] d.kind = "root" -> RootEmit(d) /\ UNCHANGED values
       [] OTHER -> UNCHANGED <<consumed, referenced, declared, values, tree, errors>>
  /\ at' = at + 1
  /\ UNCHANGED <<items, phase, Family, warnings>>

----------------------------------------------------------------------------
(* Finish. *)

\* Who declares flags, and where: root, groups that are not commands, commands.
owners ==
  [i \in DOMAIN root |-> [path |-> <<>>, ins |-> Flags(InputsOf(root[i].decl)), cmd |-> FALSE]]
  \o LET gs == SelectSeq(groups, LAMBDA g : g.path \notin cmdPaths)
     IN [i \in DOMAIN gs |-> [path |-> gs[i].path, ins |-> Flags(InputsOf(gs[i].decl)), cmd |-> FALSE]]
  \o [i \in DOMAIN commands |-> [path |-> pathOf(commands[i]), ins |-> Flags(InputsOf(commands[i].decl)), cmd |-> TRUE]]

SameShort(a, b) == a.short # "" /\ a.short = b.short

validateChainsOwn ==
  {<<"chain", in.pos>> : in \in UNION {{o.ins[i] : i \in {i \in DOMAIN o.ins : \E j \in 1..(i - 1) :
      (o.ins[j].name = o.ins[i].name /\ ~o.cmd) \/ SameShort(o.ins[j], o.ins[i])}} : o \in ToSet(owners)}}

\* Names and shorts are unique on a declaration and along the way down to it.
validateChains ==
  validateChainsOwn
  \cup {<<"chain", in.pos>> : in \in UNION {{in \in ToSet(inner.ins) : \E outer \in ToSet(owners) :
          /\ isPathPrefix(outer.path, inner.path)
          /\ \E anc \in ToSet(outer.ins) : anc.name = in.name \/ SameShort(anc, in)} : inner \in ToSet(owners)}}

\* Every node a path goes through is a name under its parent.
canonical ==
  UNION {{SubSeq(p, 1, i) : i \in 1..Len(p)} : p \in cmdPaths \cup {g.path : g \in ToSet(groups)}}

Under(path, alias) == Append(Front(path), alias)

Aliases ==
  FlattenSeq([i \in DOMAIN commands |->
    [k \in DOMAIN commands[i].aliases |-> [at |-> Under(pathOf(commands[i]), commands[i].aliases[k]), pos |-> commands[i].pos]]])
  \o FlattenSeq([i \in DOMAIN groups |->
    [k \in DOMAIN groups[i].aliases |-> [at |-> Under(groups[i].path, groups[i].aliases[k]), pos |-> groups[i].pos]]])

validateSiblingTokens ==
  {<<"alias", Aliases[i].pos>> : i \in {i \in DOMAIN Aliases :
     \/ Aliases[i].at \in {<<"completion">>, <<"__complete">>}
     \/ Aliases[i].at \in canonical
     \/ \E j \in 1..(i - 1) : Aliases[j].at = Aliases[i].at}}

\* A value is neither selected by name nor also provided.
valueErrors ==
  {<<"value", v[1]>> : v \in {v \in ToSet(values) : <<v[1], v[2].name>> \in Selected \/ v[2].type \in Provided}}

unclaimed == {<<"unclaimed", d.pos>> : d \in {d \in ToSet(inputs) : d.decl \notin consumed}}

checkRequiresDecls ==
  {<<"requires", m.pos>> : m \in {m \in ToSet(middlewares) : \E r \in ToSet(m.requires) : ~Known(r)}}

Finish ==
  /\ phase = "emit" /\ at > Len(items)
  /\ phase' = "done"
  /\ errors' = errors \cup validateChains \cup validateSiblingTokens \cup valueErrors \cup unclaimed \cup checkRequiresDecls
  /\ warnings' = {m.pos : m \in {m \in ToSet(middlewares) : m.name \notin referenced}}
  /\ UNCHANGED <<items, at, Family, consumed, referenced, declared, values, tree>>

----------------------------------------------------------------------------
(* The tree of the generated program. A node is known by its path.          *)

AddNodes(nodes, path) ==
  nodes \o SelectSeq([i \in DOMAIN path |-> SubSeq(path, 1, i)], LAMBDA p : p \notin ToSet(nodes))

\* Nodes in the order in which they are first contributed.
Nodes == FoldLeft(LAMBDA acc, e : AddNodes(acc, e.path), <<>>, tree)

\* A command's entry before a group's.
EntryAt(p) ==
  LET es == SelectSeq(tree, LAMBDA e : e.path = p)
      cs == SelectSeq(es, LAMBDA e : e.kind = "command")
  IN IF cs # <<>> THEN <<Last(cs)>> ELSE IF es # <<>> THEN <<Last(es)>> ELSE <<>>

\* The handle a declaration is built into, as the library sees it.
builderExpr(in) ==
  [name |-> in.name, short |-> in.short, required |-> in.required, variadic |-> in.variadic,
   slice |-> in.type \in {"strings", "ints"}]

writeCommandNode(p) ==
  LET e == EntryAt(p)
      ins == IF e = <<>> THEN <<>> ELSE e[1].ins
  IN [aliases |-> IF e = <<>> THEN <<>> ELSE [k \in DOMAIN e[1].aliases |-> Under(p, e[1].aliases[k])],
      flags |-> [i \in DOMAIN Flags(ins) |-> builderExpr(Flags(ins)[i])],
      args |-> [i \in DOMAIN Args(ins) |-> builderExpr(Args(ins)[i])],
      subs |-> SelectSeq(Nodes, LAMBDA q : q # <<>> /\ Front(q) = p),
      run |-> e # <<>> /\ e[1].kind = "command",
      version |-> e # <<>> /\ e[1].version]

\* The variables run declares, in the order of the tree.
writeRunCommands ==
  FlattenSeq([k \in DOMAIN tree |-> [i \in DOMAIN tree[k].ins |-> Handle(tree[k].ins[i], tree[k].when)]])

buildCommandTree == [p \in ToSet(Nodes) \cup {<<>>} |-> writeCommandNode(p)]

Init ==
  /\ items \in Inputs
  /\ phase = "check" /\ at = 1
  /\ inputs = <<>> /\ commands = <<>> /\ groups = <<>> /\ root = <<>> /\ middlewares = <<>>
  /\ consumed = {} /\ referenced = {} /\ declared = <<>> /\ values = <<>> /\ tree = <<>>
  /\ errors = {} /\ warnings = {}

Next == Check \/ Checked \/ Emit \/ Finish

----------------------------------------------------------------------------
Generated == phase = "done" /\ errors = {}

Of(e) == CHOOSE d \in ToSet(items) : d.pos = e.pos
HandlesOf(e) == {Handle(e.ins[i], e.when) : i \in DOMAIN e.ins}

\* Whichever order root, groups and commands are emitted in, run declares no variable twice,
\* and every value a command reads is a variable of one node, the command itself or one
\* above it; it has the parameter's name and type, and the input is the one on the
\* innermost of those nodes (Command.Emit, handlesFor, varFor).
ValuesFromOwnChain ==
  Generated =>
    /\ IsInjective(writeRunCommands)
    /\ \A e \in ToSet(tree) : e.kind = "command" =>
         LET vals == SelectSeq(Of(e).params, LAMBDA p : \E o \in ToSet(tree) :
                       IsPrefix(o.path, e.path) /\ (o.kind # "command" \/ o = e) /\ \E h \in HandlesOf(o) : h[2] = p.name)
         IN /\ Len(e.gets) = Len(vals)
            /\ \A i \in DOMAIN e.gets :
                 LET from == {o \in ToSet(tree) : e.gets[i] \in HandlesOf(o)} IN
                 /\ Cardinality(from) = 1
                 /\ \A o \in from :
                      /\ IsPrefix(o.path, e.path)
                      /\ \A x \in ToSet(tree) :
                           (IsStrictPrefix(o.path, x.path) /\ IsPrefix(x.path, e.path) /\ x.kind # "command") =>
                              \A h \in HandlesOf(x) : h[2] # e.gets[i][2]
                      /\ \E k \in DOMAIN o.ins : /\ o.ins[k].name = vals[i].name
                                                /\ inputTypes[o.ins[k].type].goType = vals[i].type

\* The middleware a command runs through: the root's, those of every node above, its own.
RunsThrough(path) ==
  FlattenSeq([i \in 1..(Len(path) + 1) |->
    LET e == EntryAt(SubSeq(path, 1, i - 1)) IN IF e = <<>> THEN <<>> ELSE e[1].mws])

\* What a command's middleware requires has run before it, on the way from the root
\* (validateRequires, earlierNames).
RequirementsRunFirst ==
  Generated =>
    \A e \in ToSet(tree) : \A i \in DOMAIN RunsThrough(e.path) :
      \A m \in ToSet(SelectMw(RunsThrough(e.path)[i])) :
        \A r \in ToSet(m.requires) : r \in ToSet(SubSeq(RunsThrough(e.path), 1, i - 1))

\* Everything declared is in the tree: every command, group and root once, every flag and
\* argument on its node (Finish).
NothingLost ==
  Generated =>
    \A d \in ToSet(items) :
      /\ d.kind \in {"command", "group", "root"} => Cardinality({i \in DOMAIN tree : tree[i].pos = d.pos}) = 1
      /\ d.kind \in {"flag", "argument"} => \E e \in ToSet(tree) : d \in ToSet(e.ins)
      /\ d.kind = "middleware" => (d.pos \in warnings <=> \A e \in ToSet(tree) : d.name \notin ToSet(e.mws))

=============================================================================
