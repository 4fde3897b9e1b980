------------------------------ MODULE GenGraph ------------------------------
(***************************************************************************)
(* How the generator finds what a node of the wiring graph reads:           *)
(* gen/graph.go walks the Go text of a node's expressions with a stack of   *)
(* scopes and reports the identifiers no scope binds.                       *)
(*                                                                          *)
(* A syntax tree is a record whose field k names its kind. Kinds that the   *)
(* walk treats alike are one kind: "exprs" is any expression, and "do" any  *)
(* statement, that only has subexpressions, walked in order. An optional    *)
(* subtree is a sequence of at most one.                                    *)
(***************************************************************************)
EXTENDS Sequences, SequencesExt, FiniteSets, Integers

CONSTANTS Names           \* identifiers of the programs walked

VARIABLES src,            \* the expression given to freeIdents
          ran,            \* it was called
          found           \* the identifiers it reported

vars == <<src, ran, found>>

Use(x) == <<"use", x>>
Bind(x) == <<"bind", x>>
Push == <<"push", "">>
Pop == <<"pop", "">>

Binds(names) == [i \in DOMAIN names |-> Bind(names[i])]

----------------------------------------------------------------------------
(* The walk, as the events it raises on the scope stack, in order. *)

RECURSIVE walkExpr(_), walkStmt(_)

walkExprs(es) == FlattenSeq([i \in DOMAIN es |-> walkExpr(es[i])])
walkStmts(list) == FlattenSeq([i \in DOMAIN list |-> walkStmt(list[i])])

walkFieldTypes(fields) == FlattenSeq([i \in DOMAIN fields |-> walkExpr(fields[i].type)])
bindFieldList(fields) == FlattenSeq([i \in DOMAIN fields |-> Binds(fields[i].names)])

\* A key of a composite literal is a field name when it is an identifier and
\* the literal is neither of a map nor of an array type.
IsFieldName(key, exprKeys) == key.k = "id" /\ ~exprKeys
walkElt(elt, exprKeys) ==
  FlattenSeq([i \in DOMAIN elt.key |->
                IF IsFieldName(elt.key[i], exprKeys) THEN <<>> ELSE walkExpr(elt.key[i])])
    \o walkExpr(elt.value)

\* A target of := is bound, any other target is an expression.
Target(l, define) == IF define /\ l.k = "id" THEN <<Bind(l.x)>> ELSE walkExpr(l)
Targets(ls, define) == FlattenSeq([i \in DOMAIN ls |-> Target(ls[i], define)])

\* Mutant: the targets are bound first.
walkAssignTargetsFirst(s) == Targets(s.lhs, s.define) \o walkExprs(s.rhs)

\* The right-hand side is evaluated before its names exist.
walkAssign(s) == walkExprs(s.rhs) \o Targets(s.lhs, s.define)

walkSpec(spec) ==
  IF spec.k = "value" THEN walkExprs(spec.type) \o walkExprs(spec.values) \o Binds(spec.names)
                      ELSE <<Bind(spec.name)>> \o walkExpr(spec.type)

\* Case types are read outside the guard's scope, the body inside it.
typeClause(c, guard) ==
  <<Push>> \o walkExprs(c.list) \o Binds(guard) \o walkStmts(c.body) \o <<Pop>>

walkFunc(e) ==
  walkFieldTypes(e.params) \o walkFieldTypes(e.results)
    \o <<Push>> \o bindFieldList(e.params) \o bindFieldList(e.results)
    \o walkStmts(e.body) \o <<Pop>>

walkExpr(e) ==
  CASE e.k = "id" -> <<Use(e.x)>>
    [] e.k = "exprs" -> walkExprs(e.of)
    [] e.k = "lit" ->
         walkExprs(e.type)
           \o FlattenSeq([i \in DOMAIN e.elts |-> walkElt(e.elts[i], e.exprKeys)])
    [] e.k = "func" -> walkFunc(e)

walkStmt(s) ==
  CASE s.k = "block" -> <<Push>> \o walkStmts(s.list) \o <<Pop>>
    [] s.k = "do" -> walkExprs(s.of)
    [] s.k = "assign" -> walkAssign(s)
    [] s.k = "decl" -> FlattenSeq([i \in DOMAIN s.specs |-> walkSpec(s.specs[i])])
    [] s.k = "if" ->
         <<Push>> \o walkStmts(s.init) \o walkExpr(s.cond) \o walkStmt(s.body)
           \o walkStmts(s.else) \o <<Pop>>
    [] s.k = "for" ->
         <<Push>> \o walkStmts(s.init) \o walkExprs(s.cond) \o walkStmts(s.post)
           \o walkStmt(s.body) \o <<Pop>>
    [] s.k = "range" ->
         <<Push>> \o walkExpr(s.over) \o Targets(s.targets, s.define) \o walkStmt(s.body) \o <<Pop>>
    [] s.k = "switch" ->
         <<Push>> \o walkStmts(s.init) \o walkExprs(s.tag) \o walkStmt(s.body) \o <<Pop>>
    [] s.k = "typeswitch" ->
         <<Push>> \o walkStmts(s.init) \o walkExpr(s.of)
           \o FlattenSeq([i \in DOMAIN s.clauses |-> typeClause(s.clauses[i], s.guard)]) \o <<Pop>>
    [] s.k = "case" -> <<Push>> \o walkExprs(s.list) \o walkStmts(s.body) \o <<Pop>>
    [] s.k = "comm" -> <<Push>> \o walkStmts(s.comm) \o walkStmts(s.body) \o <<Pop>>
    [] s.k = "labeled" -> walkStmt(s.stmt)

(* The scope stack. *)

bound(frames, x) == \E i \in DOMAIN frames : x \in frames[i]

\* With no frame, or for the blank identifier, bind does nothing.
bind(frames, x) ==
  IF x = "_" \/ frames = <<>> THEN frames
  ELSE [frames EXCEPT ![Len(frames)] = @ \cup {x}]

Event(st, ev) ==
  CASE ev[1] = "push" -> [st EXCEPT !.frames = Append(@, {})]
    [] ev[1] = "pop" -> [st EXCEPT !.frames = Front(@)]
    [] ev[1] = "bind" -> [st EXCEPT !.frames = bind(@, ev[2])]
    [] ev[1] = "use" -> [st EXCEPT !.free = IF bound(st.frames, ev[2]) THEN @ ELSE @ \cup {ev[2]}]

freeIdents(e) == FoldLeft(Event, [frames |-> <<>>, free |-> {}], walkExpr(e)).free

----------------------------------------------------------------------------
(* The programs walked: function literals over small statements, and one    *)
(* control statement of every kind over those.                              *)

Id(x) == [k |-> "id", x |-> x]
Ids == {Id(x) : x \in Names}
Opt(S) == {<<>>} \cup {<<e>> : e \in S}
Do(e) == [k |-> "do", of |-> <<e>>]
Block(list) == [k |-> "block", list |-> list]
Field(x) == [names |-> <<x>>, type |-> Id(x)]
Func(params, results, body) == [k |-> "func", params |-> params, results |-> results, body |-> body]

Reads == {Do(e) : e \in Ids}
Assigns == [k : {"assign"}, define : BOOLEAN, lhs : {<<e>> : e \in Ids} \cup {<<Id("_")>>},
            rhs : {<<e>> : e \in Ids}]
Defines == {s \in Assigns : s.define}
Decls == {[k |-> "decl", specs |-> <<s>>] :
            s \in [k : {"value"}, names : {<<x>> : x \in Names}, type : {<<>>}, values : Opt(Ids)]
                    \cup [k : {"type"}, name : Names, type : Ids]}
Lits == {Do([k |-> "lit", type |-> <<>>, exprKeys |-> m, elts |-> <<[key |-> <<x>>, value |-> v]>>]) :
           m \in BOOLEAN, x \in Ids, v \in Ids}
Closures == {Do(Func(<<Field(x)>>, <<>>, <<r>>)) : x \in Names, r \in Reads}

Small == Reads \cup Assigns \cup Decls \cup Lits \cup Closures
Body == {Block(<<>>)} \cup {Block(<<s>>) : s \in Defines} \cup {Block(<<s>>) : s \in Reads}
Clauses == {<<[k |-> "case", list |-> <<e>>, body |-> <<s, r>>]>> :
              e \in Ids, s \in Defines, r \in Reads}
Comms == {<<[k |-> "comm", comm |-> c, body |-> <<r>>]>> : c \in Opt(Defines), r \in Reads}

Controls ==
  [k : {"if"}, init : Opt(Defines), cond : Ids, body : Body, else : Opt({Block(<<r>>) : r \in Reads})]
    \cup [k : {"for"}, init : Opt(Defines), cond : Opt(Ids), post : Opt(Reads), body : Body]
    \cup [k : {"range"}, over : Ids, define : BOOLEAN, targets : Opt(Ids), body : Body]
    \cup [k : {"switch"}, init : Opt(Defines), tag : Opt(Ids), body : {Block(c) : c \in Clauses}]
    \cup [k : {"typeswitch"}, init : Opt(Defines), guard : Opt(Names), of : Ids, clauses : Clauses]
    \cup {Block(c) : c \in Comms}
    \cup [k : {"labeled"}, stmt : Small]

Programs == {Func(<<>>, <<>>, <<s>> \o t) : s \in Small \cup Controls, t \in Opt(Reads)}
              \cup {Func(<<Field("a")>>, <<Field("b")>>, <<s, r>>) : s \in Small, r \in Reads}
              \cup {Func(<<>>, <<>>, <<d, s, r>>) : d \in Defines, s \in Small, r \in Reads}

----------------------------------------------------------------------------

Init == src \in Programs /\ ran = FALSE /\ found = {}

Run == ~ran /\ ran' = TRUE /\ found' = freeIdents(src) /\ UNCHANGED src

Next == Run

Spec == Init /\ [][Next]_vars

----------------------------------------------------------------------------
(* Go's scoping rules, without a stack: what is free in a list of           *)
(* statements is free in the first, or free in the rest and not declared    *)
(* by the first.                                                            *)

RECURSIVE FV(_), FVList(_), Declared(_)

FVs(es) == UNION {FV(es[i]) : i \in DOMAIN es}
FieldNames(fields) == UNION {ToSet(fields[i].names) : i \in DOMAIN fields}
Targeted(ls, define) == {l.x : l \in {m \in ToSet(ls) : define /\ m.k = "id"}} \ {"_"}
NotTargeted(ls, define) == SelectSeq(ls, LAMBDA l : ~(define /\ l.k = "id"))

Declared(s) ==
  CASE s.k = "assign" -> Targeted(s.lhs, s.define)
    [] s.k = "decl" -> UNION {IF s.specs[i].k = "value" THEN ToSet(s.specs[i].names)
                                                        ELSE {s.specs[i].name} : i \in DOMAIN s.specs}
    [] s.k = "labeled" -> Declared(s.stmt)
    [] OTHER -> {}

FVList(list) ==
  IF list = <<>> THEN {} ELSE FV(Head(list)) \cup (FVList(Tail(list)) \ Declared(Head(list)))

\* An expression in a list of statements declares nothing.
AsStmts(es) == [i \in DOMAIN es |-> Do(es[i])]

FV(n) ==
  CASE n.k = "id" -> {n.x}
    [] n.k \in {"exprs", "do"} -> FVs(n.of)
    [] n.k = "lit" -> FVs(n.type) \cup UNION
         {FV(n.elts[i].value)
            \cup UNION {IF n.exprKeys \/ key.k # "id" THEN FV(key) ELSE {} : key \in ToSet(n.elts[i].key)}
            : i \in DOMAIN n.elts}
    [] n.k = "func" ->
         UNION {FV(fl.type) : fl \in ToSet(n.params \o n.results)}
           \cup (FVList(n.body) \ FieldNames(n.params \o n.results))
    [] n.k = "block" -> FVList(n.list)
    [] n.k = "assign" -> FVs(n.rhs) \cup FVs(NotTargeted(n.lhs, n.define))
    [] n.k = "decl" -> FVList(n.specs)
    [] n.k = "value" -> FVs(n.type) \cup FVs(n.values)
    [] n.k = "type" -> FV(n.type) \ {n.name}
    [] n.k = "if" -> FVList(n.init \o <<Do(n.cond), n.body>> \o n.else)
    [] n.k = "for" -> FVList(n.init \o AsStmts(n.cond) \o <<Block(n.post), n.body>>)
    [] n.k = "range" -> FV(n.over) \cup FVs(NotTargeted(n.targets, n.define))
                          \cup (FV(n.body) \ Targeted(n.targets, n.define))
    [] n.k = "switch" -> FVList(n.init \o AsStmts(n.tag) \o <<n.body>>)
    [] n.k = "typeswitch" ->
         FVList(n.init)
           \cup ((FV(n.of) \cup UNION {FVs(c.list) \cup (FVList(c.body) \ ToSet(n.guard)) :
                                       c \in ToSet(n.clauses)})
                 \ UNION {Declared(d) : d \in ToSet(n.init)})
    [] n.k = "case" -> FVs(n.list) \cup FVList(n.body)
    [] n.k = "comm" -> FVList(n.comm \o n.body)
    [] n.k = "labeled" -> FV(n.stmt)

\* The walk reports exactly the identifiers that Go's scoping leaves free: a
\* generated statement depends on every variable its text reads and on no name
\* the text itself declares, whatever shadows what.
FreeIdentsExact == ran => found = FV(src)
=============================================================================
