-------------------------------- MODULE Cli --------------------------------
(***************************************************************************)
(* The command line library (src/cli). A line is read word by word, by the  *)
(* parser of Exec and, in step with it, by the walk shell completion makes  *)
(* over the words before the one being completed. Reading ends with Exec,   *)
(* which binds, validates and runs the handler, or with Complete.           *)
(*                                                                         *)
(* A tree is a function from command names to commands, with root "app". A  *)
(* word is [k, n, v, t]: k tells "sep" (--), "long", "short" and "word"     *)
(* apart, n is the name a flag word carries, v the value after its = (at    *)
(* most one) and t the whole text. A value is the text it was parsed from.  *)
(***************************************************************************)
EXTENDS Integers, Sequences, FiniteSets, SequencesExt, TLC

CONSTANTS
  Trees,          \* the command trees declared, a sequence
  Words,          \* the words a line is made of
  Envs,           \* the environments: functions from variables to values
  HandlerErrors,  \* what a handler may return: error trees, or NoError
  Cursors,        \* the word being completed: <<>>, <<"-">>, <<"--">> or <<"--", name, "=">>
  MaxWords        \* bound: words read

VARIABLES tree, env, line, p, w, phase, ran, failed, exit, offered

vars == <<tree, env, line, p, w, phase, ran, failed, exit, offered>>

Absent == <<>>   \* an optional value that is not there
NoError == [kind |-> "none", of |-> <<>>, is |-> "none"]
Leaf(c) == [kind |-> "leaf", of |-> <<>>, is |-> c]
Join(es) == [kind |-> "join", of |-> es, is |-> "join"]
Wrap(e) == [kind |-> "wrap", of |-> <<e>>, is |-> "wrap"]

----------------------------------------------------------------------------
(* The tree Exec works on. *)

Arg(n, req, var, offers) ==
  [name |-> n, required |-> req, variadic |-> var, slice |-> var, offers |-> offers,
   oneOf |-> IF var THEN {} ELSE offers]

completionCmd ==
  [aliases |-> <<>>, flags |-> <<>>, args |-> <<Arg("shell", TRUE, FALSE, {"bash", "zsh", "fish"})>>,
   subs |-> <<>>, run |-> TRUE, version |-> FALSE, use |-> <<>>, hidden |-> TRUE, injected |-> TRUE]

completeCmd ==
  [completionCmd EXCEPT !.args = <<Arg("words", FALSE, TRUE, {})>>]

hasSub(T, c, n) == n \in ToSet(T[c].subs)

withInjectedCompletion(T) ==
  LET missing == SelectSeq(<<"completion", "__complete">>, LAMBDA n : ~hasSub(T, "app", n)) IN
  [n \in DOMAIN T \cup ToSet(missing) |->
     CASE n = "app" -> [T["app"] EXCEPT !.subs = @ \o missing]
       [] n = "completion" /\ n \in ToSet(missing) -> completionCmd
       [] n = "__complete" /\ n \in ToSet(missing) -> completeCmd
       [] OTHER -> T[n]]

ArgsOrdered(args) ==
  \A i \in DOMAIN args :
    /\ args[i].variadic => i = Len(args)
    /\ args[i].slice <=> args[i].variadic
    /\ args[i].required => \A j \in 1..(i - 1) : args[j].required \/ args[j].variadic

RECURSIVE validateArgsDecl(_, _, _)
validateArgsDecl(T, c, inherited) ==
  LET fs == inherited \o T[c].flags
      own == (Len(inherited) + 1)..Len(fs)
      called == FlattenSeq([i \in DOMAIN T[c].subs |-> <<T[c].subs[i]>> \o T[T[c].subs[i]].aliases])
  IN /\ \A i \in own :
          /\ fs[i].name # "help" /\ fs[i].short # "h"
          /\ \A j \in 1..(i - 1) :
               /\ fs[j].name # fs[i].name
               /\ fs[i].short # "" => fs[j].short # fs[i].short
     /\ T[c].version => \A i \in DOMAIN fs : fs[i].name # "version"
     /\ ArgsOrdered(T[c].args)
     /\ IsInjective(called)
     /\ \A i \in DOMAIN T[c].subs : validateArgsDecl(T, T[c].subs[i], fs)

----------------------------------------------------------------------------
(* Looking things up. *)

findSub(T, c, n) ==
  SelectSeq(T[c].subs, LAMBDA s : s = n \/ n \in ToSet(T[s].aliases))

commandHasVariadic(T, c) == \E i \in DOMAIN T[c].args : T[c].args[i].variadic

isFlagToken(t) == t.k \in {"long", "short"}

isHelp(t) == t.v = Absent /\ <<t.k, t.n>> \in {<<"long", "help">>, <<"short", "h">>}

isVersion(t) == t.k = "long" /\ t.n = "version" /\ t.v = Absent

findFlagLong(known, n) == SelectSeq(known, LAMBDA f : f.name = n)

findFlagShort(known, n) == SelectSeq(known, LAMBDA f : f.short = n /\ n # "")

lookupFlagToken(known, t) ==
  IF t.k = "long" THEN findFlagLong(known, t.n) ELSE findFlagShort(known, t.n)

Group(T, c) == ~T[c].run /\ T[c].subs # <<>>

----------------------------------------------------------------------------
(* The parser, a word at a time. pend is the flag whose value the next word *)
(* is, rest is set by the separator, stop is why reading stopped.           *)

Parses(f, s) == f.accepts = {} \/ s \in f.accepts

flagApplyString(vs, f, s) ==
  (f.name :> IF f.slice /\ f.name \in DOMAIN vs THEN Append(vs[f.name], s) ELSE <<s>>) @@ vs

Applied(q, f, s) ==
  IF Parses(f, s) THEN [q EXCEPT !.vals = flagApplyString(q.vals, f, s), !.pend = Absent]
                  ELSE [q EXCEPT !.stop = "usage", !.pend = Absent]

applyFlagToken(q, t) ==
  LET found == lookupFlagToken(q.known, t) IN
  IF found = <<>> THEN [q EXCEPT !.stop = "usage"]
  ELSE IF t.v # Absent THEN Applied(q, found[1], t.v[1])
  ELSE IF found[1].bool THEN Applied(q, found[1], "true")
  ELSE [q EXCEPT !.pend = <<found[1]>>]

\* Mutant: a positional of a variadic command does not stop flag parsing.
PositionalUnlocked(T, q, t) == [q EXCEPT !.positional = Append(@, t.t), !.started = TRUE]

Positional(T, q, t) ==
  [q EXCEPT !.positional = Append(@, t.t), !.started = TRUE,
            !.locked = @ \/ commandHasVariadic(T, Last(q.path))]

parseWord(T, q, t) ==
  LET c == Last(q.path)
      sub == IF q.started THEN <<>> ELSE findSub(T, c, t.t)
  IN CASE q.stop # "" -> q
       [] q.pend # Absent -> Applied(q, q.pend[1], t.t)
       [] q.rest -> [q EXCEPT !.positional = Append(@, t.t)]
       [] t.k = "sep" -> [q EXCEPT !.rest = TRUE]
       [] isHelp(t) -> [q EXCEPT !.stop = "help"]
       [] isVersion(t) /\ T[c].version -> [q EXCEPT !.stop = "version"]
       [] ~q.locked /\ isFlagToken(t) -> applyFlagToken(q, t)
       [] sub # <<>> -> [q EXCEPT !.path = Append(@, sub[1]), !.known = @ \o T[sub[1]].flags]
       [] ~q.started /\ Group(T, c) -> [q EXCEPT !.stop = "unknown"]
       [] OTHER -> Positional(T, q, t)

----------------------------------------------------------------------------
(* The rest of parseArgs, once the line is read. *)

flagApplyEnv(vs, known) ==
  LET from == SelectSeq(known, LAMBDA f : /\ f.env # "" /\ f.name \notin DOMAIN vs
                                          /\ f.env \in DOMAIN env)
  IN IF \E i \in DOMAIN from : ~Parses(from[i], env[from[i].env]) THEN <<>>
     ELSE <<FoldLeft(LAMBDA a, f : flagApplyString(a, f, env[f.env]), vs, from)>>

flagValidate(vs, f) ==
  LET val == IF f.name \in DOMAIN vs THEN vs[f.name] ELSE f.default
  IN f.oneOf # {} => ToSet(val) \subseteq f.oneOf

\* Mutant: only the flags of the command itself are required.
FlagErrorOwn(T, q, vs) ==
  IF \E i \in DOMAIN T[Last(q.path)].flags :
        LET f == T[Last(q.path)].flags[i]
        IN f.required /\ f.name \notin DOMAIN vs /\ f.default = Absent THEN "usage" ELSE ""

FlagError(T, q, vs) ==
  LET unset(f) == f.required /\ f.name \notin DOMAIN vs /\ f.default = Absent
      bad == SelectInSeq(q.known, LAMBDA f : unset(f) \/ ~flagValidate(vs, f))
  IN IF bad = 0 THEN "" ELSE IF unset(q.known[bad]) THEN "usage" ELSE "validation"

\* The values of the arguments, with "" when every one binds.
bindPositionals(args, given, vs) ==
  LET n == Len(args)
      variadic == n > 0 /\ args[n].variadic
      bound(i) == IF args[i].variadic THEN SubSeq(given, i, Len(given))
                  ELSE IF i <= Len(given) THEN <<given[i]>> ELSE <<>>
      taken == {i \in 1..n : bound(i) # <<>>}
  IN [err |-> IF \E i \in 1..n : args[i].required /\ bound(i) = <<>> THEN "missingArg"
              ELSE IF Len(given) > n /\ ~variadic THEN "usage" ELSE "",
      vals |-> [x \in {args[i].name : i \in taken} |->
                  bound(CHOOSE i \in taken : args[i].name = x)] @@ vs]

argValidate(args, vs) ==
  \A i \in DOMAIN args :
    (args[i].oneOf # {} /\ args[i].name \in DOMAIN vs) => ToSet(vs[args[i].name]) \subseteq args[i].oneOf

\* What parseArgs returns: the values and why it failed ("" when it did not).
parseEnd(T, q) ==
  LET c == Last(q.path)
      fromEnv == IF T[c].injected THEN <<q.vals>> ELSE flagApplyEnv(q.vals, q.known)
      flagErr == IF T[c].injected THEN "" ELSE FlagError(T, q, fromEnv[1])
      bind == bindPositionals(T[c].args, q.positional, fromEnv[1])
      fails(e) == [err |-> e, vals |-> q.vals]
  IN CASE q.stop # "" -> fails(q.stop)
       [] q.pend # Absent -> fails("usage")
       [] fromEnv = <<>> -> fails("usage")
       [] flagErr # "" -> fails(flagErr)
       [] Group(T, c) -> fails("missingSub")
       [] bind.err # "" -> fails(bind.err)
       [] ~argValidate(T[c].args, bind.vals) -> fails("validation")
       [] OTHER -> [err |-> "", vals |-> bind.vals]

----------------------------------------------------------------------------
(* Exec. *)

\* The middleware entered, outermost first, and then the handler.
composeHandler(T, path) ==
  LET c == Last(path) IN
  IF T[c].injected THEN <<c>>
  ELSE FlattenSeq([i \in DOMAIN path |-> T[path[i]].use]) \o <<c>>

RECURSIVE onlyCanceled(_)
onlyCanceled(e) ==
  CASE e.kind = "join" -> e.of # <<>> /\ \A i \in DOMAIN e.of : onlyCanceled(e.of[i])
    [] e.kind = "wrap" -> onlyCanceled(e.of[1])
    [] OTHER -> e.is = "canceled"

RECURSIVE Leaves(_)
Leaves(e) == IF e.of = <<>> THEN {e.is} ELSE UNION {Leaves(e.of[i]) : i \in DOMAIN e.of}

Sentinels == {"usage", "validation", "unknown", "missingArg", "missingSub"}

DefaultOnError(e) ==
  IF onlyCanceled(e) THEN 130
  ELSE IF Leaves(e) \cap Sentinels # {} THEN 2 ELSE 1

\* handler is the error the handler returns, should it be reached.
Exec(handler) ==
  /\ phase = "reading"
  /\ phase' = "done"
  /\ LET T == withInjectedCompletion(Trees[tree])
         res == parseEnd(T, p)
         c == Last(p.path)
     IN /\ p' = [p EXCEPT !.vals = res.vals]
        /\ failed' = CASE res.err \in {"help", "version"} -> NoError
                       [] res.err # "" -> Leaf(res.err)
                       [] ~T[c].run -> Leaf("usage")
                       [] OTHER -> handler
        /\ ran' = IF res.err = "" /\ T[c].run THEN composeHandler(T, p.path) ELSE <<>>
        /\ exit' = IF failed' = NoError THEN 0 ELSE DefaultOnError(failed')
  /\ UNCHANGED <<tree, env, line, w, offered>>

----------------------------------------------------------------------------
(* Completion. *)

\* walkPath, a word at a time; pend is the flag whose value the next word is.
walkWord(T, q, t) ==
  LET c == q.cmd
      sub == IF q.started THEN <<>> ELSE findSub(T, c, t.t)
      found == lookupFlagToken(q.known, t)
  IN CASE q.pend # Absent -> [q EXCEPT !.pend = Absent]
       [] t.k = "sep" -> [q EXCEPT !.started = TRUE, !.locked = TRUE]
       [] ~q.locked /\ isFlagToken(t) ->
            [q EXCEPT !.pend = IF t.v = Absent /\ found # <<>> /\ ~found[1].bool
                               THEN <<found[1]>> ELSE Absent]
       [] sub # <<>> -> [q EXCEPT !.cmd = sub[1], !.known = @ \o T[sub[1]].flags]
       [] OTHER -> [q EXCEPT !.started = TRUE, !.count = @ + 1,
                             !.locked = @ \/ commandHasVariadic(T, c)]

Text(s) == [k |-> "word", n |-> s, v |-> Absent, t |-> s]
Long(n) == [k |-> "long", n |-> n, v |-> Absent, t |-> "--" \o n]
Short(n) == [k |-> "short", n |-> n, v |-> Absent, t |-> "-" \o n]
Inline(n, s) == [k |-> "long", n |-> n, v |-> <<s>>, t |-> "--" \o n \o "=" \o s]

\* The values of the argument slot the word would fill.
SlotOffers(T, q) ==
  LET args == T[q.cmd].args IN
  CASE q.count < Len(args) -> args[q.count + 1].offers
    [] args # <<>> /\ Last(args).variadic -> Last(args).offers
    [] OTHER -> {}

Visible(known) == {known[i] : i \in {i \in DOMAIN known : ~known[i].hidden}}

SubOffers(T, q) ==
  IF q.started THEN {}
  ELSE UNION {{s} \cup ToSet(T[s].aliases) : s \in {s \in ToSet(T[q.cmd].subs) : ~T[s].hidden}}

runComplete(T, q, cur) ==
  LET inline == IF Len(cur) = 3 THEN findFlagLong(q.known, cur[2]) ELSE <<>>
      positionals == IF cur = <<>> THEN {Text(s) : s \in SubOffers(T, q) \cup SlotOffers(T, q)} ELSE {}
  IN CASE q.locked -> positionals
       [] inline # <<>> ->
            {Inline(cur[2], s) : s \in IF inline[1].bool THEN {"true", "false"} ELSE inline[1].oneOf}
       [] q.pend # Absent -> IF cur = <<>> THEN {Text(s) : s \in q.pend[1].oneOf} ELSE {}
       [] cur = <<"--">> -> {Long(f.name) : f \in Visible(q.known)}
       [] cur = <<"-">> -> {Long(f.name) : f \in Visible(q.known)}
                             \cup {Short(f.short) : f \in {f \in Visible(q.known) : f.short # ""}}
       [] OTHER -> positionals

Complete(cur) ==
  /\ phase = "reading"
  /\ phase' = "completed"
  /\ offered' = runComplete(withInjectedCompletion(Trees[tree]), w, cur)
  /\ UNCHANGED <<tree, env, line, p, w, ran, failed, exit>>

----------------------------------------------------------------------------

Read(t) ==
  /\ phase = "reading" /\ Len(line) < MaxWords
  /\ p.stop = ""   \* or no further word is looked at
  /\ line' = Append(line, t)
  /\ LET T == withInjectedCompletion(Trees[tree])
     IN p' = parseWord(T, p, t) /\ w' = walkWord(T, w, t)
  /\ UNCHANGED <<tree, env, phase, ran, failed, exit, offered>>

Init ==
  /\ tree \in DOMAIN Trees
  /\ env \in Envs
  /\ line = <<>> /\ phase = "reading" /\ ran = <<>> /\ exit = -1 /\ failed = NoError /\ offered = {}
  /\ LET T == withInjectedCompletion(Trees[tree]) IN
     /\ p = [path |-> <<"app">>, known |-> T["app"].flags, vals |-> <<>>, positional |-> <<>>,
             started |-> FALSE, locked |-> FALSE, rest |-> FALSE, pend |-> Absent,
             stop |-> IF validateArgsDecl(T, "app", <<>>) THEN "" ELSE "declaration"]
     /\ w = [cmd |-> "app", known |-> T["app"].flags, started |-> FALSE, locked |-> FALSE,
             count |-> 0, pend |-> Absent]

Next ==
  \/ \E t \in Words : Read(t)
  \/ \E e \in HandlerErrors : Exec(e)
  \/ \E cur \in Cursors : Complete(cur)

----------------------------------------------------------------------------
(* Properties. *)

Tree == withInjectedCompletion(Trees[tree])

Separators == Cardinality({i \in DOMAIN line : line[i].k = "sep"})

\* Where the walk is known to leave the parser: a second separator is a
\* positional to the parser and nothing to the walk, and --name= is completed
\* as a flag although the flag before it takes it for its value.
Apart == Separators > 1 \/ (p.pend # Absent /\ \E c \in offered : c.v # Absent)

\* Completion follows the parser: as long as the words before the cursor parse,
\* walkPath stands at the same command, flags, slot and pending flag, the parser
\* accepts every candidate runComplete emits, and a candidate for a positional
\* is one of the argument bindPositionals will give it to.
CompletionFollowsParser ==
  (p.stop = "" /\ phase # "done" /\ ~Apart) =>
    /\ w.cmd = Last(p.path) /\ w.known = p.known /\ w.pend = p.pend
    /\ w.count = Len(p.positional) /\ (w.locked <=> p.locked \/ p.rest)
    /\ \A c \in offered :
         LET q == parseWord(Tree, p, c)
             args == Tree[Last(q.path)].args
             at == Len(q.positional)
         IN /\ q.stop = ""
            /\ at > Len(p.positional) =>
                 /\ args # <<>>
                 /\ c.t \in args[IF at <= Len(args) THEN at ELSE Len(args)].offers

\* A handler is entered only through the middleware of its whole path, root
\* first, and only with an unambiguous set of flags, every required flag and
\* argument given - on the line, in the environment or by default, inherited
\* flags included - and every restricted value among the allowed ones. The exit
\* code is what Exec documents of the error that came back.
HandlerGetsValidInput ==
  LET c == Last(p.path) known == p.known args == Tree[c].args IN
  /\ (ran # <<>> /\ ~Tree[c].injected) =>
       /\ \A i, j \in DOMAIN known : i # j => known[i].name # known[j].name
       /\ \A i \in DOMAIN known :
            LET f == known[i] val == IF f.name \in DOMAIN p.vals THEN p.vals[f.name] ELSE f.default IN
            /\ f.required => val # <<>>
            /\ f.oneOf # {} => ToSet(val) \subseteq f.oneOf
            /\ (f.name \notin DOMAIN p.vals /\ f.env # "") => f.env \notin DOMAIN env
       /\ \A i \in DOMAIN args : args[i].required => args[i].name \in DOMAIN p.vals
       /\ \A i \in DOMAIN p.path, m \in UNION {ToSet(Tree[d].use) : d \in ToSet(p.path)} :
            m \in ToSet(Tree[p.path[i]].use) =>
              \E k \in 1..(Len(ran) - 1) :
                 /\ ran[k] = m
                 /\ \A j \in 1..(k - 1) : \E h \in 1..i : ran[j] \in ToSet(Tree[p.path[h]].use)
  /\ phase = "done" =>
       /\ exit = 130 <=> Leaves(failed) = {"canceled"}
       /\ exit = 2 <=> Leaves(failed) \cap Sentinels # {}
       /\ exit = 0 <=> failed = NoError
============================================================================
