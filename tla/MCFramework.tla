---------------------------- MODULE MCFramework ----------------------------
(***************************************************************************)
(* The framework around an application - what serves its requests and       *)
(* assets, and what generates its wiring - each part in a small instance. A *)
(* behaviour is a behaviour of one of them: part names it and the slots v1, *)
(* v2, ... hold its variables.                                              *)
(***************************************************************************)
EXTENDS Integers, Sequences, SequencesExt

CONSTANTS None

VARIABLES part, v1, v2, v3, v4, v5, v6, v7, v8, v9, v10, v11, v12, v13, v14, v15

vars == <<part, v1, v2, v3, v4, v5, v6, v7, v8, v9, v10, v11, v12, v13, v14, v15>>

from15 == v15
from14 == <<v14, from15>>
from13 == <<v13, from14>>
from12 == <<v12, from13>>
from11 == <<v11, from12>>
from10 == <<v10, from11>>
from9 == <<v9, from10>>
from8 == <<v8, from9>>
from7 == <<v7, from8>>
from6 == <<v6, from7>>
from5 == <<v5, from6>>
from4 == <<v4, from5>>
from3 == <<v3, from4>>
from2 == <<v2, from3>>

Unused15 == v15 = None
Unused14 == v14 = None /\ Unused15
Unused13 == v13 = None /\ Unused14
Unused12 == v12 = None /\ Unused13
Unused11 == v11 = None /\ Unused12
Unused10 == v10 = None /\ Unused11
Unused9 == v9 = None /\ Unused10
Unused8 == v8 = None /\ Unused9
Unused7 == v7 = None /\ Unused8
Unused6 == v6 = None /\ Unused7
Unused5 == v5 = None /\ Unused6
Unused4 == v4 = None /\ Unused5
Unused3 == v3 = None /\ Unused4
Unused2 == v2 = None /\ Unused3

----------------------------------------------------------------------------
(* The web. *)

Order == <<"logger", "recover", "session", "limited", "hook", "adapter">>
Stacks == {s \in {SelectSeq(Order, LAMBDA k : k \in K) : K \in SUBSET ToSet(Order)} :
             ~({"limited", "hook"} \subseteq ToSet(s))}

Wri == INSTANCE Responses WITH stack <- v1, commitErr <- v2, offers <- v3, x <- v4, pc <- v5,
         at <- v6, outcome <- v7, ops <- v8,
         Statuses <- {200, 404}, OfferSets <- {{}, {"flush", "hijack", "readFrom"}}, MaxOps <- 2,
         produced <- None, closed <- None, taken <- None, gone <- None, stalled <- None,
         deadline <- None, frame <- None, sent <- None, Initial <- 0, MaxEvents <- 0

Rou == INSTANCE Router WITH heap <- v1, scopes <- v2, entries <- v3, global <- v4, hooks <- v5,
         sealed <- v6, built <- v7, handler <- v8, mu <- v9, req <- v10, ops <- v11,
         Requests <- {"q1", "q2"}, Added <- {2}, Own <- {1}, MaxOps <- 4

(* Assets. *)

\* The transaction and the downloads, apart: a transaction takes what was downloaded
\* from Resolutions.
Ven == INSTANCE Vendor WITH disk <- v1, durable <- v2, mem <- v3, call <- v4, ops <- v5,
         edited <- v6, adopted <- v7,
         Versions <- {1, 2}, Deps <- [a |-> {"b"}, b |-> {}], MaxOps <- 3,
         size <- None, published <- None, job <- None, dispatch <- None, canceled <- None,
         firstErr <- None, totalSourceBytes <- None, totalPublishedBytes <- None, staged <- None, outcome <- None,
         Count <- 0, Sizes <- {}, Growth <- {}, vendorDownloadConcurrency <- 0, MaxPackageBytes <- 0,
         MaxResolutionBytes <- 0

Fet == INSTANCE Vendor WITH size <- v1, published <- v2, job <- v3, dispatch <- v4,
         canceled <- v5, firstErr <- v6, totalSourceBytes <- v7, totalPublishedBytes <- v8,
         staged <- v9, outcome <- v10,
         Count <- 3, Sizes <- {1, 2}, Growth <- {0, 1}, vendorDownloadConcurrency <- 2,
         MaxPackageBytes <- 2, MaxResolutionBytes <- 4,
         disk <- None, durable <- None, mem <- None, call <- None, ops <- None, edited <- None, adopted <- None,
         Versions <- {}, Deps <- <<>>, MaxOps <- 0

Pla == INSTANCE AssetPlan WITH tree <- v1, edits <- v2,
         Targets <- <<{2, 3, 4}, {1, 2, 3}, {0, 1, 2}>>, Bare <- <<{}, {3}, {}>>, Others <- {4},
         Missing <- 0

(* Storage. *)

Blo == INSTANCE BlobStorage WITH backend <- v1, fs <- v2, tmp <- v3, readers <- v4, writer <- v5,
         op <- v6, started <- v7, crashed <- v8,
         Ops <- {"o1", "o2"}, Keys <- {<<"a">>, <<"a", "b", "c">>, <<"e", "f">>}, MaxOps <- 3

S3s == INSTANCE S3Store WITH call <- v1, spool <- v2, body <- v3, timer <- v4, canceled <- v5,
         list <- v6, asked <- v7,
         Tokens <- {"t", "u"}, MaxSpoolBytes <- 3, MaxListPages <- 4, MaxInt <- 4,
         Lengths <- {0, 2, 3, 4},
         doc <- v8, sawRoot <- v9, open <- v10, inContents <- v11, field <- v12,
         entries <- v13, entry <- v14, outcome <- v15,
         Names <- {"ListBucketResult", "Contents", "Key", "IsTruncated"}, MaxListXMLDepth <- 4,
         MaxListEntries <- 1, MaxTokens <- 7

(* The generator. *)

Gra == INSTANCE GenGraph WITH src <- v1, ran <- v2, found <- v3, Names <- {"a", "b"}

\* Four nodes at most, in the order they are emitted, in two commands.
AB == {"A", "B"}
Fra == INSTANCE GenBodies WITH nodes <- v1, roots <- v2, stage <- v3, regions <- v4, steps <- v5,
         Flows <- <<"A", "B">>,
         KindsAt <- <<{"prelude", "config", "anon"}, {"config", "hook", "named"},
                      {"hook", "named", "anon"}, {"named", "anon"}>>,
         UsagesAt <- <<{AB}, {AB}, {AB, {"A"}}, {AB, {"B"}}>>,
         MaxIns <- 1, MaxOuts <- 1, MaxDiscarded <- 0,
         blocks <- None, Inputs <- {}, layoutBlockMax <- 0, hubFanout <- 0

\* Three nodes that may read each other in any way, and four that read earlier ones.
Node(u, p, b, g, fl, l) == [uses |-> u, phase |-> p, batch |-> b, group |-> g, file |-> fl, line |-> l]
Rings == {[i \in 1..3 |-> Node(us[i], ps[i], 0, 0, 1, 20 * i)] :
            us \in [1..3 -> SUBSET (1..3)], ps \in [1..3 -> {1, 2}]}
Chains == {[i \in 1..4 |-> Node(us[i], IF i = 4 THEN p ELSE 1, bs[i], IF i \in {1, 4} THEN g ELSE 0,
                                 IF i = 2 THEN 2 ELSE 1, ls[i])] :
             us \in {us \in [1..4 -> SUBSET (1..3)] : \A i \in 1..4 : us[i] \subseteq 1..(i - 1)},
             bs \in [1..4 -> {0, 1}], g \in {0, 1}, p \in {1, 2},
             ls \in {<<9, 50, 30, 1>>, <<1, 2, 50, 50>>}}
Lay == INSTANCE GenBodies WITH nodes <- v1, stage <- v2, blocks <- v3,
         Inputs <- {r \in Rings : \A i, j \in 1..3 :
                       j \in r[i].uses => (i # j /\ r[j].phase <= r[i].phase)} \cup Chains,
         layoutBlockMax <- 2, hubFanout <- 2,
         roots <- None, regions <- None, steps <- None, Flows <- <<>>, KindsAt <- <<>>,
         UsagesAt <- <<>>, MaxIns <- 0, MaxOuts <- 0, MaxDiscarded <- 0

\* Two types, a path and a singleton, in two commands.
Res == INSTANCE GenResolve WITH deps <- v1, own <- v2, roots <- v3, stage <- v4, flow <- v5, todo <- v6,
         stack <- v7, binds <- v8, pathExprs <- v9, scratch <- v10, diagnosed <- v11, fatal <- v12,
         uses <- v13, edges <- v14, store <- v15,
         Demands <- {"a", "b", "p", "s"},
         Kind <- [a |-> "type", b |-> "type", p |-> "path", s |-> "singleton"],
         Asks <- {<<>>, <<"p">>, <<"b", "s">>, <<"p", "b">>, <<"s", "p">>, <<"a">>},
         Roots <- {<<"a">>, <<"b">>, <<"b", "p">>}, Flows <- <<"A", "B">>,
         Singleton <- "s", EpilogueAsks <- <<"p">>


(* The command line: a tree of groups and aliases with a required, inherited flag; one     *)
(* that declares a flag twice; one with a variadic root, a bad default and a hidden branch. *)

Flag(n, sh, b) ==
  [name |-> n, short |-> sh, bool |-> b, slice |-> FALSE, required |-> FALSE, default |-> <<>>, env |-> "",
   hidden |-> FALSE, accepts |-> IF b THEN {"true", "false"} ELSE {}, oneOf |-> {}]
Positional(n, req, var, offers) ==
  [name |-> n, required |-> req, variadic |-> var, slice |-> var, offers |-> offers,
   oneOf |-> IF var THEN {} ELSE offers]
Cmd(fs, as, ss, r, u) ==
  [aliases |-> <<>>, flags |-> fs, args |-> as, subs |-> ss, run |-> r, version |-> FALSE, use |-> u,
   hidden |-> FALSE, injected |-> FALSE]
ModeFlag == [Flag("mode", "m", FALSE) EXCEPT !.required = TRUE, !.env = "MODE", !.oneOf = {"x", "y"}]
TagFlag == [Flag("tag", "", FALSE) EXCEPT !.slice = TRUE, !.accepts = {"x", "y", "1"}]
Grouped ==
  [app |-> [Cmd(<<Flag("v", "v", TRUE), ModeFlag>>, <<>>, <<"serve", "db">>, FALSE, <<"m1">>)
              EXCEPT !.version = TRUE],
   serve |-> [Cmd(<<TagFlag>>, <<Positional("a", TRUE, FALSE, {"x", "1"}), Positional("b", FALSE, FALSE, {"y"})>>,
                  <<>>, TRUE, <<"m2">>) EXCEPT !.aliases = <<"s">>],
   db |-> Cmd(<<>>, <<>>, <<"up">>, FALSE, <<"m3">>),
   up |-> Cmd(<<[Flag("n", "", FALSE) EXCEPT !.default = <<"9">>, !.oneOf = {"9", "1"}]>>,
              <<Positional("rest", FALSE, TRUE, {"x"})>>, <<>>, TRUE, <<"m4", "m5">>)]
Twice ==
  [app |-> Cmd(<<Flag("v", "v", TRUE)>>, <<>>, <<"s">>, TRUE, <<>>),
   s |-> Cmd(<<Flag("v", "", TRUE)>>, <<>>, <<>>, TRUE, <<>>)]
Variadic ==
  [app |-> Cmd(<<Flag("v", "v", TRUE),
                 [ModeFlag EXCEPT !.oneOf = {"1"}, !.required = FALSE, !.default = <<"x">>]>>,
               <<Positional("a", TRUE, FALSE, {"x"}), Positional("b", FALSE, TRUE, {"y"})>>, <<"s">>, TRUE, <<"m1">>),
   s |-> [Cmd(<<Flag("w", "w", TRUE)>>, <<>>, <<>>, FALSE, <<>>) EXCEPT !.hidden = TRUE]]
Plain(s) == [k |-> "word", n |-> s, v |-> <<>>, t |-> s]
Dashed(k, d, n) == [k |-> k, n |-> n, v |-> <<>>, t |-> d \o n]
Failure(k, es, is) == [kind |-> k, of |-> es, is |-> is]
Canceled == Failure("leaf", <<>>, "canceled")
Cli == INSTANCE Cli WITH tree <- v1, env <- v2, line <- v3, p <- v4, w <- v5, phase <- v6, ran <- v7,
         failed <- v8, exit <- v9, offered <- v10,
         Trees <- <<Grouped, Twice, Variadic>>,
         Words <- {Dashed("sep", "--", "")} \cup {Plain(s) : s \in {"s", "db", "up", "x", "__complete"}}
                    \cup {Dashed("long", "--", s) : s \in {"help", "version", "mode", "tag"}}
                    \cup {Dashed("short", "-", "v"), [Dashed("long", "--", "mode") EXCEPT !.v = <<"x">>, !.t = "--mode=x"]},
         Envs <- {<<>>, [MODE |-> "x"], [MODE |-> "z"]},
         HandlerErrors <- {Failure("none", <<>>, "none"), Failure("leaf", <<>>, "plain"),
                           Failure("join", <<Canceled, Failure("wrap", <<Canceled>>, "wrap")>>, "join"),
                           Failure("join", <<Canceled, Failure("leaf", <<>>, "usage")>>, "join")},
         Cursors <- {<<>>, <<"-">>, <<"--">>, <<"--", "mode", "=">>, <<"--", "v", "=">>},
         MaxWords <- 4

(* The router's directives: three middlewares under every option, declared *)
(* in and against the order they load in, and routes with groups, chains    *)
(* and hooks.                                                               *)

Mw(n, p) == [kind |-> "mw", pos |-> p, target |-> IF p = 2 THEN "constructor" ELSE "middleware",
             name |-> n, global |-> TRUE, requires |-> <<>>, after |-> <<>>, before |-> <<>>,
             afterAll |-> FALSE, beforeAll |-> FALSE]
MwOptions(d, X) ==
  {d, [d EXCEPT !.beforeAll = TRUE], [d EXCEPT !.afterAll = TRUE], [d EXCEPT !.global = FALSE]}
  \cup {[d EXCEPT !.requires = <<x>>] : x \in X} \cup {[d EXCEPT !.after = <<x>>] : x \in X}
  \cup {[d EXCEPT !.before = <<x>>] : x \in X}
  \cup {[d EXCEPT !.requires = <<x>>, !.afterAll = TRUE] : x \in X \ {"z"}}
ThreeGlobals(p, q, r) ==
  {<<a, b, c>> : a \in MwOptions(Mw("a", p), {"a", "b", "c"}),
                 b \in MwOptions(Mw("b", q), {"a", "c", "z"}), c \in MwOptions(Mw("c", r), {"a", "b"})}

Scoped(n, p, req) == [Mw(n, p) EXCEPT !.global = FALSE, !.requires = req, !.target = "constructor"]
Http(p, m, path, recv, refs) ==
  [kind |-> "http", pos |-> p, target |-> "handler", method |-> m, path |-> path, recv |-> recv, refs |-> refs]
Handle(p, path, recv, refs) ==
  [kind |-> "handle", pos |-> p, target |-> "factory", path |-> path, recv |-> recv, refs |-> refs]
Hook(p, m, d) == [kind |-> "hook", pos |-> p, target |-> "handler", method |-> m, directive |-> d]
Static(p, path) == [kind |-> "static", pos |-> p, target |-> "embed", path |-> path]
GroupOn(p, path, refs) ==
  [kind |-> "group", pos |-> p, target |-> "struct", type |-> "T", path |-> path, refs |-> refs]
RouteInputs ==
  {<<x, y, Scoped("a", 3, <<>>), Scoped("b", 4, req), Mw("c", 5), g, h>> :
     req \in {<<>>, <<"a">>, <<"c">>},
     x \in {Http(1, "GET", path, recv, refs) : path \in {<<"x">>, <<"*">>, <<"$">>}, recv \in {"", "T"},
              refs \in {<<>>, <<"b">>, <<"a", "b">>, <<"b", "a">>}},
     y \in {Handle(2, <<"x">>, "T", <<>>), Handle(2, <<"*">>, "", <<"b">>),
            Http(2, "GET", <<"x">>, "T", <<>>), Http(2, "POST", <<"*">>, "", <<"a", "c">>)},
     g \in {GroupOn(6, <<"g">>, r) : r \in {<<>>, <<"a">>}},
     h \in {Hook(7, "NotFound", "http:notfound"), Static(7, <<"g", "">>), GroupOn(7, <<"h">>, <<>>)}}
  \cup {<<Hook(1, "NotFound", "http:notfound"), Hook(2, m, "web:notfound")>> :
           m \in {"NotFound", "MethodNotAllowed"}}
  \cup {<<d>> : d \in {Http(1, m, p, "", r) : m \in {"GET", "get"}, p \in {<<"x", "*">>, <<"**", "x">>, <<"x", "$">>},
                                             r \in {<<>>, <<"?">>}}
                     \cup {[GroupOn(1, <<"g", e>>, <<>>) EXCEPT !.target = t] : e \in {"**", "*"}, t \in {"struct", "int"}}
                     \cup {[Static(1, <<e>>) EXCEPT !.target = t] : e \in {"", "*", "g"}, t \in {"embed", "handler"}}
                     \cup {[Mw("", 1) EXCEPT !.global = g, !.before = b, !.target = t] :
                             g \in BOOLEAN, b \in {<<>>, <<"?">>}, t \in {"middleware", "handler"}}
                     \cup {[Handle(1, <<"x">>, "", <<>>) EXCEPT !.target = "embed"],
                           [Hook(1, "NotFound", "http:notfound") EXCEPT !.target = "embed"]}}

Rdi == INSTANCE RouteDirectives WITH items <- v1, phase <- v2, at <- v3, decls <- v4, globals <- v5,
         used <- v6, groups <- v7, routes <- v8, hooks <- v9, deferred <- v10, bundle <- v11,
         nodes <- v12, errors <- v13, warnings <- v14,
         Inputs <- ThreeGlobals(1, 2, 3) \cup ThreeGlobals(2, 3, 1) \cup RouteInputs,
         Demanding <- {1}, Segments <- {"", "x", "g", "z"}


(* The command line's directives: flags on root, group and command in every *)
(* order; arguments; names and aliases of siblings; middleware on every     *)
(* level; and declarations that are malformed or misplaced.                 *)

CommandDecl(p, path, params) ==
  [kind |-> "command", pos |-> p, decl |-> p, fn |-> "up", path |-> path, aliases |-> <<>>, mws |-> <<>>,
   params |-> params, target |-> "command"]
GroupDecl(p, path) ==
  [kind |-> "group", pos |-> p, decl |-> p, path |-> path, aliases |-> <<>>, mws |-> <<>>, target |-> "sentinel"]
RootDecl(p, version) ==
  [kind |-> "root", pos |-> p, decl |-> p, version |-> version, mws |-> <<>>, target |-> "sentinel"]
FlagDecl(p, of, n, short) ==
  [kind |-> "flag", pos |-> p, decl |-> of, name |-> n, type |-> "bool", short |-> short, required |-> FALSE,
   def |-> "", values |-> <<>>, variadic |-> FALSE]
ArgDecl(p, of, n, req, def, variadic) ==
  [FlagDecl(p, of, n, "") EXCEPT !.kind = "argument", !.type = IF variadic THEN "strings" ELSE "string",
     !.required = req, !.def = def, !.variadic = variadic]
MwDecl(p, n, req) == [kind |-> "middleware", pos |-> p, name |-> n, requires |-> req, target |-> "middleware"]
Param(n, t) == [name |-> n, type |-> t]

FlagInputs ==
  {q \o <<fr, fg, fc>> :
     q \in {<<r, g, c>> : r \in {RootDecl(1, v) : v \in BOOLEAN}, g \in {GroupDecl(2, <<"db">>)},
                          c \in {CommandDecl(3, p, ps) : p \in {<<"db", "x">>, <<"x">>, <<"db">>},
                                   ps \in {<<Param("a", "bool")>>, <<Param("dep", "T"), Param("b", "bool"), Param("a", "bool")>>,
                                           <<Param("a", "*string"), Param("b", "bool")>>}}}
           \cup {<<CommandDecl(3, <<"db", "x">>, ps), GroupDecl(2, <<"db">>), RootDecl(1, FALSE)>> :
                   ps \in {<<Param("a", "bool"), Param("b", "bool")>>, <<Param("b", "bool"), Param("dep", "T")>>,
                           <<Param("version", "bool"), Param("a", "bool"), Param("a", "bool")>>}},
     fr \in {FlagDecl(4, 1, n, s) : n \in {"a", "version"}, s \in {"", "y"}},
     fg \in {FlagDecl(5, 2, n, s) : n \in {"a", "b"}, s \in {"", "y"}},
     fc \in {FlagDecl(6, 3, n, s) : n \in {"a", "b"}, s \in {"", "y"}} \cup {FlagDecl(6, 2, "c", "y")}}

ArgInputs ==
  {<<CommandDecl(1, <<"x">>, <<Param("a", "string"), Param("b", t), Param("c", u)>>),
     ArgDecl(2, 1, "a", r[1], r[2], FALSE), b, c>> :
     t \in {"string", "[]string"}, u \in {"string", "[]string"},
     r \in {<<TRUE, "">>, <<FALSE, "d">>, <<FALSE, "">>},
     b \in {ArgDecl(3, 1, "b", q, d, v) : q \in BOOLEAN, d \in {"", "d"}, v \in BOOLEAN},
     c \in {ArgDecl(4, 1, "c", q, d, v) : q \in BOOLEAN, d \in {"", "d"}, v \in BOOLEAN}}

SiblingInputs ==
  {<<[CommandDecl(1, p, <<>>) EXCEPT !.aliases = s], [CommandDecl(2, q, <<>>) EXCEPT !.aliases = t],
     [GroupDecl(3, g) EXCEPT !.aliases = u]>> :
     p \in {<<>>, <<"a">>, <<"a", "b">>}, q \in {<<"b">>, <<"a", "b">>},
     g \in {<<"a">>, <<"c", "a">>}, s \in {<<>>, <<"b">>, <<"c">>, <<"completion">>},
     t \in {<<>>, <<"a", "d">>, <<"c">>}, u \in {<<>>, <<"b">>, <<"d">>}}

LevelInputs ==
  {<<c, [GroupDecl(2, <<"db">>) EXCEPT !.mws = g], [RootDecl(3, FALSE) EXCEPT !.mws = r],
     [CommandDecl(4, <<"db", "x", "y">>, <<>>) EXCEPT !.mws = d], MwDecl(5, "m", <<"n">>), MwDecl(6, "n", q)>> :
     c \in {[CommandDecl(1, <<"db", "x">>, <<>>) EXCEPT !.mws = s] : s \in {<<>>, <<"m">>, <<"m", "n">>, <<"n", "m">>}},
     g \in {<<>>, <<"m">>, <<"n">>}, r \in {<<>>, <<"n">>, <<"z">>}, d \in {<<>>, <<"m">>, <<"n">>}, q \in {<<>>, <<"z">>}}

OddInputs ==
  {<<d>> : d \in {[FlagDecl(1, 1, "a", s) EXCEPT !.type = t, !.def = x, !.values = v] :
                    s \in {"", "h", "?"}, t \in {"string", "int", "time", "none"}, x \in {"", "bad"}, v \in {<<>>, <<"bad">>}}
                 \cup {[CommandDecl(1, <<"?">>, <<>>) EXCEPT !.mws = <<"m">>], [CommandDecl(1, <<>>, <<>>) EXCEPT !.fn = "?"],
                       [CommandDecl(1, <<>>, <<>>) EXCEPT !.target = "method"], [GroupDecl(1, <<"a">>) EXCEPT !.target = "exported"],
                       [RootDecl(1, TRUE) EXCEPT !.mws = <<"?">>], [MwDecl(1, "m", <<>>) EXCEPT !.target = "method"]}}
  \cup {<<a, b>> : a \in {RootDecl(1, FALSE), MwDecl(1, "m", <<>>), GroupDecl(1, <<"a">>)},
                   b \in {RootDecl(2, FALSE), MwDecl(2, "m", <<>>), GroupDecl(2, <<"a">>), ArgDecl(2, 1, "c", TRUE, "", FALSE),
                          [kind |-> "example", pos |-> 2, decl |-> 1]}}
  \cup {<<CommandDecl(1, <<>>, <<Param(n, t)>>), [FlagDecl(2, 1, n, "") EXCEPT !.type = u]>> :
           n \in {"s", "selected"}, t \in {"string", "time.Time", "[]int"}, u \in {"string", "time", "ints"}}

Cdi == INSTANCE CliDirectives WITH items <- v1, phase <- v2, at <- v3, inputs <- v4, commands <- v5,
         groups <- v6, root <- v7, middlewares <- v8, consumed <- v9, referenced <- v10, declared <- v11,
         values <- v12, tree <- v13, errors <- v14, warnings <- v15,
         Inputs <- FlagInputs \cup ArgInputs \cup SiblingInputs \cup LevelInputs \cup OddInputs,
         Provided <- {"time.Time"}, Selected <- {<<1, "selected">>}

\* Declarations of the dependency graph.
CoreP(ident, type) == [ident |-> ident, type |-> type, exported |-> TRUE]
CoreProvider(obj, name, type, params) ==
  [dir |-> "provider", obj |-> obj, fits |-> TRUE, results |-> "error", name |-> name, case |-> "", type |-> type, params |-> params]
CoreCase(obj, case, type, params) == [CoreProvider(obj, "", type, params) EXCEPT !.case = case]
CoreSelect(type, key) == [dir |-> "select", fits |-> TRUE, type |-> type, key |-> key]
CoreConfig(type, section, fields) == [dir |-> "config", fits |-> TRUE, type |-> type, section |-> section, fields |-> fields]
CoreHook(obj, params) == [dir |-> "hook", obj |-> obj, fits |-> TRUE, params |-> params]
CoreCommand(obj, params) == [dir |-> "command", obj |-> obj, params |-> params]
CoreHandler(type, members) == [dir |-> "handler", obj |-> type, type |-> type, members |-> members]
CoreInject(d, of, selector, name) ==
  [dir |-> "inject", obj |-> d.obj, of |-> of, type |-> d.obj, selector |-> selector, name |-> name,
   members |-> IF of = "struct" THEN d.members ELSE d.params]

CorePtr(n) == [name |-> n, ptr |-> TRUE]
CoreVal(n) == [name |-> n, ptr |-> FALSE]
CoreCtx == CoreP("ctx", CoreVal("context.Context"))
CoreImplements == {<<CorePtr("Mem"), CoreVal("Store")>>, <<CorePtr("Disk"), CoreVal("Store")>>, <<CorePtr("Disk"), CoreVal("Log")>>}

DBNew == CoreProvider("NewDB", "", CorePtr("DB"), <<CoreCtx>>)
DBReplica == CoreProvider("NewReplica", "replica", CorePtr("DB"), <<>>)
DBAgain == CoreProvider("OtherDB", "", CorePtr("DB"), <<>>)
Svc == CoreProvider("NewSvc", "", CorePtr("Svc"), <<CoreP("db", CorePtr("DB"))>>)
SvcLoop == CoreProvider("NewDBOfSvc", "", CorePtr("DB"), <<CoreP("s", CorePtr("Svc"))>>)
Serve == CoreCommand("Serve", <<CoreP("svc", CorePtr("Svc"))>>)
Dump == CoreCommand("Dump", <<CoreP("db", CorePtr("DB"))>>)
InjSvc == CoreInject(Svc, "func", "db", "replica")
InjDump == CoreInject(Dump, "func", "db", "replica")
InjCtx == CoreInject(DBNew, "func", "ctx", "replica")

Str(def) == [string |-> TRUE, def |-> def]
CfgStore == CoreConfig("Cfg", "store", (<<"kind">> :> Str("mem")) @@ (<<"size">> :> [string |-> FALSE, def |-> ""]))
CfgWhole == CoreConfig("All", "", (<<"store", "kind">> :> Str("")))
SelStore == CoreSelect(CoreVal("Store"), <<"store", "kind">>)
SelSize == CoreSelect(CoreVal("Store"), <<"store", "size">>)
SelLog == CoreSelect(CoreVal("Log"), <<"store", "kind">>)
MemCase == CoreCase("NewMem", "mem", CorePtr("Mem"), <<CoreP("c", CorePtr("Cfg"))>>)
DiskCase == CoreCase("NewDisk", "disk", CorePtr("Disk"), <<CoreCtx, CoreP("a", CorePtr("All"))>>)
DiskAsMem == CoreCase("NewDisk2", "mem", CorePtr("Disk"), <<>>)
StoreNew == CoreProvider("NewStore", "", CoreVal("Store"), <<>>)
StoreNamed == CoreProvider("NewStore2", "replica", CoreVal("Store"), <<>>)
CfgNew == CoreProvider("NewCfg", "", CorePtr("Cfg"), <<>>)
UseStore == CoreCommand("Use", <<CoreP("s", CoreVal("Store"))>>)
UseCfg == CoreCommand("Show", <<CoreP("c", CorePtr("Cfg"))>>)
LogHook == CoreHook("Setup", <<CoreCtx, CoreP("c", CorePtr("Cfg"))>>)
BadHook == CoreHook("Setup2", <<CoreCtx, CoreP("c", CorePtr("Cfg")), CoreP("d", CorePtr("Cfg"))>>)
DBHook == CoreHook("Setup", <<CoreCtx, CoreP("d", CorePtr("DB"))>>)
InjHook == CoreInject(DBHook, "func", "d", "replica")
Pages == CoreHandler("Pages", <<CoreP("DB", CorePtr("DB")), [CoreP("svc", CorePtr("Svc")) EXCEPT !.exported = FALSE]>>)
InjPages == CoreInject(Pages, "struct", "DB", "replica")
InjHidden == CoreInject(Pages, "struct", "svc", "replica")
PagesNew == CoreProvider("NewPages", "", CoreVal("Pages"), <<>>)
UsePages == CoreCommand("Open", <<CoreP("p", CorePtr("Pages"))>>)

OddProvider == [Svc EXCEPT !.results = "other"]
OddCase == [MemCase EXCEPT !.results = "cleanup"]
OddName == [DBReplica EXCEPT !.name = "?"]
OddSelect == [SelStore EXCEPT !.fits = FALSE]
OddInject == CoreInject(Svc, "func", "dba", "replica")
SecondInject == [InjSvc EXCEPT !.name = "main"]

\* Every order of every part of each group of declarations.
CorePools == {
  {DBNew, DBReplica, Svc, Serve, InjSvc},
  {DBNew, DBReplica, Dump, InjDump, InjCtx},
  {DBNew, DBAgain, Svc, SvcLoop, Serve},
  {CfgStore, SelStore, MemCase, DiskAsMem, UseStore},
  {CfgStore, SelStore, MemCase, StoreNamed, UseStore},
  {CfgWhole, SelStore, DiskCase, SelLog, UseStore},
  {CfgStore, SelSize, MemCase, CfgWhole, UseStore},
  {CfgStore, LogHook, BadHook, CfgNew, UseCfg},
  {DBNew, DBHook, InjHook, DBReplica, Dump},
  {DBReplica, DBNew, Pages, InjPages, UsePages},
  {DBReplica, Pages, InjPages, PagesNew, UsePages},
  {DBNew, Pages, Svc, InjHidden, Serve},
  {CfgStore, LogHook, DBHook, OddCase, OddSelect},
  {DBReplica, Svc, InjSvc, SecondInject, Serve},
  {DBNew, OddProvider, OddName, OddInject, Svc}}
CoreOrders(S) == UNION {{s \in [1 .. n -> S] : \A i, j \in 1 .. n : s[i] = s[j] => i = j} : n \in 0 .. Cardinality(S)}
CoreInputs == UNION {CoreOrders(S) : S \in CorePools}

Cor == INSTANCE CoreDirectives WITH
         Inputs <- CoreInputs, Implements <- CoreImplements,
         items <- v1, phase <- v2, at <- v3, seen <- v4, caseNodes <- v5, groups <- v6, configs <- v7,
         hooks <- v8, injects <- v9, lazy <- v10, scopes <- v11, used <- v12, run <- v13, fatal <- v14,
         warnings <- v15

(* The jobs' directives: up to three of these, in every order. *)

JobDecl(fn, name, kind, msg, deps) ==
  [dir |-> "job", fn |-> fn, fits |-> TRUE, name |-> name, kind |-> kind, msg |-> msg, deps |-> deps]
CronDecl(name, deps) == [dir |-> "cron", fits |-> TRUE, name |-> name, schedule |-> "valid", deps |-> deps]
JobPool == {
  JobDecl("A", "", 0, "T", {"DB"}), JobDecl("B", "", 0, "T", {"*jobs.Manager"}), JobDecl("C", "A", 1, "T", {}),
  JobDecl("D", "", 2, "U", {}), JobDecl("E", "", 0, "U", {}), JobDecl("F", "", 0, "Root", {}),
  JobDecl("G", "", 1, "Root", {}), JobDecl("H", "?", 0, "T", {}), JobDecl("I", "", -1, "T", {}),
  CronDecl("n", {"DB"}), CronDecl("n", {}), CronDecl("m", {"*jobs.Runner"}),
  [CronDecl("m", {}) EXCEPT !.schedule = "odd"]}
JobInputs ==
  {[decls |-> ds, provided |-> p, flows |-> fs] :
     ds \in UNION {{s \in [1 .. n -> JobPool] : IsInjective(s)} : n \in 0 .. 3},
     p \in {{"DB", "jobs.Store"}, {"DB", "jobs.Store", "jobs.Config", "jobs.RuntimeConfig"}},
     fs \in {<<>>, <<{"*jobs.Manager"}, {"DB", "*jobs.Runner"}>>}}
  \cup {[decls |-> ds, provided |-> p, flows |-> fs] :
     ds \in [1 .. 2 -> JobPool], p \in {{}, {"jobs.Store"}, {"DB", "jobs.Store", "*jobs.Manager"}},
     fs \in {<<{}>>, <<{"*jobs.Manager"}>>, <<{"*jobs.Runner"}, {}>>}}
  \cup {[decls |-> <<>>, provided |-> {"DB"}, flows |-> <<fs>>] : fs \in {{"DB"}, {"*jobs.Manager"}}}

Job == INSTANCE JobDirectives WITH
         Inputs <- JobInputs, DerivedKind <- [T |-> 2, U |-> 3, Root |-> 0],
         input <- v1, phase <- v2, at <- v3, jobs <- v4, crons <- v5, registered <- v6, nodes <- v7,
         config <- v8, fatal <- v9

(* The output directory: one generated file, or a main file and fragments. *)

Gfi == INSTANCE GenFiles WITH disk <- v1, durable <- v2, call <- v3, ops <- v4, last <- v5, written <- v6,
         pruned <- v7, drifted <- v8, partial <- v9, harmed <- v10,
         Names <- 1 .. 3, Edits <- {"edited"}, MaxOps <- 3,
         Sets <- {[files |-> <<"x", None, None>>, split |-> FALSE],
                  [files |-> <<"y", "x", None>>, split |-> TRUE],
                  [files |-> <<"x", None, "y">>, split |-> TRUE]}

----------------------------------------------------------------------------

Init ==
  \/ part = "writers" /\ Wri!Init /\ Unused9
  \/ part = "router" /\ Rou!Init /\ Unused12
  \/ part = "vendor" /\ Ven!Init /\ Unused8
  \/ part = "fetch" /\ Fet!FetchInit /\ Unused11
  \/ part = "plan" /\ Pla!Init /\ Unused3
  \/ part = "graph" /\ Gra!Init /\ Unused4
  \/ part = "fragments" /\ Fra!Init /\ Unused6
  \/ part = "layout" /\ Lay!LayoutInit /\ Unused4
  \/ part = "resolve" /\ Res!Init
  \/ part = "cli" /\ Cli!Init /\ Unused11
  \/ part = "blobs" /\ Blo!Init /\ Unused9
  \/ part \in {"s3", "s3 page"} /\ S3s!Init /\ S3s!PageInit
  \/ part = "routes" /\ Rdi!Init /\ Unused15
  \/ part = "command tree" /\ Cdi!Init
  \/ part = "dependencies" /\ Cor!Init
  \/ part = "jobs" /\ Job!Init /\ Unused10
  \/ part = "output" /\ Gfi!Init /\ Unused11

Next ==
  \/ part = "writers" /\ Wri!Next /\ UNCHANGED <<part, from9>>
  \/ part = "router" /\ Rou!Next /\ UNCHANGED <<part, from12>>
  \/ part = "vendor" /\ Ven!Next /\ UNCHANGED <<part, from8>>
  \/ part = "fetch" /\ Fet!FetchNext /\ UNCHANGED <<part, from11>>
  \/ part = "plan" /\ Pla!Edit /\ UNCHANGED <<part, from3>>
  \/ part = "graph" /\ Gra!Next /\ UNCHANGED <<part, from4>>
  \/ part = "fragments" /\ Fra!Next /\ UNCHANGED <<part, from6>>
  \/ part = "layout" /\ Lay!LayoutNext /\ UNCHANGED <<part, from4>>
  \/ part = "resolve" /\ Res!Next /\ UNCHANGED part
  \/ part = "cli" /\ Cli!Next /\ UNCHANGED <<part, from11>>
  \/ part = "blobs" /\ Blo!Next /\ UNCHANGED <<part, from9>>
  \/ part = "s3" /\ S3s!Next /\ UNCHANGED <<part, from8>>
  \/ part = "s3 page" /\ S3s!PageNext /\ UNCHANGED <<part, v1, v2, v3, v4, v5, v6, v7>>
  \/ part = "routes" /\ Rdi!Next /\ UNCHANGED <<part, from15>>
  \/ part = "command tree" /\ Cdi!Next /\ UNCHANGED part
  \/ part = "dependencies" /\ Cor!Next /\ UNCHANGED part
  \/ part = "jobs" /\ Job!Next /\ UNCHANGED <<part, from10>>
  \/ part = "output" /\ Gfi!Next /\ UNCHANGED <<part, from11>>

Spec == Init /\ [][Next]_vars

\* The command tree alone.
TreeInit == part = "command tree" /\ Init
TreeSpec == TreeInit /\ [][Next]_vars

----------------------------------------------------------------------------

\* The stack of response writers: middleware.Logger logs the status that went out,
\* the session is committed before the first byte, and always when the handler
\* returns, a forced status (429, not found) is what the client sees, Adapter.Wrap
\* sends the response or the error page and never both, and middleware.Recover never
\* lets a panic pass for a complete response.
WritersTellTruth ==
  /\ [](part = "writers" => /\ Wri!LoggedStatus /\ Wri!CommitFirst /\ Wri!ReturnCommits
                            /\ Wri!StatusForced /\ Wri!ErrorPageClean)
  /\ [][part = "writers" => Wri!PanicNeverSucceeds]_vars

\* router: a route runs behind exactly the middleware of its scope, in order, and
\* whoever is served is served by the whole table.
RouterServesTable == part = "router" => Rou!RouteMiddleware /\ Rou!ServedComplete

\* assets.Vendor: whatever crashes, every file that the lock names is there, lock and
\* importmap change together, and the importmap in memory is the one on disk when a
\* call returns. fetchAll and applyResolution publish a whole resolution within its
\* limits.
VendorTransactional ==
  /\ part = "vendor" => Ven!NothingMissing /\ Ven!OneTransaction /\ Ven!MemoryIsDisk
  /\ part = "fetch" => Fet!PublishedWhole

\* planBuild: a hashed name changes exactly when the content behind it does, also in
\* a cycle; dependencyComponents puts dependencies first and keeps cycles together;
\* the preload list is the same in source mode and compiled.
PlanNamesFollowContent ==
  /\ [](part = "plan" => Pla!ComponentsOrdered /\ Pla!PreloadAgrees)
  /\ [][part = "plan" => Pla!NamesFollowContent]_vars

\* storage.Local and MemoryStore: a blob goes away by a Delete of its key only, a
\* Delete leaves no empty directory and no temporary file behind and never takes the
\* directory from under a rename, and List has what was there all along and nothing
\* that never was.
BlobsStay ==
  /\ [](part = "blobs" => Blo!NoDebris /\ Blo!ParentStays /\ Blo!ListComplete)
  /\ [][part = "blobs" => Blo!OnlyDeleteRemoves]_vars

\* s3.Store: every response body, timer and spool file is released, the call budget
\* never cuts a body that was handed out, Put sends exactly the reader's bytes or
\* nothing, and List ends whatever tokens the service answers. listPage: the streamed
\* decoder finds exactly the entries that the document has at their own paths.
S3Exact ==
  /\ part = "s3" => S3s!Released /\ S3s!BodyOutlivesBudget /\ S3s!SpoolExact /\ S3s!ListBounded
  /\ part = "s3 page" => S3s!PageDecoded /\ S3s!FieldIsPath

\* The generator's reading of a node's Go text: freeIdents reports exactly the names
\* that Go's scoping leaves free, whatever shadows what.
FreeIdentsExact == part = "graph" => Gra!FreeIdentsExact

\* Every command's flow has every node it uses, in an order in which each is built
\* after what it reads, whatever is shared between commands, failed or was only
\* validated; after an error nothing is planned.
FlowsGetWhatTheyUse == part = "resolve" => Res!FlowsGetWhatTheyUse /\ Res!FailuresStop

\* PlanFragments: in the body of every command each value is computed once, after what
\* it reads, whichever shared function computes it. layout: blocks hold each node once
\* and never before what it reads, and a cycle is always reported instead.
GeneratedOrderSound ==
  /\ part = "fragments" => Fra!BodiesSound
  /\ part = "layout" => Lay!LayoutSound

\* Shell completion follows the parser: walkPath stands where parseArgs stands, and the
\* parser accepts what runComplete offers, in the slot it is offered for.
CompletionFollowsParser == part = "cli" => Cli!CompletionFollowsParser

\* A handler runs behind the middleware of its whole path, on flags and arguments that
\* are all there and valid, and Exec returns the code it documents.
HandlerGetsValidInput == part = "cli" => Cli!HandlerGetsValidInput

\* The generated wiring is the declared one: the stack of global middleware satisfies every
\* option, each route is registered once behind its chain, and a stack is refused only if
\* none satisfies the options (router/directive).
WiringAsDeclared ==
  part = "routes" => Rdi!StackAsDeclared /\ Rdi!RoutesAsDeclared /\ Rdi!RefusedOnlyIfUnorderable

\* The tree the generated program runs: buildCommandTree's, with the library's own
\* completion commands where the application has none.
LibraryTree ==
  LET T == Cdi!buildCommandTree
      missing == SelectSeq(<<<<"completion">>, <<"__complete">>>>, LAMBDA n : n \notin DOMAIN T)
  IN [p \in DOMAIN T \cup ToSet(missing) |->
        CASE p = <<>> -> [T[p] EXCEPT !.subs = @ \o missing]
          [] p \in ToSet(missing) -> [T[<<>>] EXCEPT !.flags = <<>>, !.args = <<>>, !.subs = <<>>, !.version = FALSE]
          [] OTHER -> T[p]]

\* A program generated without an error starts: the library accepts the tree it is handed
\* (the checks of cli/directive against cli.validateArgsDecl).
LibraryAccepts == part = "command tree" /\ Cdi!Generated => Cli!validateArgsDecl(LibraryTree, <<>>, <<>>)

\* A variadic argument that is required, after one that is optional: the directives let it pass.
RequiredTail ==
  \E p \in DOMAIN LibraryTree : \E i \in DOMAIN LibraryTree[p].args :
    LET a == LibraryTree[p].args IN a[i].variadic /\ a[i].required /\ \E j \in 1..(i - 1) : ~a[j].required

\* A generated command tree does what its declarations say, in whatever order they load: a
\* command reads each value from the one input of that name above it, what its middleware
\* requires runs first, nothing declared is lost, and the library accepts the tree - but
\* for a required variadic argument after an optional one.
CommandTreeSound ==
  part = "command tree" =>
    /\ Cdi!ValuesFromOwnChain /\ Cdi!RequirementsRunFirst /\ Cdi!NothingLost
    /\ ~RequiredTail => LibraryAccepts

\* The generator accepts exactly the programs whose providers, config structs, selections,
\* hooks and mappings fit together, in whatever order they are loaded, and wires those as
\* they are declared (directives/core, config/directive, engine.WireOptions); and a program
\* whose jobs and crons it accepts starts, with every command registering the same handlers
\* and every cron scheduled (jobs/directive).
GraphAsDeclared ==
  /\ part = "dependencies" => Cor!VerdictExact /\ Cor!WiredAsDeclared
  /\ part = "jobs" => Job!GeneratedStarts /\ Job!CommandsAgree /\ Job!CronsScheduled

\* The output directory, whatever is killed, fails, loses power or is edited: the manifest
\* tells the truth when no transaction is pending, pruning deletes only generated content,
\* an interrupted transaction is completed unless it was interfered with, success is
\* durable, wire -check passes exactly on what was written, and generated files are known
\* as such at every moment (internal/genfiles).
OutputTransactional ==
  part = "output" =>
    /\ Gfi!NeverMixed /\ Gfi!PrunesItsOwn /\ Gfi!CrashLosesNothing
    /\ Gfi!SuccessIsDurable /\ Gfi!CheckExact /\ Gfi!GeneratedOwned
=============================================================================
