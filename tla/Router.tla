------------------------------ MODULE Router ------------------------------
(***************************************************************************)
(* router/router.go: scopes, registration, mounting, and the freeze that    *)
(* the first requests race for.                                             *)
(*                                                                         *)
(* Middleware lists are Go slices: a scope's list may share its array with  *)
(* another's, and append writes in place while there is room.  The arrays   *)
(* are modelled (heap), so that a list changed behind its owner's back      *)
(* would show.  Registration is sequential ("Build the router fully before  *)
(* serving"), requests are not.                                             *)
(***************************************************************************)
EXTENDS Integers, Sequences, SequencesExt

CONSTANTS
    Requests,   \* the requests that race for the first serve
    Added,      \* how many middlewares With adds (0: Group, Route)
    Own,        \* how many a route brings itself
    MaxOps      \* bound: registration calls

VARIABLES
    heap,       \* arrays of middleware; the length of one is its capacity
    scopes,     \* the Scope handles the application holds
    entries,    \* state.entries of each router
    global,     \* state.global of each router
    hooks,      \* notFound or methodNotAllowed is set on the root
    sealed, built, handler,
    mu,         \* holder of buildMu
    req,        \* where each request is
    ops

routerVars == <<heap, scopes, entries, global, hooks, sealed, built, handler, mu, req, ops>>
building == <<hooks, sealed, built, handler, mu, req>>

Routers == {"root", "sub"}
Nobody == "nobody"

(***************************************************************************)
(* Slices of a heap h.  Array 0 is the empty one.                            *)
(***************************************************************************)
Nil == [arr |-> 0, len |-> 0]
Cap(h, s) == IF s.arr = 0 THEN 0 ELSE Len(h[s.arr])
Elems(h, s) == IF s.arr = 0 THEN <<>> ELSE SubSeq(h[s.arr], 1, s.len)
Padded(seq, n) == seq \o [i \in 1..(n - Len(seq)) |-> 0]

\* append(s, ms...): in place while the capacity allows.
Append_(h, s, ms) ==
    LET n == s.len + Len(ms)
    IN IF n <= Cap(h, s)
       THEN [h |-> IF ms = <<>> THEN h
                   ELSE [h EXCEPT ![s.arr] = SubSeq(@, 1, s.len) \o ms \o SubSeq(@, n + 1, Len(@))],
             s |-> [s EXCEPT !.len = n]]
       ELSE [h |-> Append(h, Padded(Elems(h, s) \o ms, IF n > 2 * Cap(h, s) THEN n ELSE 2 * Cap(h, s))),
             s |-> [arr |-> Len(h) + 1, len |-> n]]

Fresh(h, seq) == Append_(h, Nil, seq)

\* slices.Clone
\* Mutant: the copy shares its array.
CloneShares(h, s) == [h |-> h, s |-> s]
Clone(h, s) == Fresh(h, Elems(h, s))

(***************************************************************************)
(* Registration.  want is what the list should hold: it is not in the code.  *)
(***************************************************************************)
Init ==
    /\ heap = <<>>
    /\ scopes = << [r |-> "root", inline |-> Nil, want |-> <<>>],
                   [r |-> "sub", inline |-> Nil, want |-> <<>>] >>
    /\ entries = [r \in Routers |-> <<>>]
    /\ global = [r \in Routers |-> [s |-> Nil, want |-> <<>>]]
    /\ hooks = FALSE
    /\ sealed = FALSE
    /\ built = FALSE
    /\ handler = [global |-> <<>>, hooks |-> FALSE, routes |-> 0]
    /\ mu = Nobody
    /\ req = [q \in Requests |-> "arrive"]
    /\ ops = 0

\* A call that finds the router sealed panics and changes nothing.
Registers(r) ==
    /\ ops < MaxOps
    /\ r = "root" => ~sealed
    /\ ops' = ops + 1

\* The middleware a call passes: numbered by the call.
Mws(n) == [i \in 1..n |-> 10 * ops + i]

\* The extended slice replaces the scope's own.
ScopeUse(k, n) ==
    /\ Registers(scopes[k].r)
    /\ k > 2
    /\ LET a == Append_(heap, scopes[k].inline, Mws(n))
       IN /\ heap' = a.h
          /\ scopes' = [scopes EXCEPT ![k].inline = a.s, ![k].want = @ \o Mws(n)]
    /\ UNCHANGED <<entries, global, building>>

\* With, and (for n = 0) the scope that Group and Route hand to their callback.
With(k, n) ==
    /\ Registers(scopes[k].r)
    /\ LET c == Clone(heap, scopes[k].inline)
           a == Append_(c.h, c.s, Mws(n))
       IN /\ heap' = a.h
          /\ scopes' = Append(scopes, [scopes[k] EXCEPT !.inline = a.s, !.want = @ \o Mws(n)])
    /\ UNCHANGED <<entries, global, building>>

add(r, h, s, want) == [entries EXCEPT ![r] = Append(@, [mws |-> s, want |-> want, wrapped |-> Elems(h, s)])]

register(k, n) ==
    /\ Registers(scopes[k].r)
    /\ LET c == Clone(heap, scopes[k].inline)
           a == Append_(c.h, c.s, Mws(n))
       IN /\ heap' = a.h
          /\ entries' = add(scopes[k].r, a.h, a.s, scopes[k].want \o Mws(n))
    /\ UNCHANGED <<scopes, global, building>>

\* Router.Use
Use(r) ==
    /\ Registers(r)
    /\ LET a == Append_(heap, global[r].s, Mws(1))
       IN /\ heap' = a.h
          /\ global' = [global EXCEPT ![r] = [s |-> a.s, want |-> @.want \o Mws(1)]]
    /\ UNCHANGED <<scopes, entries, building>>

\* The routes of the subrouter, each with the scope's list, the subrouter's
\* global list and its own (slices.Concat).
Mounted(h, k, e) == Elems(h, scopes[k].inline) \o Elems(h, global["sub"].s) \o Elems(h, e.mws)

Mount(k) ==
    /\ Registers("root")
    /\ scopes[k].r = "root"
    /\ LET sub == entries["sub"]
           \* one new array for each route
           h2 == heap \o [i \in 1..Len(sub) |-> Mounted(heap, k, sub[i])]
           new == [i \in 1..Len(sub) |->
                     [mws |-> [arr |-> Len(heap) + i, len |-> Len(h2[Len(heap) + i])],
                      want |-> scopes[k].want \o global["sub"].want \o sub[i].want,
                      wrapped |-> h2[Len(heap) + i]]]
       IN /\ heap' = h2
          /\ entries' = [entries EXCEPT !["root"] = @ \o new]
    /\ UNCHANGED <<scopes, global, building>>

setErrorHandler ==
    /\ Registers("root")
    /\ hooks' = TRUE
    /\ UNCHANGED <<heap, scopes, entries, global, sealed, built, handler, mu, req>>

(***************************************************************************)
(* Serving the root.                                                        *)
(***************************************************************************)
registered == <<heap, scopes, entries, global, hooks, ops>>
Goto(q, p) == req' = [req EXCEPT ![q] = p]

ServeHTTP(q) ==
    /\ req[q] = "arrive"
    /\ Goto(q, IF built THEN "serve" ELSE "lock")
    /\ UNCHANGED <<registered, sealed, built, handler, mu>>

FreezeLock(q) ==
    /\ req[q] = "lock"
    /\ mu = Nobody
    /\ mu' = q
    /\ sealed' = TRUE
    /\ Goto(q, IF built THEN "unlock" ELSE "compose")
    /\ UNCHANGED <<registered, built, handler>>

\* A middleware may return a nil handler: the panic unlocks, and a later request
\* composes again.
FreezeCompose(q) ==
    /\ req[q] = "compose"
    /\ \/ /\ handler' = [global |-> Elems(heap, global["root"].s), hooks |-> hooks, routes |-> Len(entries["root"])]
          /\ Goto(q, "publish")
          /\ UNCHANGED mu
       \/ /\ mu' = Nobody
          /\ Goto(q, "failed")
          /\ UNCHANGED handler
    /\ UNCHANGED <<registered, sealed, built>>

FreezePublish(q) ==
    /\ req[q] \in {"publish", "unlock"}
    /\ built' = TRUE
    /\ mu' = Nobody
    /\ Goto(q, "serve")
    /\ UNCHANGED <<registered, sealed, handler>>

Next ==
    \/ \E k \in 1..Len(scopes) :
         \/ ScopeUse(k, 1)
         \/ \E n \in Added : With(k, n)
         \/ \E n \in Own : register(k, n)
         \/ Mount(k)
    \/ \E r \in Routers : Use(r)
    \/ setErrorHandler
    \/ \E q \in Requests :
         ServeHTTP(q) \/ FreezeLock(q) \/ FreezeCompose(q) \/ FreezePublish(q)

Spec == Init /\ [][Next]_routerVars

(***************************************************************************)
(* Properties.                                                              *)
(***************************************************************************)
\* A route runs exactly the middleware that was in scope when it was registered,
\* outermost first, whatever was added to its scope, to sibling scopes or to
\* other routes before or since; a mounted route runs its mounting scope's, then
\* its subrouter's global, then its own (Scope.register, With, Mount).
RouteMiddleware ==
    /\ \A r \in Routers : \A i \in 1..Len(entries[r]) :
         LET e == entries[r][i] IN e.wrapped = e.want /\ Elems(heap, e.mws) = e.want
    /\ \A k \in 1..Len(scopes) : Elems(heap, scopes[k].inline) = scopes[k].want

\* A request is served through everything that was registered: the composed
\* handler has the global middleware, the hooks and the routes as they are, and
\* none is added afterwards (freeze seals before it composes).
ServedComplete ==
    built => handler = [global |-> global["root"].want, hooks |-> hooks, routes |-> Len(entries["root"])]
=============================================================================
