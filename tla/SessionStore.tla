---------------------------- MODULE SessionStore ----------------------------
(***************************************************************************)
(* The contract of session.Store and its optional capabilities             *)
(* (src/session/store.go): what a caller may observe.  SessionStores is    *)
(* shown to implement it.                                                  *)
(*                                                                         *)
(* A deadline is a natural number, 0 meaning none.  reply is the answer    *)
(* of the last call.  A caller's clock reading t may be old by the time    *)
(* the call takes effect.                                                  *)
(***************************************************************************)
EXTENDS Integers, FiniteSets

CONSTANTS
  Sids,       \* session identifiers
  Users,      \* user identifiers, without the empty one
  NoUser,     \* the empty user identifier: an anonymous session
  Payloads,   \* payload bytes, opaque to a store
  NoRec,      \* no record under this identifier
  Abs, Idle,  \* the deadlines callers ask for, 0 meaning none
  MaxVersion, \* bound on versions
  MaxTime     \* bound on the clock

VARIABLES records, now, reply

storeVars == <<records, now, reply>>

\* A Record handed to Save: its version is the one its caller loaded, 0 to insert.
Draft == [version: 0..(MaxVersion - 1), user: Users \cup {NoUser},
          abs: Abs, idle: Idle, payload: Payloads]

\* The idle deadlines of a bump.
Until == Idle \ {0}

Lapsed(r, t) == (r.abs # 0 /\ t >= r.abs) \/ (r.idle # 0 /\ t >= r.idle)

Held == {s \in Sids : records[s] # NoRec}
LiveAt(t) == {s \in Held : ~Lapsed(records[s], t)}
Without(S) == [s \in Sids |-> IF s \in S THEN NoRec ELSE records[s]]

\* The version a Save must carry: 0 when there is no record.
VersionOf(s) == IF s \in Held THEN records[s].version ELSE 0

Init == records = [s \in Sids |-> NoRec] /\ now = 0 /\ reply = <<"none">>

Load(s, t) ==
  /\ reply' = IF s \in LiveAt(t) THEN <<"record", records[s]>> ELSE <<"notfound">>
  /\ UNCHANGED <<records, now>>

Prune(s) ==
  /\ s \in Held /\ Lapsed(records[s], now)
  /\ records' = Without({s})
  /\ UNCHANGED <<now, reply>>

Save(s, d) ==
  /\ IF VersionOf(s) = d.version
     THEN /\ records' = [records EXCEPT ![s] = [d EXCEPT !.version = @ + 1]]
          /\ reply' = <<"record", records'[s]>>
     ELSE reply' = <<"conflict">> /\ UNCHANGED records
  /\ UNCHANGED now

Delete(s) == records' = Without({s}) /\ reply' = <<"deleted">> /\ UNCHANGED now

BumpTTL(s, until, t) ==
  /\ IF s \in LiveAt(t)
     THEN records' = [records EXCEPT ![s].idle = until] /\ reply' = <<"bumped">>
     ELSE reply' = <<"notfound">> /\ UNCHANGED records
  /\ UNCHANGED now

ListByUser(u, t) ==
  reply' = <<"sids", {s \in LiveAt(t) : records[s].user = u}>> /\ UNCHANGED <<records, now>>

RevokeByUser(u, except) ==
  LET S == {s \in Held \ except : records[s].user = u}
  IN  records' = Without(S) /\ reply' = <<"count", Cardinality(S)>> /\ UNCHANGED now

Scan(t) == reply' = <<"sids", LiveAt(t)>> /\ UNCHANGED <<records, now>>

Sweep(t) ==
  LET S == Held \ LiveAt(t)
  IN  records' = Without(S) /\ reply' = <<"count", Cardinality(S)>> /\ UNCHANGED now

Tick == now < MaxTime /\ now' = now + 1 /\ UNCHANGED <<records, reply>>

Next ==
  \/ Tick
  \/ \E t \in 0..now :
       \/ Scan(t) \/ Sweep(t)
       \/ \E u \in Users : ListByUser(u, t)
       \/ \E s \in Sids : Load(s, t) \/ \E until \in Until : BumpTTL(s, until, t)
  \/ \E s \in Sids : Prune(s) \/ Delete(s) \/ \E d \in Draft : Save(s, d)
  \/ \E u \in Users, except \in SUBSET Sids : RevokeByUser(u, except)

Spec == Init /\ [][Next]_storeVars
=============================================================================
