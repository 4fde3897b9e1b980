--------------------------- MODULE SessionStores ----------------------------
(***************************************************************************)
(* The session stores: session.MemoryStore (src/session/store_memory.go)   *)
(* and the SQL stores (src/session/{sqlite,postgres,mysql}), each of them  *)
(* shown to implement the contract SessionStore.                           *)
(*                                                                         *)
(* The memory store is a map of records and a hand-kept index from users   *)
(* to session ids, under one RWMutex.  Load gives up the read lock before  *)
(* it prunes, so its two critical sections are two steps; every other      *)
(* method is one.                                                          *)
(*                                                                         *)
(* The SQL stores have the same table and one statement per method, except *)
(* BumpTTL of MySQL, which reads and locks the row in a transaction        *)
(* because MySQL does not count a row that an UPDATE matched and left as   *)
(* it was.  A statement is atomic.  It compares deadlines with a clock     *)
(* that its caller read before, at most Lag units ago.  Expired rows stay  *)
(* until a Sweep; every read filters them.                                 *)
(***************************************************************************)
EXTENDS Integers, FiniteSets

CONSTANTS Sids, Users, NoUser, Payloads, NoRec, Abs, Idle, MaxVersion, MaxTime,
          Lag,      \* how old a clock reading may be
          NoBump    \* no bump transaction is open

\* What the stores hold; the version of a stored record is never 0 (Save counts from 1).
Rec == [version : Nat \ {0}, user : Users \cup {NoUser}, abs : Abs, idle : Idle, payload : Payloads]

\* "No record" is none, the empty user is none, deadlines are times.
ConstantsOK ==
  NoRec \notin Rec /\ NoUser \notin Users /\ Abs \subseteq Nat /\ Idle \subseteq Nat /\ MaxVersion \in Nat

VARIABLES records, now, reply,
          backend,   \* which of the four stores this is
          userIndex, \* memory: user -> session ids
          pruning,   \* memory: session ids that a Load found expired and goes on to prune
          bump       \* MySQL: the open BumpTTL transaction and its row lock

memVars == <<userIndex, pruning>>
vars == <<records, now, reply, backend, memVars, bump>>

\* The contract, with the index, the pruning in hand and the transaction hidden.
Contract == INSTANCE SessionStore

Init ==
  /\ Contract!Init /\ backend \in {"memory", "sqlite", "postgres", "mysql"}
  /\ userIndex = [u \in {} |-> {}] /\ pruning = {} /\ bump = NoBump

Answer(a) == reply' = a /\ UNCHANGED now

-------------------------------- (* memory *) -------------------------------

expired(r) ==
  \/ r.abs # 0 /\ now >= r.abs
  \/ r.idle # 0 /\ now >= r.idle

present(s) == records[s] # NoRec

indexed(u) == IF u \in DOMAIN userIndex THEN userIndex[u] ELSE {}

\* The index without s under u; a user with no session is not a key.
userIndexRemoveLocked(idx, u, s) ==
  IF u \notin DOMAIN idx THEN idx
  ELSE IF idx[u] \subseteq {s} THEN [v \in DOMAIN idx \ {u} |-> idx[v]]
  ELSE [idx EXCEPT ![u] = @ \ {s}]

userIndexAddLocked(idx, u, s) ==
  [v \in DOMAIN idx \cup {u} |->
     IF v \notin DOMAIN idx THEN {s} ELSE IF v = u THEN idx[u] \cup {s} ELSE idx[v]]

\* deleteLocked for each of a set of session ids.
deleteLocked(S) ==
  /\ records' = [s \in Sids |-> IF s \in S THEN NoRec ELSE records[s]]
  /\ userIndex' =
       [u \in {v \in DOMAIN userIndex :
                 userIndex[v] \ {s \in S : present(s) /\ records[s].user = v} # {}} |->
          userIndex[u] \ {s \in S : present(s) /\ records[s].user = u}]

\* Load under the read lock.
LoadRead(s) ==
  /\ IF present(s) /\ ~expired(records[s])
     THEN reply' = <<"record", records[s]>> /\ UNCHANGED pruning
     ELSE /\ reply' = <<"notfound">>
          /\ pruning' = IF present(s) THEN pruning \cup {s} ELSE pruning
  /\ UNCHANGED <<records, now, userIndex>>

\* Mutant: no second look at the record under the write lock.
PruneBlindly(s) ==
  /\ s \in pruning
  /\ pruning' = pruning \ {s}
  /\ deleteLocked({s})
  /\ UNCHANGED <<now, reply>>

\* Load under the write lock: prune, unless the record changed meanwhile.
LoadPrune(s) ==
  /\ s \in pruning
  /\ pruning' = pruning \ {s}
  /\ deleteLocked({x \in {s} : present(x) /\ expired(records[x])})
  /\ UNCHANGED <<now, reply>>

MemorySave(s, d) ==
  LET prev == records[s]
      old  == IF present(s) THEN prev.user ELSE NoUser
      idx1 == IF old # NoUser /\ old # d.user
              THEN userIndexRemoveLocked(userIndex, old, s) ELSE userIndex
  IN /\ IF (present(s) /\ prev.version = d.version) \/ (~present(s) /\ d.version = 0)
        THEN /\ records' = [records EXCEPT ![s] = [d EXCEPT !.version = @ + 1]]
             /\ reply' = <<"record", [d EXCEPT !.version = @ + 1]>>
             /\ userIndex' = IF d.user # NoUser /\ (~present(s) \/ prev.user # d.user)
                             THEN userIndexAddLocked(idx1, d.user, s) ELSE idx1
        ELSE reply' = <<"conflict">> /\ UNCHANGED <<records, userIndex>>
     /\ UNCHANGED <<now, pruning>>

MemoryDelete(s) == deleteLocked({s}) /\ reply' = <<"deleted">> /\ UNCHANGED <<now, pruning>>

MemoryBumpTTL(s, until) ==
  /\ IF present(s) /\ ~expired(records[s])
     THEN records' = [records EXCEPT ![s].idle = until] /\ reply' = <<"bumped">>
     ELSE reply' = <<"notfound">> /\ UNCHANGED records
  /\ UNCHANGED <<now, userIndex, pruning>>

MemoryListByUser(u) ==
  /\ reply' = <<"sids", {s \in indexed(u) : present(s) /\ ~expired(records[s])}>>
  /\ UNCHANGED <<records, now, userIndex, pruning>>

MemoryRevokeByUser(u, except) ==
  /\ deleteLocked(indexed(u) \ except)
  /\ reply' = <<"count", Cardinality(indexed(u) \ except)>>
  /\ UNCHANGED <<now, pruning>>

MemoryScan ==
  /\ reply' = <<"sids", {s \in Sids : present(s) /\ ~expired(records[s])}>>
  /\ UNCHANGED <<records, now, userIndex, pruning>>

MemorySweep ==
  LET S == {s \in Sids : present(s) /\ expired(records[s])}
  IN  deleteLocked(S) /\ reply' = <<"count", Cardinality(S)>> /\ UNCHANGED <<now, pruning>>

Readings == {t \in 0..now : t >= now - Lag}

----------------------------- (* SQL statements *) -------------------------

\* absolute_expiry = 0 OR absolute_expiry > t, and the same for idle_expiry
Unexpired(r, t) == (r.abs = 0 \/ r.abs > t) /\ (r.idle = 0 \/ r.idle > t)

Rows == {s \in Sids : records[s] # NoRec}

SelectLive(t) == {s \in Rows : Unexpired(records[s], t)}

\* A row locked FOR UPDATE is not written by anybody else.
Unlocked(S) == bump # NoBump => bump.sid \notin S

\* INSERT: the number of rows inserted, 0 if the key is taken.
Inserted(s) == IF records[s] = NoRec THEN 1 ELSE 0

\* UPDATE ... WHERE sid = s AND version = v: the number of rows matched.
Matched(s, v) == IF records[s] # NoRec /\ records[s].version = v THEN 1 ELSE 0

Put(s, d) == records' = [records EXCEPT ![s] = [d EXCEPT !.version = @ + 1]]

DeleteRows(S) ==
  /\ Unlocked(S)
  /\ records' = [s \in Sids |-> IF s \in S THEN NoRec ELSE records[s]]

-------------------------------- (* sqlite *) -------------------------------

SqliteLoad(s, t) ==
  Answer(IF s \in SelectLive(t) THEN <<"record", records[s]>> ELSE <<"notfound">>) /\ UNCHANGED records

SqliteSave(s, d) ==
  IF (d.version = 0 /\ Inserted(s) = 1) \/ (d.version # 0 /\ Matched(s, d.version) = 1)
  THEN Put(s, d) /\ Answer(<<"record", [d EXCEPT !.version = @ + 1]>>)
  ELSE Answer(<<"conflict">>) /\ UNCHANGED records

SqliteDelete(s) == DeleteRows({s}) /\ Answer(<<"deleted">>)

\* SQLite counts a matched row that did not change.
SqliteBumpTTL(s, until, t) ==
  IF s \in SelectLive(t)
  THEN records' = [records EXCEPT ![s].idle = until] /\ Answer(<<"bumped">>)
  ELSE Answer(<<"notfound">>) /\ UNCHANGED records

SqliteListByUser(u, t) ==
  Answer(<<"sids", {s \in SelectLive(t) : records[s].user = u}>>) /\ UNCHANGED records

SqliteRevokeByUser(u, except) ==
  LET S == {s \in Rows : records[s].user = u} \ except
  IN  DeleteRows(S) /\ Answer(<<"count", Cardinality(S)>>)

SqliteScan(t) == Answer(<<"sids", SelectLive(t)>>) /\ UNCHANGED records

SqliteSweep(t) ==
  LET Ended(deadline) == deadline > 0 /\ deadline <= t
      S == {s \in Rows : Ended(records[s].abs) \/ Ended(records[s].idle)}
  IN  DeleteRows(S) /\ Answer(<<"count", Cardinality(S)>>)

------------------------------- (* postgres *) ------------------------------
\* The statements of SQLite, with other placeholders.

PostgresLoad(s, t) == SqliteLoad(s, t)

PostgresSave(s, d) == SqliteSave(s, d)

PostgresDelete(s) == SqliteDelete(s)

PostgresBumpTTL(s, until, t) == SqliteBumpTTL(s, until, t)

PostgresListByUser(u, t) == SqliteListByUser(u, t)

PostgresRevokeByUser(u, except) == SqliteRevokeByUser(u, except)

PostgresScan(t) == SqliteScan(t)

PostgresSweep(t) == SqliteSweep(t)

-------------------------------- (* mysql *) --------------------------------

MysqlLoad(s, t) == SqliteLoad(s, t)

\* Error 1062 of the INSERT is the conflict.  The UPDATE waits for a row lock.
MysqlSave(s, d) ==
  /\ Unlocked({s})
  /\ IF d.version = 0
     THEN IF records[s] # NoRec THEN Answer(<<"conflict">>) /\ UNCHANGED records
          ELSE Put(s, d) /\ Answer(<<"record", [d EXCEPT !.version = @ + 1]>>)
     ELSE IF Matched(s, d.version) = 1
          THEN Put(s, d) /\ Answer(<<"record", [d EXCEPT !.version = @ + 1]>>)
          ELSE Answer(<<"conflict">>) /\ UNCHANGED records

MysqlDelete(s) == SqliteDelete(s)

\* SELECT ... FOR UPDATE, and the tests on what it read.
MysqlBumpSelect(s, until, t) ==
  /\ bump = NoBump
  /\ IF s \in SelectLive(t)
     THEN /\ bump' = [sid |-> s, row |-> s, until |-> until]
          /\ UNCHANGED <<records, now, reply>>
     ELSE Answer(<<"notfound">>) /\ UNCHANGED <<records, bump>>

\* UPDATE by primary key, then COMMIT, which drops the lock.
MysqlBumpUpdate ==
  /\ bump # NoBump
  /\ records' = [records EXCEPT ![bump.row] =
                   IF @ = NoRec THEN NoRec ELSE [@ EXCEPT !.idle = bump.until]]
  /\ Answer(<<"bumped">>)
  /\ bump' = NoBump

\* The caller's context ends: the transaction rolls back.
MysqlBumpRollback ==
  bump # NoBump /\ bump' = NoBump /\ UNCHANGED <<records, now, reply>>

MysqlListByUser(u, t) == SqliteListByUser(u, t)

MysqlRevokeByUser(u, except) == SqliteRevokeByUser(u, except)

MysqlScan(t) == SqliteScan(t)

MysqlSweep(t) == SqliteSweep(t)

------------------------------------------------------------------------

-----------------------------------------------------------------------------

MemoryNext ==
  \/ MemoryScan \/ MemorySweep
  \/ \E s \in Sids :
       \/ LoadRead(s) \/ LoadPrune(s) \/ MemoryDelete(s)
       \/ \E d \in Contract!Draft : MemorySave(s, d)
       \/ \E until \in Contract!Until : MemoryBumpTTL(s, until)
  \/ \E u \in Users :
       MemoryListByUser(u) \/ \E except \in SUBSET Sids : MemoryRevokeByUser(u, except)

SqliteNext ==
  \/ \E s \in Sids, t \in Readings :
       SqliteLoad(s, t) \/ \E until \in Contract!Until : SqliteBumpTTL(s, until, t)
  \/ \E s \in Sids : SqliteDelete(s) \/ \E d \in Contract!Draft : SqliteSave(s, d)
  \/ \E t \in Readings :
       SqliteScan(t) \/ SqliteSweep(t) \/ \E u \in Users : SqliteListByUser(u, t)
  \/ \E u \in Users, except \in SUBSET Sids : SqliteRevokeByUser(u, except)

PostgresNext ==
  \/ \E s \in Sids, t \in Readings :
       PostgresLoad(s, t) \/ \E until \in Contract!Until : PostgresBumpTTL(s, until, t)
  \/ \E s \in Sids : PostgresDelete(s) \/ \E d \in Contract!Draft : PostgresSave(s, d)
  \/ \E t \in Readings :
       PostgresScan(t) \/ PostgresSweep(t) \/ \E u \in Users : PostgresListByUser(u, t)
  \/ \E u \in Users, except \in SUBSET Sids : PostgresRevokeByUser(u, except)

MysqlNext ==
  \/ \E s \in Sids, t \in Readings : MysqlLoad(s, t)
  \/ \E s \in Sids : MysqlDelete(s) \/ \E d \in Contract!Draft : MysqlSave(s, d)
  \/ \E t \in Readings :
       MysqlScan(t) \/ MysqlSweep(t) \/ \E u \in Users : MysqlListByUser(u, t)
  \/ \E u \in Users, except \in SUBSET Sids : MysqlRevokeByUser(u, except)

Tick == Contract!Tick /\ UNCHANGED <<memVars, bump>>

Next ==
  /\ UNCHANGED backend
  /\ \/ Tick
     \/ backend = "memory" /\ MemoryNext /\ UNCHANGED bump
     \/ backend = "sqlite" /\ SqliteNext /\ UNCHANGED <<memVars, bump>>
     \/ backend = "postgres" /\ PostgresNext /\ UNCHANGED <<memVars, bump>>
     \/ backend = "mysql" /\ MysqlNext /\ UNCHANGED <<memVars, bump>>
     \/ backend = "mysql" /\ UNCHANGED memVars /\ \E s \in Sids, until \in Contract!Until, t \in Readings :
          MysqlBumpSelect(s, until, t)
     \/ backend = "mysql" /\ UNCHANGED memVars /\ (MysqlBumpUpdate \/ MysqlBumpRollback)

Spec == Init /\ [][Next]_vars

-----------------------------------------------------------------------------
(* Properties *)

UserOf(recs, s) == IF recs[s] = NoRec THEN NoUser ELSE recs[s].user

\* What the index of a table must be: no user without a session is a key.
IndexOf(recs) ==
  [u \in {v \in Users : \E s \in Sids : UserOf(recs, s) = v} |-> {s \in Sids : UserOf(recs, s) = u}]

\* The index that Save, Delete, RevokeByUser, Sweep and a pruning Load keep by
\* hand holds exactly the session ids of each user's records, and no user
\* without one (the empty set is dropped from the map).
IndexExact == backend = "memory" => userIndex = IndexOf(records)

\* Every store keeps the contract of Store.  A Load of the memory store that prunes
\* never takes away a record that a Save made live again between its two critical
\* sections; what each SQL statement answers and leaves behind is what one operation
\* of the contract does; and the BumpTTL of MySQL is still one operation though it
\* takes two statements.
ContractStep == Contract!Next \/ UNCHANGED Contract!storeVars
=============================================================================
