---------------------------- MODULE SqlSchedules ----------------------------
(***************************************************************************)
(* The job_schedules table of the SQL job stores (jobs/sqlite, jobs/postgres,*)
(* jobs/mysql), statement by statement, under the calls schedulers make:    *)
(* JobScheduler takes each of these methods for one step.                   *)
(*                                                                         *)
(* SQLite runs a transaction alone. PostgreSQL and MySQL run at READ        *)
(* COMMITTED: a plain SELECT locks nothing, so a method that reads and then *)
(* writes is two steps; from its first locking statement to the commit it   *)
(* is one. NULL is 0: no time of a schedule is 0.                           *)
(***************************************************************************)
EXTENDS Integers, Sequences, FiniteSets, FiniteSetsExt, SequencesExt

CONSTANTS
  Groups, Names,  \* a row's key is <<group, name>>; names are ordered
  Specs,
  Conns,          \* connections, each with at most one call in progress
  NoRow,
  MaxTime,        \* bound: the clock
  MaxCalls        \* bound: calls made in all

VARIABLES
  dialect, now, calls,
  table,          \* key -> [spec, next, last], or NoRow
  life,           \* how often a row was inserted under a key
  conn,           \* what each connection holds
  inserted,       \* jobs inserted by winning fires: <<key, life, expected last>>, in order
  putBack,        \* keys whose next run a late UpsertSchedule put back
  answer          \* the last call's answer

vars == <<dialect, now, calls, table, life, conn, inserted, putBack, answer>>

Keys == Groups \X Names
Idle == [pc |-> "idle", key |-> <<>>, seen |-> NoRow, spec |-> 0, next |-> 0, due |-> <<>>]
Free(c) == conn[c].pc = "idle"
Stored == {k \in Keys : table[k] # NoRow}

Returns(c, a) == conn' = [conn EXCEPT ![c] = Idle] /\ answer' = a
Calling == calls < MaxCalls /\ calls' = calls + 1

----------------------------------------------------------------------------
(* Statements. *)

InsertRow(k, spec, next) ==
  /\ table' = [table EXCEPT ![k] = [spec |-> spec, next |-> next, last |-> 0]]
  /\ life' = [life EXCEPT ![k] = @ + 1]

\* UPDATE ... SET spec, next_run_at WHERE the key: nothing when the row is gone.
UpdateRow(k, spec, next) ==
  /\ table' = IF table[k] = NoRow THEN table ELSE [table EXCEPT ![k].spec = spec, ![k].next = next]
  /\ UNCHANGED life

\* The cadence of the row that was read is kept while its spec is unchanged.
KeptNext(seen, spec, next) == IF seen.spec = spec THEN seen.next ELSE next

\* SELECT ... WHERE sched_group=? [AND next_run_at<=?] ORDER BY name.
Selected(g, K) ==
  [i \in 1..Cardinality(K) |->
     LET n == SetToSortSeq({k[2] : k \in K}, <)[i] IN [key |-> <<g, n>>, row |-> table[<<g, n>>]]]

----------------------------------------------------------------------------
(* SQLite *)

SqliteUpsertSchedule(c, k, spec, next) ==
  /\ IF table[k] = NoRow THEN InsertRow(k, spec, next)
     ELSE UpdateRow(k, spec, KeptNext(table[k], spec, next))
  /\ Returns(c, "ok")

SqliteDeleteSchedule(k) == [table EXCEPT ![k] = NoRow]

SqliteListSchedules(g) == Selected(g, {k \in Stored : k[1] = g})

SqliteDueSchedules(g, t) == Selected(g, {k \in Stored : k[1] = g /\ table[k].next <= t})

\* UPDATE ... WHERE the key AND last_run_at IS ?
SqliteFireCAS(k, expected) == table[k] # NoRow /\ table[k].last = expected

(* PostgreSQL *)

PostgresUpsertSelect(c, k, spec, next) ==
  /\ conn' = [conn EXCEPT ![c] = [Idle EXCEPT !.pc = "upsert", !.key = k, !.seen = table[k],
                                              !.spec = spec, !.next = next]]
  /\ UNCHANGED <<table, life, answer>>

\* The INSERT runs into the primary key when a row has come meanwhile.
PostgresUpsertWrite(c) ==
  LET h == conn[c] IN
  IF h.seen = NoRow
  THEN IF table[h.key] # NoRow THEN Returns(c, "error") /\ UNCHANGED <<table, life>>
       ELSE InsertRow(h.key, h.spec, h.next) /\ Returns(c, "ok")
  ELSE UpdateRow(h.key, h.spec, KeptNext(h.seen, h.spec, h.next)) /\ Returns(c, "ok")

PostgresDeleteSchedule(k) == [table EXCEPT ![k] = NoRow]

PostgresListSchedules(g) == Selected(g, {k \in Stored : k[1] = g})

PostgresDueSchedules(g, t) == Selected(g, {k \in Stored : k[1] = g /\ table[k].next <= t})

\* UPDATE ... WHERE the key AND last_run_at IS NOT DISTINCT FROM ?
PostgresFireCAS(k, expected) == table[k] # NoRow /\ table[k].last = expected

(* MySQL *)

MysqlUpsertSelect(c, k, spec, next) ==
  /\ conn' = [conn EXCEPT ![c] = [Idle EXCEPT !.pc = "upsert", !.key = k, !.seen = table[k],
                                              !.spec = spec, !.next = next]]
  /\ UNCHANGED <<table, life, answer>>

MysqlUpsertWrite(c) ==
  LET h == conn[c] IN
  IF h.seen = NoRow
  THEN IF table[h.key] # NoRow THEN Returns(c, "error") /\ UNCHANGED <<table, life>>
       ELSE InsertRow(h.key, h.spec, h.next) /\ Returns(c, "ok")
  ELSE UpdateRow(h.key, h.spec, KeptNext(h.seen, h.spec, h.next)) /\ Returns(c, "ok")

MysqlDeleteSchedule(k) == [table EXCEPT ![k] = NoRow]

MysqlListSchedules(g) == Selected(g, {k \in Stored : k[1] = g})

MysqlDueSchedules(g, t) == Selected(g, {k \in Stored : k[1] = g /\ table[k].next <= t})

\* Mutant: only whether there was a last run is compared.
MysqlFireNull(k, expected) == table[k] # NoRow /\ (table[k].last = 0 <=> expected = 0)

\* SELECT last_run_at ... FOR UPDATE, compared NULL by NULL.
MysqlFireCAS(k, expected) == table[k] # NoRow /\ table[k].last = expected

----------------------------------------------------------------------------
(* Calls. *)

Pick(sqlite, postgres, mysql) ==
  CASE dialect = "sqlite" -> sqlite [] dialect = "postgres" -> postgres [] OTHER -> mysql

UpsertSchedule(c, k, spec, next) ==
  /\ Free(c) /\ Calling
  /\ CASE dialect = "sqlite" -> SqliteUpsertSchedule(c, k, spec, next)
       [] dialect = "postgres" -> PostgresUpsertSelect(c, k, spec, next)
       [] OTHER -> MysqlUpsertSelect(c, k, spec, next)
  /\ UNCHANGED <<dialect, now, inserted, putBack>>

\* The row written is no longer the row that was read.
PutsBack(h) == h.seen # NoRow /\ table[h.key] \notin {NoRow, h.seen}

UpsertWrites(c) ==
  /\ conn[c].pc = "upsert"
  /\ IF dialect = "postgres" THEN PostgresUpsertWrite(c) ELSE MysqlUpsertWrite(c)
  /\ putBack' = putBack \cup IF PutsBack(conn[c]) THEN {conn[c].key} ELSE {}
  /\ UNCHANGED <<dialect, now, calls, inserted>>

DeleteSchedule(c, k) ==
  /\ Free(c) /\ Calling
  /\ table' = Pick(SqliteDeleteSchedule(k), PostgresDeleteSchedule(k), MysqlDeleteSchedule(k))
  /\ Returns(c, "ok")
  /\ UNCHANGED <<dialect, now, life, inserted, putBack>>

DueSchedules(g) ==
  Pick(SqliteDueSchedules(g, now), PostgresDueSchedules(g, now), MysqlDueSchedules(g, now))

ListSchedules(g) == Pick(SqliteListSchedules(g), PostgresListSchedules(g), MysqlListSchedules(g))

\* A scheduler reads the due rows and fires them one by one.
ReadDue(c, g) ==
  /\ Free(c) /\ Calling
  /\ DueSchedules(g) # <<>>
  /\ conn' = [conn EXCEPT ![c] = [Idle EXCEPT !.pc = "fire", !.due = DueSchedules(g)]]
  /\ UNCHANGED <<dialect, now, table, life, inserted, putBack, answer>>

\* The election, the row's new times and the jobs commit together, or the insert of a
\* job fails and with it the transaction. The tick fired is the row's next run.
FireSchedule(c) ==
  LET d == Head(conn[c].due)
      won == Pick(SqliteFireCAS(d.key, d.row.last), PostgresFireCAS(d.key, d.row.last),
                  MysqlFireCAS(d.key, d.row.last))
      rest == IF Tail(conn[c].due) = <<>> THEN Idle ELSE [conn[c] EXCEPT !.due = Tail(@)]
  IN /\ conn[c].pc = "fire"
     /\ conn' = [conn EXCEPT ![c] = rest]
     /\ \/ /\ won
           /\ table' = [table EXCEPT ![d.key].last = d.row.next, ![d.key].next = now + d.row.spec]
           /\ inserted' = Append(inserted, <<d.key, life[d.key], d.row.last>>)
           /\ answer' = "won"
        \/ /\ UNCHANGED <<table, inserted>>
           /\ answer' = IF won THEN "error" ELSE IF table[d.key] = NoRow THEN "notFound" ELSE "lost"
     /\ UNCHANGED <<dialect, now, calls, life, putBack>>

Tick == now < MaxTime /\ now' = now + 1 /\ UNCHANGED <<dialect, calls, table, life, conn, inserted, putBack, answer>>

Init ==
  /\ dialect \in {"sqlite", "postgres", "mysql"}
  /\ now = 1 /\ calls = 0
  /\ table = [k \in Keys |-> NoRow]
  /\ life = [k \in Keys |-> 0]
  /\ conn = [c \in Conns |-> Idle]
  /\ inserted = <<>> /\ putBack = {}
  /\ answer = "none"

Next ==
  \/ \E c \in Conns :
       \/ \E k \in Keys, spec \in Specs : UpsertSchedule(c, k, spec, now + spec)
       \/ \E k \in Keys : DeleteSchedule(c, k)
       \/ \E g \in Groups : ReadDue(c, g)
       \/ UpsertWrites(c) \/ FireSchedule(c)
  \/ Tick

----------------------------------------------------------------------------
(* Properties. *)

\* One winner per last run, in every dialect: of the schedulers that read a row
\* with the same LastRunAt, NULL included, at most one inserts jobs (fireCAS),
\* although reconciling processes rewrite the row and delete it meanwhile. A row
\* that a late writer put back runs a tick again and is left out.
OneWinnerPerLastRun ==
  \A i, j \in DOMAIN inserted :
    inserted[i] = inserted[j] => i = j \/ inserted[i][1] \in putBack

\* What a scheduler lists is its own group's rows, each once, by name, and the due
\* ones among them (ListSchedules, DueSchedules).
ListsItsGroup ==
  \A g \in Groups :
    LET all == ListSchedules(g) IN
    /\ {all[i].key : i \in DOMAIN all} = {k \in Stored : k[1] = g}
    /\ \A i, j \in DOMAIN all : i < j => all[i].key[2] < all[j].key[2]
    /\ DueSchedules(g) = SelectSeq(all, LAMBDA d : d.row.next <= now)

\* UpsertSchedule never touches LastRunAt, and a row keeps its cadence unless its
\* spec changes, it is fired, or the writer's row is no longer the one it read.
CadencePreserved ==
  \A k \in Keys :
    (table[k] # NoRow /\ table'[k] # NoRow /\ answer' # "won") =>
      /\ table'[k].last = table[k].last
      /\ (table'[k].spec = table[k].spec /\ table'[k].next # table[k].next) =>
           \E c \in Conns : conn[c].pc = "upsert" /\ conn[c].key = k /\ PutsBack(conn[c])
=============================================================================
