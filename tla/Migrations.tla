----------------------------- MODULE Migrations ------------------------------
(***************************************************************************)
(* The migration engine (src/migrations/migrations.go) over the sessions   *)
(* of its three drivers.  Several processes call Migrate at once, with the *)
(* same files or with those of another release; a process may die, a       *)
(* statement may fail, and a connection that still holds a lock or an open *)
(* transaction may go back to the pool, at any point.                      *)
(*                                                                         *)
(* A migration file is [stream, version, sum]; its body is one effect on   *)
(* the database, which MySQL commits at once if it is DDL.                 *)
(***************************************************************************)
EXTENDS Integers, Sequences, FiniteSets, SequencesExt

CONSTANTS Procs,
          Releases,     \* Sources a process may be built with: sequences of [stream, files]
          Ddl,          \* the sums of the bodies that hold DDL
          MaxEffects,   \* bound: bodies run
          None

VARIABLES dialect,
          history,   \* schema_migrations: set of [stream, version, sum]
          effects,   \* history: the bodies whose work is durable, in order
          holder,    \* the session that holds the advisory lock or the write lock
          proc       \* where each Migrate call is

migVars == <<dialect, history, effects, holder, proc>>

Key(m) == [stream |-> m.stream, version |-> m.version]

Recorded(h) == {Key(m) : m \in h}

---------------------------------- (* Sources *) -----------------------------

\* A stream is refused when two of its files share a version.
loadMigrations(src) ==
  IF \E a, b \in src.files : a # b /\ a.version = b.version THEN <<"invalid">>
  ELSE <<"ok", SetToSortSeq({[stream |-> src.stream, version |-> f.version, sum |-> f.sum] : f \in src.files},
                            LAMBDA a, b : a.version < b.version)>>

\* Streams are unique, and sorted by name; versions are sorted within a stream.
loadStreams(sources) ==
  LET loaded == [i \in DOMAIN sources |-> loadMigrations(sources[i])]
      order == SetToSortSeq(DOMAIN sources, LAMBDA i, j : sources[i].stream < sources[j].stream)
  IN  IF \/ sources = <<>>
         \/ \E i, j \in DOMAIN sources : i # j /\ sources[i].stream = sources[j].stream
         \/ \E i \in DOMAIN sources : loaded[i][1] = "invalid"
      THEN <<"invalid">>
      ELSE <<"ok", FlattenSeq([n \in DOMAIN order |-> loaded[order[n]][2]])>>

\* plan is what loadStreams made of the sources.
Files(p) == ToSet(proc[p].plan[2])

\* Sources.Status, of one file and of one row.
StateOf(m, h) ==
  IF Key(m) \notin Recorded(h) THEN "pending" ELSE IF m \in h THEN "applied" ELSE "drifted"

Orphans(files, h) == {r \in h : Key(r) \notin {Key(m) : m \in files}}

Status(files, h) == [applied |-> {m \in files : StateOf(m, h) = "applied"},
                     pending |-> {m \in files : StateOf(m, h) = "pending"},
                     drifted |-> {m \in files : StateOf(m, h) = "drifted"},
                     orphan  |-> Orphans(files, h)]

----------------------------------- (* state *) ------------------------------

Idle(s, plan) == [pc |-> "start", sources |-> s, plan |-> plan, todo |-> <<>>, tainted |-> FALSE, res |-> "none"]

Init ==
  /\ dialect \in {"sqlite", "postgres", "mysql"}
  /\ history = {} /\ effects = <<>> /\ holder = None
  /\ proc \in [Procs -> {Idle(s, loadStreams(s)) : s \in Releases}]

At(p, pc) == proc[p].pc = pc

Go(p, pc) == proc' = [proc EXCEPT ![p].pc = pc]

--------------------------------- (* sessions *) -----------------------------

Free == holder = None

\* SQLite takes no lock for the call.  The others wait for theirs; MySQL gives up
\* after lockTimeout.
OpenSession(p) ==
  /\ At(p, "start")
  /\ IF proc[p].plan[1] = "invalid"
     THEN proc' = [proc EXCEPT ![p].pc = "done", ![p].res = "invalid"] /\ UNCHANGED holder
     ELSE \/ /\ dialect # "sqlite" => Free
             /\ holder' = IF dialect = "sqlite" THEN holder ELSE p
             /\ Go(p, "load")
          \/ /\ dialect = "mysql" /\ ~Free
             /\ proc' = [proc EXCEPT ![p].pc = "done", ![p].res = "error"] /\ UNCHANGED holder
  /\ UNCHANGED <<dialect, history, effects>>

\* The caller's context ends while it waits, or there is no connection.
OpenFails(p) ==
  /\ At(p, "start")
  /\ proc' = [proc EXCEPT ![p].pc = "done", ![p].res = "error"]
  /\ UNCHANGED <<dialect, history, effects, holder>>

\* Drift and orphans are found before anything is applied.
CheckApplied(p) == \E r \in history : r \notin Files(p)

\* SchemaSQL, loadApplied, and the check; what is not recorded is left to do.
LoadApplied(p) ==
  /\ At(p, "load")
  /\ proc' = [proc EXCEPT
       ![p].pc = IF CheckApplied(p) THEN "close" ELSE "next",
       ![p].res = IF CheckApplied(p) THEN "refused" ELSE "none",
       ![p].todo = SelectSeq(proc[p].plan[2], LAMBDA m : Key(m) \notin Recorded(history))]
  /\ UNCHANGED <<dialect, history, effects, holder>>

NextMigration(p) ==
  /\ At(p, "next")
  /\ IF proc[p].todo = <<>>
     THEN proc' = [proc EXCEPT ![p].pc = "close", ![p].res = "ok"]
     ELSE Go(p, "begin")
  /\ UNCHANGED <<dialect, history, effects, holder>>

---------------------------------- (* Apply *) -------------------------------

Now(p) == Head(proc[p].todo)

\* A DDL statement of MySQL, and a record after it, are committed as they run.
Implicit(m) == dialect = "mysql" /\ m.sum \in Ddl

\* BEGIN IMMEDIATE waits for the write lock of SQLite.
ApplyBegin(p) ==
  /\ At(p, "begin")
  /\ dialect = "sqlite" => Free
  /\ holder' = p /\ Go(p, "body")
  /\ UNCHANGED <<dialect, history, effects>>

Ran(m) == Append(effects, m)

ApplyBody(p) ==
  /\ At(p, "body") /\ Len(effects) < MaxEffects
  /\ Go(p, "record")
  /\ effects' = IF Implicit(Now(p)) THEN Ran(Now(p)) ELSE effects
  /\ UNCHANGED <<dialect, history, holder>>

\* INSERT, refused when the key (stream, version) is recorded already.
ApplyRecord(p) ==
  /\ At(p, "record") /\ Key(Now(p)) \notin Recorded(history)
  /\ Go(p, "commit") /\ history' = IF Implicit(Now(p)) THEN history \cup {Now(p)} ELSE history
  /\ UNCHANGED <<dialect, effects, holder>>

\* Mutant: the record is committed before the body.
ApplyCommitRecord(p) ==
  /\ At(p, "commit")
  /\ history' = history \cup {Now(p)} /\ UNCHANGED effects
  /\ proc' = [proc EXCEPT ![p].pc = "next", ![p].todo = Tail(@)]
  /\ holder' = IF dialect = "sqlite" THEN None ELSE holder
  /\ UNCHANGED <<dialect>>

ApplyCommit(p) ==
  /\ At(p, "commit")
  /\ history' = history \cup {Now(p)}
  /\ effects' = IF Implicit(Now(p)) THEN effects ELSE Ran(Now(p))
  /\ proc' = [proc EXCEPT ![p].pc = "next", ![p].todo = Tail(@)]
  /\ holder' = IF dialect = "sqlite" THEN None ELSE holder
  /\ UNCHANGED <<dialect>>

\* A statement fails, or the context ends.  The transaction is rolled back; if the
\* ROLLBACK of SQLite fails too, the session is tainted and keeps the write lock.
ApplyFails(p) ==
  /\ proc[p].pc \in {"body", "record", "commit"}
  /\ \/ /\ proc' = [proc EXCEPT ![p].pc = "close", ![p].res = "error"]
        /\ holder' = IF dialect = "sqlite" THEN None ELSE holder
     \/ /\ dialect = "sqlite"
        /\ proc' = [proc EXCEPT ![p].pc = "close", ![p].res = "error", ![p].tainted = TRUE]
        /\ UNCHANGED holder
  /\ UNCHANGED <<dialect, history, effects>>

\* SQLITE_BUSY after the busy timeout, or a failing read.
CallFails(p) ==
  /\ proc[p].pc \in {"load", "begin"}
  /\ proc' = [proc EXCEPT ![p].pc = "close", ![p].res = "error"]
  /\ UNCHANGED <<dialect, history, effects, holder>>

---------------------------------- (* Close *) -------------------------------

\* ErrBadConn drops a connection whose unlock, or whose rollback, was not confirmed;
\* the server then ends its transaction and releases its locks.
evicts(confirmed) == ~confirmed

\* An unlock that is not confirmed may have happened or not.
Close(p) ==
  /\ At(p, "close")
  /\ \E confirmed \in BOOLEAN, gone \in BOOLEAN :
       /\ confirmed => gone
       /\ dialect = "sqlite" => confirmed = ~proc[p].tainted
       /\ holder' = IF holder = p /\ (gone \/ evicts(confirmed)) THEN None ELSE holder
       /\ proc' = [proc EXCEPT ![p].pc = "done",
                               ![p].res = IF dialect # "sqlite" /\ ~confirmed THEN "error" ELSE @]
  /\ UNCHANGED <<dialect, history, effects>>

\* The process dies: the server rolls back and releases its locks.
Crash(p) ==
  /\ ~At(p, "done")
  /\ proc' = [proc EXCEPT ![p].pc = "done", ![p].res = "crashed"]
  /\ holder' = IF holder = p THEN None ELSE holder
  /\ UNCHANGED <<dialect, history, effects>>

\* A finished process is started again with its files.
Rerun(p) ==
  /\ At(p, "done") /\ proc[p].res # "invalid" /\ Len(effects) < MaxEffects
  /\ proc' = [proc EXCEPT ![p] = Idle(proc[p].sources, proc[p].plan)]
  /\ UNCHANGED <<dialect, history, effects, holder>>

Proceed(p) ==
  \/ OpenSession(p) \/ LoadApplied(p) \/ NextMigration(p) \/ ApplyBegin(p) \/ ApplyBody(p)
  \/ ApplyRecord(p) \/ ApplyCommit(p) \/ ApplyFails(p) \/ CallFails(p) \/ Close(p)

Next == \E p \in Procs : Proceed(p) \/ OpenFails(p) \/ Crash(p) \/ Rerun(p)

Spec == Init /\ [][Next]_migVars

------------------------------- (* properties *) -----------------------------

Times(m) == Cardinality({i \in DOMAIN effects : effects[i] = m})

\* "each migration commits in its own transaction" (README): a body has run exactly
\* once if it is recorded and not at all if it is not, whatever dies or fails, and
\* however calls overlap; only DDL of MySQL may have run without a record.
RecordedRanOnce ==
  \A m \in history \cup ToSet(effects) :
    IF dialect = "mysql" /\ m.sum \in Ddl THEN m \in history => Times(m) >= 1
    ELSE Times(m) = IF m \in history THEN 1 ELSE 0

\* Streams and versions are applied in sorted order: where all processes have the
\* same files, a body runs only after those of the versions before it.
AppliedInOrder ==
  (\A p, q \in Procs : proc[p].sources = proc[q].sources) =>
    \A i, j \in DOMAIN effects :
      effects[i].stream = effects[j].stream /\ effects[i].version < effects[j].version =>
        \E k \in 1..j : effects[k] = effects[i]

\* A Migrate that returned nil left every one of its files applied and nothing
\* drifted, and it stays so: nobody unrecords a migration or rewrites its checksum.
MigratedIsApplied ==
  \A p \in Procs : At(p, "done") /\ proc[p].res = "ok" =>
    LET st == Status(Files(p), history) IN st.pending = {} /\ st.drifted = {}

\* "validates drift and orphans, then applies" (Migrate): a call whose files disagree
\* with what is recorded when it looks applies nothing.  SQLite looks without a lock.
OverNoDrift ==
  \A m \in history' \ history : \A p \in Procs :
    holder = p /\ dialect # "sqlite" => \A r \in history : r \in Files(p)

\* A connection that goes back to the pool holds no lock and no transaction.
PoolClean == \A p \in Procs : At(p, "done") => holder # p
=============================================================================
