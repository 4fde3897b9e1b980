---------------------------- MODULE JobInspect ----------------------------
(***************************************************************************)
(* What the job stores list (jobs/inspect.go): the jobs, read page by page   *)
(* while jobs are inserted, moved on and deleted, and the running workers,   *)
(* from the job_workers table that trySweep in jobs/worker.go keeps, each    *)
(* worker by its own clock.                                                 *)
(***************************************************************************)
EXTENDS Integers, Sequences, FiniteSets, FiniteSetsExt, SequencesExt

CONSTANTS
    JobIds,         \* identifiers a new job may draw: naturals, ordered as the code orders ids
    States,
    WorkerIds,
    Stale,          \* staleWorkerMultiplier times the lease
    Limits,         \* page sizes a caller asks for
    DefaultListLimit, MaxListLimit,
    Lag,            \* how old a clock reading may be when it is used
    MaxTime

VARIABLES
    now,
    backend,        \* the store that keeps the tables
    rows,           \* id -> [created, state]
    drawn,          \* identifiers drawn so far
    scan,           \* a caller reading page after page
    throughout,     \* rows that matched the filter ever since the scan began
    workers,        \* job_workers: id -> [started, seen]
    running,        \* running workers: id -> their last renewal
    sweeping        \* workers inside trySweep

jobVars == <<rows, drawn, scan, throughout>>
registryVars == <<workers, running, sweeping>>
inspectVars == <<now, backend, jobVars, registryVars>>

NoCursor == <<>>
Idle == [on |-> FALSE, filter |-> {}, limit |-> 0, cursor |-> NoCursor, got |-> <<>>]

Init ==
    /\ now = 1
    /\ backend \in {"memory", "sqlite", "postgres", "mysql"}
    /\ rows = <<>>
    /\ drawn = {}
    /\ scan = Idle
    /\ throughout = {}
    /\ workers = <<>> /\ running = <<>> /\ sweeping = {}

Readings == {t \in 1..MaxTime : now - Lag <= t /\ t <= now}
Put(f, k, v) == [i \in DOMAIN f \cup {k} |-> IF i = k THEN v ELSE f[i]]
Off(f, K) == [i \in DOMAIN f \ K |-> f[i]]

(***************************************************************************)
(* Jobs come, change state and go.                                          *)
(***************************************************************************)
Insert(id) ==
    /\ id \notin drawn
    /\ drawn' = drawn \cup {id}
    /\ \E t \in Readings, st \in States : rows' = Put(rows, id, [created |-> t, state |-> st])
    /\ UNCHANGED <<now, backend, scan, throughout, registryVars>>

Matches(id, f) == f = {} \/ rows[id].state \in f

Move(id) ==
    /\ \E st \in States \ {rows[id].state} : rows' = [rows EXCEPT ![id].state = st]
    /\ throughout' = throughout \ {id}
    /\ UNCHANGED <<now, backend, drawn, scan, registryVars>>

Delete(id) ==
    /\ rows' = Off(rows, {id})
    /\ throughout' = throughout \ {id}
    /\ UNCHANGED <<now, backend, drawn, scan, registryVars>>

(***************************************************************************)
(* List.  A page is the first rows, by creation and id, behind the cursor.   *)
(***************************************************************************)
NormalizeLimit(limit) ==
    IF limit <= 0 THEN DefaultListLimit ELSE Min({limit, MaxListLimit})

Precedes(a, b) ==
    \/ rows[a].created < rows[b].created
    \/ rows[a].created = rows[b].created /\ a < b
Sorted(S) == SetToSortSeq(S, Precedes)

\* EncodeCursor of a row, and the row it names when it is decoded.
EncodeCursor(id) == <<rows[id].created, id>>

Behind(id, c) ==
    c # NoCursor => rows[id].created > c[1] \/ (rows[id].created = c[1] /\ id > c[2])

Page(S, limit) ==
    LET s == Sorted(S)
    IN IF Len(s) > limit THEN [ids |-> SubSeq(s, 1, limit), next |-> EncodeCursor(s[limit])]
       ELSE [ids |-> s, next |-> NoCursor]

MemoryList(f, limit, c) ==
    Page({id \in DOMAIN rows : Matches(id, f) /\ Behind(id, c)}, NormalizeLimit(limit))

\* The SQL stores ask for one row more than the page: it only says that there is
\* a next page.
Queried(f, limit, c) ==
    LET s == Sorted({id \in DOMAIN rows : Matches(id, f) /\ Behind(id, c)})
    IN SubSeq(s, 1, Min({Len(s), limit}))

SqliteList(f, limit, c) == Page(ToSet(Queried(f, NormalizeLimit(limit) + 1, c)), NormalizeLimit(limit))

PostgresList(f, limit, c) == Page(ToSet(Queried(f, NormalizeLimit(limit) + 1, c)), NormalizeLimit(limit))

MysqlList(f, limit, c) == Page(ToSet(Queried(f, NormalizeLimit(limit) + 1, c)), NormalizeLimit(limit))

List(f, limit, c) ==
    CASE backend = "memory"   -> MemoryList(f, limit, c)
      [] backend = "sqlite"   -> SqliteList(f, limit, c)
      [] backend = "postgres" -> PostgresList(f, limit, c)
      [] backend = "mysql"    -> MysqlList(f, limit, c)

\* A caller starts a scan, and asks for the next page until there is none.
ListJobs ==
    /\ \E f \in SUBSET States, limit \in Limits :
         /\ f # States
         /\ scan.on => f = scan.filter /\ limit = scan.limit
         /\ LET p == List(f, limit, scan.cursor)
            IN scan' = [on |-> p.next # NoCursor, filter |-> f, limit |-> limit, cursor |-> p.next,
                        got |-> IF scan.on THEN scan.got \o p.ids ELSE p.ids]
         /\ throughout' = IF scan.on THEN throughout
                          ELSE {id \in DOMAIN rows : f = {} \/ rows[id].state \in f}
    /\ UNCHANGED <<now, backend, rows, drawn, registryVars>>

(***************************************************************************)
(* The registry of workers.                                                 *)
(***************************************************************************)
\* The first start of a row is kept.
MemoryUpsertWorker(w, t) ==
    Put(workers, w, [started |-> IF w \in DOMAIN workers THEN workers[w].started ELSE t, seen |-> t])
MemorySweepStale(before) == Off(workers, {w \in DOMAIN workers : workers[w].seen < before})
MemoryListWorkers == DOMAIN workers

\* The SQL stores insert, or update what the conflict clause names; a row whose
\* last_seen_at is 0 is never stale.
Conflict(w, t, updated) ==
    IF w \in DOMAIN workers THEN Put(workers, w, updated)
    ELSE Put(workers, w, [started |-> t, seen |-> t])
StaleRows(before) == {w \in DOMAIN workers : workers[w].seen > 0 /\ workers[w].seen < before}

SqliteUpsertWorker(w, t) == Conflict(w, t, [workers[w] EXCEPT !.seen = t])
SqliteSweepStale(before) == Off(workers, StaleRows(before))
SqliteListWorkers == DOMAIN workers

PostgresUpsertWorker(w, t) == Conflict(w, t, [workers[w] EXCEPT !.seen = t])
PostgresSweepStale(before) == Off(workers, StaleRows(before))
PostgresListWorkers == DOMAIN workers

MysqlUpsertWorker(w, t) == Conflict(w, t, [workers[w] EXCEPT !.seen = t])
MysqlSweepStale(before) == Off(workers, StaleRows(before))
MysqlListWorkers == DOMAIN workers

UpsertWorker(w, t) ==
    CASE backend = "memory" -> MemoryUpsertWorker(w, t) [] backend = "sqlite" -> SqliteUpsertWorker(w, t)
      [] backend = "postgres" -> PostgresUpsertWorker(w, t) [] OTHER -> MysqlUpsertWorker(w, t)
SweepStaleWorkers(before) ==
    CASE backend = "memory" -> MemorySweepStale(before) [] backend = "sqlite" -> SqliteSweepStale(before)
      [] backend = "postgres" -> PostgresSweepStale(before) [] OTHER -> MysqlSweepStale(before)
ListWorkers ==
    CASE backend = "memory" -> MemoryListWorkers [] backend = "sqlite" -> SqliteListWorkers
      [] backend = "postgres" -> PostgresListWorkers [] OTHER -> MysqlListWorkers

StartWorker(w) ==
    /\ w \notin DOMAIN running
    /\ \E t \in Readings :
         /\ workers' = UpsertWorker(w, t)
         /\ running' = Put(running, w, t)
    /\ UNCHANGED <<now, backend, jobVars, sweeping>>

\* trySweep: the stale rows go, then the worker renews its own.
trySweepStale(w) ==
    /\ w \in DOMAIN running \ sweeping
    /\ \E t \in Readings :
         workers' = SweepStaleWorkers(t - Stale)
    /\ sweeping' = sweeping \cup {w}
    /\ UNCHANGED <<now, backend, jobVars, running>>

trySweepRenew(w) ==
    /\ w \in sweeping
    /\ \E t \in Readings :
         /\ workers' = UpsertWorker(w, t)
         /\ running' = Put(running, w, t)
    /\ sweeping' = sweeping \ {w}
    /\ UNCHANGED <<now, backend, jobVars>>

\* A worker retires its row when it ends, or dies without.
StopWorker(w) ==
    /\ w \in DOMAIN running
    /\ workers' \in {Off(workers, {w}), workers}
    /\ running' = Off(running, {w})
    /\ sweeping' = sweeping \ {w}
    /\ UNCHANGED <<now, backend, jobVars>>

Tick ==
    /\ now < MaxTime
    /\ now' = now + 1
    /\ UNCHANGED <<backend, rows, drawn, scan, throughout, registryVars>>

Next ==
    \/ \E id \in JobIds : Insert(id)
    \/ \E id \in DOMAIN rows : Move(id) \/ Delete(id)
    \/ ListJobs
    \/ \E w \in WorkerIds : StartWorker(w) \/ trySweepStale(w) \/ trySweepRenew(w) \/ StopWorker(w)
    \/ Tick

Spec == Init /\ [][Next]_inspectVars

(***************************************************************************)
(* Properties.                                                              *)
(***************************************************************************)
\* No job is listed twice in a scan, and a scan that reached its end listed every
\* job that was there and matched from its beginning on, in every backend,
\* whatever came and went meanwhile (List's cursor).
ScanExact ==
    /\ \A i, j \in 1..Len(scan.got) : scan.got[i] = scan.got[j] => i = j
    /\ ~scan.on => throughout \subseteq ToSet(scan.got)

\* "ListWorkers returns the currently-alive workers": a running worker that
\* renewed its row within the stale limit is listed.
LiveListed ==
    \A w \in DOMAIN running : now - running[w] <= Stale => w \in ListWorkers
=============================================================================
