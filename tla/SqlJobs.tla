------------------------------- MODULE SqlJobs -------------------------------
(***************************************************************************)
(* The SQL job stores (jobs/sqlite, jobs/postgres, jobs/mysql), statement   *)
(* by statement.  They keep the table that JobStore describes; what differs *)
(* is what may happen between the first SELECT of a method and its UPDATE.  *)
(*                                                                         *)
(* SQLite runs a transaction alone.  PostgreSQL and MySQL run at READ       *)
(* COMMITTED: a SELECT sees the rows committed so far and locks nothing     *)
(* unless it says FOR UPDATE; an UPDATE locks the rows it matches, on their *)
(* present values, until the transaction commits.  So a method that reads   *)
(* and then writes is two steps, and what it read may be out of date by the *)
(* second.  The statements from the first locking one to the commit are one *)
(* step: the locks keep what they matched, and nobody sees it earlier.      *)
(***************************************************************************)
EXTENDS JobStore

CONSTANTS
  Dialects,  \* the stores under test
  Conns,     \* database connections, each with at most one call in progress
  NoCall,
  MaxCalls   \* bound: calls made in all

VARIABLES
  calls,     \* calls made so far
  dialect,
  tx         \* tx[s]: the call in progress on connection s and what its SELECT returned

sqlVars == <<row, uniq, ledger, claims, leases, now, calls, dialect, tx>>

Stored(j) == row[j].state \notin NoRow
Free(s) == tx[s] = NoCall
Serial == dialect = "sqlite"

Began(s, call) == tx' = [tx EXCEPT ![s] = call]
Ended(s) == tx' = [tx EXCEPT ![s] = NoCall]

-----------------------------------------------------------------------------
(* The unique index *)

\* The partial unique index (in MySQL over a generated column): live rows by key.
jobs_unique(r) ==
  [k \in Keys |-> IF \E j \in Jobs : Key[j] = k /\ r[j].state \in Live
                  THEN CHOOSE j \in Jobs : Key[j] = k /\ r[j].state \in Live ELSE NoJob]

Violates(j) == Key[j] \in Keys /\ uniq[Key[j]] \notin {NoJob, j}

Write(r) == row' = r /\ uniq' = jobs_unique(r)
Unwritten == UNCHANGED <<row, uniq, ledger>>

-----------------------------------------------------------------------------
(* The writing half of each method, given what its SELECT read             *)

\* insertOne: the lookup before the INSERT only saves work; the INSERT itself does
\* nothing when the index has a live holder.
InsertOne(j, at, t) ==
  /\ row[j].state = "unused" /\ ~Violates(j)
  /\ Write([row EXCEPT ![j] = NewRow(j, IF at > t THEN "pending" ELSE "available", at)])
  /\ UNCHANGED ledger

\* The SELECT of Claim: the first rows in claim order, as many as the limit.
Window(r, w, t, limit) ==
  LET due == {j \in Serves[w] : r[j].state \in Queued /\ r[j].availableAt <= t}
      before(i, j) == \/ Priority[i] > Priority[j]
                      \/ /\ Priority[i] = Priority[j]
                         /\ \/ r[i].availableAt < r[j].availableAt
                            \/ r[i].availableAt = r[j].availableAt /\ i < j
  IN {j \in due : Cardinality({i \in due : before(i, j)}) < limit}

\* The guarded UPDATE takes the rows of the window that are still queued.  The
\* claim's attempt number comes from the SELECT.
ClaimRows(r, w, t, limit) ==
  LET C == {j \in Window(r, w, t, limit) : row[j].state \in Queued /\ row[j].lockedBy = NoWorker} IN
  /\ \A j \in C : leases[j] < MaxLeases
  /\ Write([j \in Jobs |-> IF j \in C THEN Leased(row[j], w, t) ELSE row[j]])
  /\ leases' = [j \in Jobs |-> IF j \in C THEN leases[j] + 1 ELSE leases[j]]
  /\ claims' = claims \cup {[job |-> j, worker |-> w, attempt |-> r[j].attempt,
                             maxAttempts |-> r[j].maxAttempts, lease |-> leases[j] + 1] : j \in C}
  /\ UNCHANGED ledger

\* Mutant: the attempt stays when ownership was lost.
CompleteRowNoRollback(r, c, o) ==
  IF ~Owns(c) THEN ledger' = [ledger EXCEPT ![c.job] = Append(@, Entry(c.job, o.attempt))] /\ UNCHANGED <<row, uniq>>
  ELSE /\ Write([row EXCEPT ![c.job] = Unlocked(@, o.state)])
       /\ ledger' = [ledger EXCEPT ![c.job] = IF o.record THEN Append(@, Entry(c.job, o.attempt)) ELSE @]

\* Cancellation is decided by the row the SELECT saw; the UPDATE checks ownership
\* again and clears the request.  A release writes its attempt number back.
CompleteRow(r, c, o) ==
  LET a == IF r[c.job].cancelRequested
           THEN [o EXCEPT !.state = "cancelled", !.record = TRUE,
                          !.attempt = IF o.record THEN o.attempt ELSE row[c.job].attempt + 1]
           ELSE o
  IN IF ~Owns(c) THEN Unwritten
     ELSE /\ Write([row EXCEPT ![c.job] = [Unlocked(@, a.state) EXCEPT
                      !.attempt = a.attempt,
                      !.availableAt = IF a.state \in Queued /\ a.availableAt > 0
                                      THEN a.availableAt ELSE @]])
          /\ ledger' = [ledger EXCEPT ![c.job] =
                          IF a.record THEN Append(@, Entry(c.job, a.attempt)) ELSE @]

Overdue(r, t) ==
  {j \in Jobs : r[j].state = "running" /\ r[j].lockedUntil > 0 /\ r[j].lockedUntil <= t}

\* Mutant: the lease that is ended need not be the one that expired.
SameHolder(j, r) == row[j].state = "running" /\ row[j].lockedBy = r[j].lockedBy

\* The row still carries the lease the sweep saw.
SameLease(j, r) ==
  row[j].state = "running" /\ row[j].lockedBy = r[j].lockedBy /\ row[j].lockedUntil = r[j].lockedUntil

SweepRows(r, t) ==
  LET E == {j \in Overdue(r, t) : SameLease(j, r)} IN
  /\ Write([j \in Jobs |-> IF j \in E
       THEN [Unlocked(row[j], SweptState(r[j])) EXCEPT !.attempt = r[j].attempt + 1, !.availableAt = t]
       ELSE row[j]])
  /\ ledger' = [j \in Jobs |->
       IF j \in E THEN Append(ledger[j], Entry(j, r[j].attempt + 1)) ELSE ledger[j]]

\* The cap is computed from the SELECT; the UPDATE checks the state again and runs
\* into the index when another job has the key.
RetryRow(r, j, t) ==
  IF row[j].state \notin {"failed", "discarded", "cancelled"} \/ Violates(j) THEN Unwritten
  ELSE /\ Write([row EXCEPT ![j] = [Unlocked(@, "available") EXCEPT
                   !.maxAttempts = IF r[j].attempt >= r[j].maxAttempts THEN r[j].attempt + 1
                                   ELSE r[j].maxAttempts,
                   !.availableAt = t]])
       /\ UNCHANGED ledger

CancelQueued(j) ==
  /\ row[j].state \in Queued
  /\ Write([row EXCEPT ![j].state = "cancelled"])
  /\ UNCHANGED ledger

CancelRunning(j) ==
  IF row[j].state = "running"
  THEN Write([row EXCEPT ![j].cancelRequested = TRUE]) /\ UNCHANGED ledger
  ELSE Unwritten

\* The job goes first; its lock keeps Complete and the sweep from adding attempts.
DeleteRow(j) ==
  /\ Stored(j) /\ row[j].state # "running"
  /\ Write([row EXCEPT ![j] = NewRow(j, "deleted", 0)])
  /\ ledger' = [ledger EXCEPT ![j] = <<>>]

-----------------------------------------------------------------------------
(* SQLite: one step a method, but for Heartbeat, which uses no transaction  *)

SqliteInsert(j, at, t) == InsertOne(j, at, t) /\ UNCHANGED <<claims, leases, tx>>

SqliteClaim(w, t, limit) ==
  Window(row, w, t, limit) # {} /\ ClaimRows(row, w, t, limit) /\ UNCHANGED tx

SqliteComplete(c, o) == Owns(c) /\ CompleteRow(row, c, o) /\ UNCHANGED <<claims, leases, tx>>

SqliteSweepExpired(t) ==
  Overdue(row, t) # {} /\ SweepRows(row, t) /\ UNCHANGED <<claims, leases, tx>>

SqliteRetry(j, t) == Stored(j) /\ RetryRow(row, j, t) /\ UNCHANGED <<claims, leases, tx>>

SqliteCancel(j) ==
  /\ CancelQueued(j) \/ (row[j].state = "running" /\ CancelRunning(j))
  /\ UNCHANGED <<claims, leases, tx>>

SqliteDelete(j) == DeleteRow(j) /\ UNCHANGED <<claims, leases, tx>>

SqliteHeartbeat(s, c, t) ==
  /\ Free(s) /\ Owns(c)
  /\ Began(s, [op |-> "heartbeat", claim |-> c, t |-> t])
  /\ Unwritten /\ UNCHANGED <<claims, leases>>

SqliteExtend(s) ==
  LET c == tx[s].claim IN
  /\ ~Free(s) /\ tx[s].op = "heartbeat"
  /\ IF Owns(c) THEN Write([row EXCEPT ![c.job].lockedUntil = tx[s].t + Lease]) ELSE UNCHANGED <<row, uniq>>
  /\ Ended(s) /\ UNCHANGED <<ledger, claims, leases>>

SqliteNext ==
  \/ \E j \in Jobs, t \in Readings :
       \/ \E d \in Delays : SqliteInsert(j, t + d, t)
       \/ SqliteRetry(j, t)
  \/ \E w \in Workers, t \in Readings, limit \in Limits : SqliteClaim(w, t, limit)
  \/ \E c \in claims, t \in 0 .. now : \E o \in Outcomes(c, t) : SqliteComplete(c, o)
  \/ \E t \in Readings : SqliteSweepExpired(t)
  \/ \E j \in Jobs : SqliteCancel(j) \/ SqliteDelete(j)
  \/ \E s \in Conns : SqliteExtend(s) \/ \E c \in claims, t \in Readings : SqliteHeartbeat(s, c, t)

-----------------------------------------------------------------------------
(* PostgreSQL: a SELECT, and later the writes                               *)

Reads(s, call) ==
  /\ Free(s) /\ Began(s, call) /\ Unwritten /\ UNCHANGED <<claims, leases>>

PostgresInsert(j, at, t) == SqliteInsert(j, at, t)

PostgresClaim(s, w, t, limit) ==
  /\ Window(row, w, t, limit) # {}
  /\ Reads(s, [op |-> "claim", w |-> w, t |-> t, limit |-> limit, seen |-> row])

PostgresComplete(s, c, o) ==
  Owns(c) /\ Reads(s, [op |-> "complete", claim |-> c, o |-> o, seen |-> row])

PostgresSweepExpired(s, t) ==
  Overdue(row, t) # {} /\ Reads(s, [op |-> "sweep", t |-> t, seen |-> row])

PostgresRetry(s, j, t) ==
  /\ row[j].state \in Terminal \ {"succeeded"} /\ ~Violates(j)
  /\ Reads(s, [op |-> "retry", job |-> j, t |-> t, seen |-> row])

\* The first UPDATE cancels a queued job; if it matched nothing, a second marks a
\* running one, and the job may have changed in between.
PostgresCancel(s, j) ==
  /\ Stored(j) /\ Free(s)
  /\ \/ CancelQueued(j) /\ UNCHANGED tx
     \/ row[j].state \notin Queued /\ Began(s, [op |-> "cancel", job |-> j]) /\ Unwritten
  /\ UNCHANGED <<claims, leases>>

PostgresDelete(j) == SqliteDelete(j)
PostgresHeartbeat(s, c, t) == SqliteHeartbeat(s, c, t)

\* The writes of the call whose SELECT is done, and its commit.
Writes(s) ==
  LET x == tx[s] IN
  /\ ~Free(s)
  /\ CASE x.op = "claim" -> ClaimRows(x.seen, x.w, x.t, x.limit)
       [] x.op = "complete" -> CompleteRow(x.seen, x.claim, x.o) /\ UNCHANGED <<claims, leases>>
       [] x.op = "sweep" -> SweepRows(x.seen, x.t) /\ UNCHANGED <<claims, leases>>
       [] x.op = "retry" -> RetryRow(x.seen, x.job, x.t) /\ UNCHANGED <<claims, leases>>
       [] x.op = "cancel" -> CancelRunning(x.job) /\ UNCHANGED <<claims, leases>>
       [] OTHER -> FALSE
  /\ Ended(s)

\* The connection breaks before the commit: nothing is written.
Aborts(s) == ~Free(s) /\ Ended(s) /\ Unwritten /\ UNCHANGED <<claims, leases>>

PostgresNext ==
  \/ \E j \in Jobs, t \in Readings :
       \/ \E d \in Delays : PostgresInsert(j, t + d, t)
       \/ \E s \in Conns : PostgresRetry(s, j, t)
  \/ \E s \in Conns :
       \/ \E w \in Workers, t \in Readings, limit \in Limits : PostgresClaim(s, w, t, limit)
       \/ \E c \in claims, t \in Readings : PostgresHeartbeat(s, c, t)
       \/ \E c \in claims, t \in 0 .. now : \E o \in Outcomes(c, t) : PostgresComplete(s, c, o)
       \/ \E t \in Readings : PostgresSweepExpired(s, t)
       \/ \E j \in Jobs : PostgresCancel(s, j)
       \/ Writes(s) \/ SqliteExtend(s) \/ Aborts(s)
  \/ \E j \in Jobs : PostgresDelete(j)

-----------------------------------------------------------------------------
(* MySQL: as PostgreSQL, but Heartbeat and Cancel lock the row they read    *)

MysqlInsert(j, at, t) == SqliteInsert(j, at, t)
MysqlClaim(s, w, t, limit) == PostgresClaim(s, w, t, limit)
MysqlComplete(s, c, o) == PostgresComplete(s, c, o)
MysqlSweepExpired(s, t) == PostgresSweepExpired(s, t)
MysqlRetry(s, j, t) == PostgresRetry(s, j, t)
MysqlDelete(j) == SqliteDelete(j)

MysqlHeartbeat(c, t) ==
  /\ Owns(c)
  /\ Write([row EXCEPT ![c.job].lockedUntil = t + Lease])
  /\ UNCHANGED <<ledger, claims, leases, tx>>

MysqlCancel(j) == SqliteCancel(j)

MysqlNext ==
  \/ \E j \in Jobs, t \in Readings :
       \/ \E d \in Delays : MysqlInsert(j, t + d, t)
       \/ \E s \in Conns : MysqlRetry(s, j, t)
  \/ \E s \in Conns :
       \/ \E w \in Workers, t \in Readings, limit \in Limits : MysqlClaim(s, w, t, limit)
       \/ \E c \in claims, t \in 0 .. now : \E o \in Outcomes(c, t) : MysqlComplete(s, c, o)
       \/ \E t \in Readings : MysqlSweepExpired(s, t)
       \/ Writes(s) \/ Aborts(s)
  \/ \E c \in claims, t \in Readings : MysqlHeartbeat(c, t)
  \/ \E j \in Jobs : MysqlCancel(j) \/ MysqlDelete(j)

-----------------------------------------------------------------------------
(* The specification *)

SqlInit == Init /\ calls = 0 /\ dialect \in Dialects /\ tx = [s \in Conns |-> NoCall]

\* A worker holds its claim until the call it made with it returns.
InCall(c) == \E s \in Conns : ~Free(s) /\ tx[s].op \in {"complete", "heartbeat"} /\ tx[s].claim = c

SqlNext ==
  \/ /\ \/ dialect = "sqlite" /\ SqliteNext
        \/ dialect = "postgres" /\ PostgresNext
        \/ dialect = "mysql" /\ MysqlNext
     /\ calls' = calls + Cardinality({s \in Conns : tx'[s] # NoCall /\ tx[s] = NoCall})
                     + (IF tx' = tx THEN 1 ELSE 0)
     /\ calls' <= MaxCalls
     /\ UNCHANGED <<now, dialect>>
  \/ (Tick \/ \E c \in claims : ~InCall(c) /\ Drop({c})) /\ UNCHANGED <<calls, dialect, tx>>

SqlSpec == SqlInit /\ [][SqlNext]_sqlVars

-----------------------------------------------------------------------------
(* Properties *)

\* The attempts of a job go with it: no Complete or sweep that overlaps Delete
\* leaves ledger rows of a job that is gone (jobs.Store: "Delete removes a job and
\* its attempts").
NoOrphanAttempts == \A j \in Jobs : ledger[j] # <<>> => Stored(j)

\* A store that isolates its methods keeps an attempt for every live job.
SerialAttemptLeft == Serial => AttemptLeft

\* A store that isolates its methods never loses a cancellation request.
SerialCancellationWins == [][Serial => \A j \in Jobs :
  row[j].cancelRequested /\ row'[j].state # "running" => row'[j].state = "cancelled"]_sqlVars

\* The statements of Insert, Retry, Complete, SweepExpired and Delete keep one live job
\* per key and one outcome per lease, with its job, however two methods interleave.
SqlLedgerExact == UniqueLive /\ OneOutcomePerLease /\ NoOrphanAttempts /\ SerialAttemptLeft

\* A lease ends once, by its holder or its deadline, in every database; where methods
\* are isolated it never ends against a cancellation request (Complete, SweepExpired,
\* Cancel).
SqlLeasesEndOnce == LeasesEndOnce /\ SerialCancellationWins
=============================================================================
