------------------------------ MODULE JobStore ------------------------------
(***************************************************************************)
(* The job table of package jobs, as jobs/store_memory.go keeps it: rows,   *)
(* the unique-key index and the attempt ledger.  The mutex of the memory    *)
(* store (and the transaction of a SQL store) makes every Store method one  *)
(* atomic step.                                                             *)
(*                                                                         *)
(* The callers are workers.  Claim hands a worker a ClaimedJob, a snapshot  *)
(* of the row it leased; `claims' holds the snapshots still in some         *)
(* worker's hands.  A worker may call Heartbeat or Complete with a claim    *)
(* for as long as it holds it, which may be long after the lease was swept  *)
(* and the job leased again: nothing in the protocol tells it.              *)
(*                                                                         *)
(* A caller reads its clock before it calls, so the time it passes may lag  *)
(* behind the time of the call: Readings.  An outcome is decided once and   *)
(* then tried for as long as Complete fails, so its time is any time so far.*)
(***************************************************************************)
EXTENDS Integers, FiniteSets, Sequences

CONSTANTS
  Jobs,         \* ids NewID may return; ordered, as id strings are
  Workers,      \* worker ids
  Queue,        \* Queue[j], Priority[j], Key[j]: columns no operation changes
  Priority,
  Key,          \* the (kind, handler-id, UniqueKey) triple, or NoKey
  MaxAttempts,  \* MaxAttempts[j]: the value the job is enqueued with
  Serves,       \* Serves[w]: the jobs in w's queues that w has a handler for
  NoKey, NoJob, NoWorker,
  Lease,        \* ClaimRequest.Lease
  Delays,       \* delays an enqueue or a retry backoff may ask for
  Limits,       \* values of ClaimRequest.Limit and of a queue's limit
  Lag,          \* how far behind a caller's clock reading may be
  MaxTime,      \* bound: the clock stops here
  MaxLeases     \* bound: leases per job

Keys == {Key[j] : j \in Jobs} \ {NoKey}

ASSUME JobsAssumption == Jobs \subseteq Nat /\ NoJob \notin Jobs
ASSUME WorkersAssumption == NoWorker \notin Workers
ASSUME ColumnsAssumption ==
  /\ Priority \in [Jobs -> Int]
  /\ MaxAttempts \in [Jobs -> Nat \ {0}]
  /\ Serves \in [Workers -> SUBSET Jobs]
ASSUME TimeAssumption ==
  /\ Lease \in Nat \ {0} /\ Delays \subseteq Nat
  /\ Limits \subseteq Nat \ {0} /\ Lag \in Nat /\ MaxTime \in Nat /\ MaxLeases \in Nat

VARIABLES
  row,      \* row[j]: the job's row; state "unused" or "deleted" when there is none
  uniq,     \* uniq[k]: the live job that holds key k, or NoJob
  ledger,   \* ledger[j]: the attempts recorded for j, in order
  claims,   \* the ClaimedJob snapshots workers hold
  leases,   \* leases[j]: leases granted on j so far; numbers them, no field of the code
  now       \* real time

storeVars == <<row, uniq, ledger>>
vars == <<row, uniq, ledger, claims, leases, now>>

Queued == {"available", "pending"}
Terminal == {"succeeded", "failed", "cancelled", "discarded"}
Live == Queued \cup {"running"}
NoRow == {"unused", "deleted"}
States == Live \cup Terminal \cup NoRow

Row == [state : States, attempt : Nat, maxAttempts : Nat, availableAt : Nat,
        lockedBy : Workers \cup {NoWorker}, lockedUntil : Nat,
        cancelRequested : BOOLEAN]

Claimed == [job : Jobs, worker : Workers, attempt : Nat, maxAttempts : Nat, lease : Nat]

\* record stands for a nonempty AttemptState; which one it is, nothing reads back.
Outcome == [state : Queued \cup Terminal, attempt : Nat, record : BOOLEAN, availableAt : Nat]

Readings == {t \in 0 .. now : t >= now - Lag}

-----------------------------------------------------------------------------
(* Helpers *)

NewRow(j, state, at) ==
  [state |-> state, attempt |-> 0, maxAttempts |-> MaxAttempts[j], availableAt |-> at,
   lockedBy |-> NoWorker, lockedUntil |-> 0, cancelRequested |-> FALSE]

\* Every way out of a lease clears the same three fields.
Unlocked(r, state) ==
  [r EXCEPT !.state = state, !.lockedBy = NoWorker, !.lockedUntil = 0,
            !.cancelRequested = FALSE]

Holder(k) == uniq[k]

\* The index entry counts only while it names an existing live row.
HeldLive(k) == Holder(k) # NoJob /\ row[Holder(k)].state \in Live

\* Mutant: a finished job keeps its index entry.
freeNothing(S) == uniq

\* Drop the index entries that the jobs of S hold under their own key.
freeUniq(S) == [k \in Keys |-> IF uniq[k] \in S /\ Key[uniq[k]] = k THEN NoJob ELSE uniq[k]]

-----------------------------------------------------------------------------
(* Operations *)

\* Insert: the jobs of a batch that are not duplicates.  A job whose key has a
\* live holder, or an earlier holder in the batch, leaves the store unchanged.
Insert(B, at, t) ==
  /\ \A j \in B : row[j].state = "unused"
  /\ \A j \in B : Key[j] \in Keys => ~HeldLive(Key[j])
  /\ \A i, j \in B : Key[i] = Key[j] /\ Key[i] \in Keys => i = j
  /\ row' = [j \in Jobs |->
       IF j \in B THEN NewRow(j, IF at[j] > t THEN "pending" ELSE "available", at[j])
                  ELSE row[j]]
  /\ uniq' = [k \in Keys |->
       IF \E j \in B : Key[j] = k THEN CHOOSE j \in B : Key[j] = k ELSE uniq[k]]
  /\ UNCHANGED <<ledger, claims, leases, now>>

Eligible(w, t) ==
  {j \in Serves[w] : row[j].state \in Queued /\ row[j].availableAt <= t}

\* Mutant: low priority first.
BeforeAscending(i, j) ==
  \/ Priority[i] < Priority[j]
  \/ Priority[i] = Priority[j] /\ row[i].availableAt < row[j].availableAt
  \/ Priority[i] = Priority[j] /\ row[i].availableAt = row[j].availableAt /\ i < j

\* Claim order: priority descending, available_at ascending, id ascending.
Before(i, j) ==
  \/ Priority[i] > Priority[j]
  \/ /\ Priority[i] = Priority[j]
     /\ \/ row[i].availableAt < row[j].availableAt
        \/ row[i].availableAt = row[j].availableAt /\ i < j

\* C is what the loop over the sorted candidates takes: a candidate is taken iff
\* those taken before it leave room under the limit and under its queue's limit.
Taken(C, cands, limit, queueLimits) ==
  \A j \in cands :
    LET earlier == {i \in C : Before(i, j)} IN
    j \in C <=> /\ Cardinality(earlier) < limit
                /\ Queue[j] \in DOMAIN queueLimits =>
                     Cardinality({i \in earlier : Queue[i] = Queue[j]}) < queueLimits[Queue[j]]

Leased(r, w, t) ==
  [r EXCEPT !.state = "running", !.lockedBy = w, !.lockedUntil = t + Lease]

ClaimOf(j, w) ==
  [job |-> j, worker |-> w, attempt |-> row[j].attempt,
   maxAttempts |-> row[j].maxAttempts, lease |-> leases[j] + 1]

\* delivered is FALSE when the rows are leased but the reply never arrives.
Claim(w, C, limit, queueLimits, t, delivered) ==
  /\ C \subseteq Eligible(w, t)
  /\ Taken(C, Eligible(w, t), limit, queueLimits)
  /\ \A j \in C : leases[j] < MaxLeases
  /\ row' = [j \in Jobs |-> IF j \in C THEN Leased(row[j], w, t) ELSE row[j]]
  /\ leases' = [j \in Jobs |-> IF j \in C THEN leases[j] + 1 ELSE leases[j]]
  /\ claims' = claims \cup (IF delivered THEN {ClaimOf(j, w) : j \in C} ELSE {})
  /\ UNCHANGED <<uniq, ledger, now>>

\* Mutant: the test forgets the state.
OwnsAnyState(c) == row[c.job].state \notin NoRow

\* The ownership test of Heartbeat and Complete: the worker id, nothing else.
Owns(c) == row[c.job].state = "running" /\ row[c.job].lockedBy = c.worker

Heartbeat(c, t) ==
  /\ Owns(c)
  /\ row' = [row EXCEPT ![c.job] = [@ EXCEPT !.lockedUntil = t + Lease]]
  /\ UNCHANGED <<uniq, ledger, claims, leases, now>>

\* Mutant: cancellation ignored.
ResolveIgnoresCancel(r, o) == o

\* A requested cancellation overrides the caller's outcome; a release, which
\* records nothing, is then recorded under the row's own next attempt number.
Resolve(r, o) ==
  IF ~r.cancelRequested THEN o
  ELSE [o EXCEPT !.state = "cancelled", !.record = TRUE,
                 !.attempt = IF o.record THEN o.attempt ELSE r.attempt + 1]

Completed(r, o) ==
  [Unlocked(r, o.state) EXCEPT
     !.attempt = IF o.record THEN o.attempt ELSE r.attempt,
     !.availableAt = IF o.state \in Queued THEN o.availableAt ELSE r.availableAt]

\* lease is the lease the entry ends, by the row's count: for the properties only.
Entry(j, attempt) == [attempt |-> attempt, lease |-> leases[j]]

Complete(c, o) ==
  LET j == c.job
      a == Resolve(row[j], o)
  IN /\ Owns(c)
     /\ row' = [row EXCEPT ![j] = Completed(row[j], a)]
     /\ ledger' = [ledger EXCEPT ![j] =
          IF a.record THEN Append(@, Entry(j, a.attempt)) ELSE @]
     /\ uniq' = IF a.state \in Terminal THEN freeUniq({j}) ELSE uniq
     /\ UNCHANGED <<claims, leases, now>>

\* What a worker asks Complete to write for a claim: success, permanent failure,
\* timeout, exhaustion, a retry with backoff, cancellation, or a release.
Outcomes(c, t) ==
  LET n == c.attempt + 1 IN
  {[state |-> s, attempt |-> n, record |-> TRUE, availableAt |-> 0] : s \in Terminal}
  \cup {[state |-> "pending", attempt |-> n, record |-> TRUE, availableAt |-> t + d] :
           d \in {e \in Delays : n < c.maxAttempts}}
  \cup {[state |-> "available", attempt |-> c.attempt, record |-> FALSE, availableAt |-> t]}

Expired(t) == {j \in Jobs : row[j].state = "running" /\ row[j].lockedUntil # 0
                            /\ row[j].lockedUntil <= t}

\* Mutant: an off-by-one in the exhaustion test.
SweptStateOneMore(r) ==
  IF r.cancelRequested THEN "cancelled"
  ELSE IF r.attempt + 1 > r.maxAttempts THEN "discarded" ELSE "available"

SweptState(r) ==
  IF r.cancelRequested THEN "cancelled"
  ELSE IF r.attempt + 1 >= r.maxAttempts THEN "discarded" ELSE "available"

Swept(r, t) ==
  [Unlocked(r, SweptState(r)) EXCEPT
     !.attempt = r.attempt + 1,
     !.availableAt = IF SweptState(r) = "available" THEN t ELSE r.availableAt]

SweepExpired(t) ==
  LET E == Expired(t) IN
  /\ E # {}
  /\ row' = [j \in Jobs |-> IF j \in E THEN Swept(row[j], t) ELSE row[j]]
  /\ ledger' = [j \in Jobs |->
       IF j \in E
       THEN Append(ledger[j], Entry(j, row[j].attempt + 1)) ELSE ledger[j]]
  /\ uniq' = freeUniq({j \in E : SweptState(row[j]) \in Terminal})
  /\ UNCHANGED <<claims, leases, now>>

\* A job at its cap gets one attempt more.
Revived(r, t) ==
  [Unlocked(r, "available") EXCEPT
     !.maxAttempts = IF r.attempt >= r.maxAttempts THEN r.attempt + 1 ELSE r.maxAttempts,
     !.availableAt = t]

\* A holder other than j that is still live blocks the revival.
Retry(j, t) ==
  /\ row[j].state \in Terminal \ {"succeeded"}
  /\ Key[j] \in Keys => (Holder(Key[j]) = j \/ ~HeldLive(Key[j]))
  /\ row' = [row EXCEPT ![j] = Revived(row[j], t)]
  /\ uniq' = IF Key[j] \in Keys THEN [uniq EXCEPT ![Key[j]] = j] ELSE uniq
  /\ UNCHANGED <<ledger, claims, leases, now>>

Cancel(j) ==
  \/ /\ row[j].state = "running"
     /\ row' = [row EXCEPT ![j] = [@ EXCEPT !.cancelRequested = TRUE]]
     /\ UNCHANGED <<uniq, ledger, claims, leases, now>>
  \/ /\ row[j].state \in Queued
     /\ row' = [row EXCEPT ![j] = [@ EXCEPT !.state = "cancelled"]]
     /\ uniq' = freeUniq({j})
     /\ UNCHANGED <<ledger, claims, leases, now>>

Delete(j) ==
  /\ row[j].state \in Queued \cup Terminal
  /\ row' = [row EXCEPT ![j] = NewRow(j, "deleted", 0)]
  /\ ledger' = [ledger EXCEPT ![j] = <<>>]
  /\ uniq' = freeUniq({j})
  /\ UNCHANGED <<claims, leases, now>>

\* Claims go out of hand: a run returned, or a process died with all of its runs.
Drop(D) ==
  /\ claims' = claims \ D
  /\ UNCHANGED <<row, uniq, ledger, leases, now>>

Tick ==
  /\ now < MaxTime
  /\ now' = now + 1
  /\ UNCHANGED <<row, uniq, ledger, claims, leases>>

-----------------------------------------------------------------------------
(* The specification *)

Init ==
  /\ row = [j \in Jobs |-> NewRow(j, "unused", 0)]
  /\ uniq = [k \in Keys |-> NoJob]
  /\ ledger = [j \in Jobs |-> <<>>]
  /\ claims = {}
  /\ leases = [j \in Jobs |-> 0]
  /\ now = 0

\* QueueLimits: no entry for a queue without a PerQueue budget, 0 for a full queue.
QueueLimits == UNION {[Q -> Limits \cup {0}] : Q \in SUBSET {Queue[j] : j \in Jobs}}

Next ==
  \/ \E B \in (SUBSET Jobs) \ {{}}, t \in Readings :
       \E at \in [B -> {0} \cup {t + d : d \in Delays}] : Insert(B, at, t)
  \/ \E w \in Workers, t \in Readings, delivered \in BOOLEAN :
       \E C \in (SUBSET Eligible(w, t)) \ {{}}, limit \in Limits, ql \in QueueLimits :
         Claim(w, C, limit, ql, t, delivered)
  \/ \E c \in claims, t \in Readings : Heartbeat(c, t)
  \/ \E c \in claims, t \in 0 .. now : \E o \in Outcomes(c, t) : Complete(c, o)
  \/ \E t \in Readings : SweepExpired(t)
  \/ \E j \in Jobs, t \in Readings : Retry(j, t)
  \/ \E j \in Jobs : Cancel(j) \/ Delete(j)
  \/ \E D \in SUBSET claims : Drop(D)
  \/ Tick

Spec == Init /\ [][Next]_vars

\* The lease of a job never comes back to a worker that still holds an earlier
\* claim of it.  The code does not ensure this: it holds while a worker that
\* loses a lease lets go of the claim before it polls again.
NoReclaim ==
  \A c \in claims : leases'[c.job] # leases[c.job] => row'[c.job].lockedBy # c.worker

-----------------------------------------------------------------------------
(* Properties *)

\* The columns hold what the code can store in them (memRow, Attempt, ClaimedJob).
TypeOK ==
  /\ row \in [Jobs -> Row]
  /\ uniq \in [Keys -> Jobs \cup {NoJob}]
  /\ ledger \in [Jobs -> Seq([attempt : Nat, lease : Nat])]
  /\ claims \subseteq Claimed
  /\ leases \in [Jobs -> Nat]
  /\ now \in Nat

\* The unique-key index is exact: it maps k to j iff j is live and has key k, so
\* dedupe in Insert and Retry neither misses a live job nor trips over a dead one,
\* whatever mix of completion, sweep, cancel, delete and revival came before.
UniqIndexExact ==
  \A k \in Keys, j \in Jobs : uniq[k] = j <=> row[j].state \in Live /\ Key[j] = k

\* No two live jobs share a unique key.
UniqueLive ==
  \A i, j \in Jobs :
    row[i].state \in Live /\ row[j].state \in Live /\ Key[i] = Key[j] /\ Key[i] \in Keys
      => i = j

\* A row is locked, with a deadline the sweep can see, exactly while it runs, and
\* only a running row carries a cancellation request: no lock or request leaks
\* into the next lease of the job.
LeaseShape ==
  \A j \in Jobs :
    LET r == row[j] running == r.state = "running" IN
    /\ running <=> r.lockedBy # NoWorker
    /\ running <=> r.lockedUntil # 0
    /\ r.cancelRequested => running

\* A job that can still run has an attempt left (README: MaxAttempts counts total
\* executions): no order of sweeps, stale completions, releases and operator
\* retries leaves an exhausted job claimable.
AttemptLeft ==
  \A j \in Jobs : row[j].state \in Live => row[j].attempt < row[j].maxAttempts

\* At most one outcome is recorded per lease, even when several claims pass the
\* ownership test: whoever completes or sweeps first ends the lease for all.
OneOutcomePerLease ==
  \A j \in Jobs : \A m, n \in 1 .. Len(ledger[j]) :
    m < n => ledger[j][m].lease < ledger[j][n].lease

\* The ledger numbers the attempts 1, 2, 3, ... and the row counts them.
LedgerGapless ==
  \A j \in Jobs :
    /\ Len(ledger[j]) = row[j].attempt \/ row[j].state \in NoRow
    /\ \A n \in 1 .. Len(ledger[j]) : ledger[j][n].attempt = n

\* Heartbeat and Complete accept only a claim of the current lease (store.go:
\* Heartbeat returns ErrNotFound when the lease was swept or stolen).
OwnsCurrentLease == \A c \in claims : Owns(c) => c.lease = leases[c.job]

\* A lease on which cancellation was requested ends in cancelled, whichever of
\* Complete and SweepExpired ends it (store.go: Cancellation wins).
CancellationWins ==
  [][\A j \in Jobs : row[j].cancelRequested /\ row'[j].state # "running"
                        => row'[j].state = "cancelled"]_vars

\* A lease ends early only by a call of the worker that holds it: nothing takes an
\* unexpired lease away, and a sweep that read its clock late is merely late.
LeaseRespected ==
  \A j \in Jobs : row[j].state = "running" /\ row'[j].state # "running" =>
    \/ row[j].lockedUntil <= now
    \/ \E c \in claims : c.job = j /\ c.worker = row[j].lockedBy

\* A claim never overtakes: a job that was due no later, with no lower priority, in
\* the same queue and for the same worker, is leased by the same step or was
\* already leased.  The two limits of the claim loop do not break the order.
NoOvertaking ==
  [][\A i, j \in Jobs :
       /\ Queue[i] = Queue[j] /\ Priority[i] >= Priority[j]
       /\ leases'[j] # leases[j] /\ i \in Serves[row'[j].lockedBy]
       /\ row[i].state \in Queued /\ row[i].availableAt <= row[j].availableAt
       /\ Priority[i] > Priority[j] \/ row[i].availableAt < row[j].availableAt \/ i < j
       => leases'[i] # leases[i]]_vars

\* A finished job changes only by revival or deletion, never by a late completion
\* or sweep; a succeeded one is never revived.
TerminalFinal ==
  \A j \in Jobs : row[j].state \in Terminal /\ row'[j].state # row[j].state =>
    \/ row'[j].state = "deleted"
    \/ row'[j].state = "available" /\ row[j].state # "succeeded"

\* The columns, the lock and the attempt counter of a row stay in step through every
\* order of claims, completions, sweeps, cancellations and operator retries.
WellFormed == TypeOK /\ LeaseShape /\ AttemptLeft

\* A lease ends by its holder or by its deadline, and what it ended stays ended: the
\* late calls of Heartbeat, Complete and SweepExpired change nothing.
LeaseEnds == LeaseRespected /\ TerminalFinal
LeasesEndOnce == [][LeaseEnds]_vars
=============================================================================
