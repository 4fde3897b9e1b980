----------------------------- MODULE MCJobStore -----------------------------
(* A small job table: jobs 1 and 3 contend for one key; 1 and 2 share a       *)
(* queue, in which 2 outranks 1; job 2 has a single attempt.                  *)
EXTENDS JobStore

MCQueue == [j \in Jobs |-> IF j = 3 THEN "bulk" ELSE "default"]
MCPriority == [j \in Jobs |-> IF j = 2 THEN 1 ELSE 0]
MCKey == [j \in Jobs |-> IF j \in {1, 3} THEN "k" ELSE NoKey]
MCMaxAttempts == [j \in Jobs |-> IF j = 2 THEN 1 ELSE 2]
MCServes == [w \in Workers |-> Jobs]

VARIABLE reclaimed   \* history: a worker was leased a job back while it held an earlier claim of it

mcVars == <<vars, reclaimed>>

MCInit == Init /\ reclaimed = FALSE
MCNext == Next /\ reclaimed' = (reclaimed \/ ~NoReclaim)
MCSpec == MCInit /\ [][MCNext]_mcVars

\* As long as no worker is leased a job back while it still holds an earlier claim
\* of it, Heartbeat and Complete accept only a claim of the current lease (store.go:
\* Heartbeat returns ErrNotFound when the lease was swept or stolen).
OwnsUntilReclaimed == ~reclaimed => OwnsCurrentLease

\* Until then, too, the ledger numbers the attempts 1, 2, 3, ... and the row counts
\* them.
GaplessUntilReclaimed == ~reclaimed => LedgerGapless

\* A lease gets one outcome at most, and until a worker is leased a job back the
\* outcomes come from current leases and number the attempts without a gap (Complete,
\* SweepExpired).
LedgerExact == OneOutcomePerLease /\ OwnsUntilReclaimed /\ GaplessUntilReclaimed
=============================================================================
