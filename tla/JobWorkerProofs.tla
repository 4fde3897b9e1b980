-------------------------- MODULE JobWorkerProofs ---------------------------
(***************************************************************************)
(* The workers keep to their limits and implement the contract of the job  *)
(* store.  WorkerInv, the inductive invariant, says beside the types: how   *)
(* far each run can be and what its fields hold by then (RunsOK); that the  *)
(* room a poll read is still there when its claim arrives, since runs only  *)
(* end meanwhile (LoopOK); and that a registered run is found under its own *)
(* worker and job (RegistryOK).                                             *)
(***************************************************************************)
EXTENDS JobWorker, JobStoreProofs, FiniteSetTheorems

-----------------------------------------------------------------------------
(* What one claim takes *)

\* The claim order is a strict order in which any two jobs compare.
LEMMA BeforeOrder ==
  ASSUME TypeOK, NEW i \in Jobs, NEW j \in Jobs, NEW k \in Jobs
  PROVE  /\ ~Before(i, i)
         /\ i # j => Before(i, j) \/ Before(j, i)
         /\ Before(i, j) /\ Before(j, k) => Before(i, k)
<1>1. \A n \in Jobs : n \in Nat /\ Priority[n] \in Int /\ row[n].availableAt \in Nat
  BY JobsAssumption, ColumnsAssumption DEF TypeOK, Row
<1> QED BY <1>1 DEF Before

\* Of jobs that all have fewer than n of them before, there are at most n: two of
\* them cannot have the same number before.
LEMMA AtMost ==
  ASSUME TypeOK, NEW D \in SUBSET Jobs, IsFiniteSet(D), NEW n \in Nat,
         \A j \in D : Cardinality({i \in D : Before(i, j)}) < n
  PROVE  Cardinality(D) <= n
<1> DEFINE before(j) == {i \in D : Before(i, j)}
           f == [j \in D |-> Cardinality(before(j))]
<1>1. \A j \in D : IsFiniteSet(before(j)) /\ Cardinality(before(j)) \in Nat
  BY FS_Subset, FS_CardinalityType
<1>2. ASSUME NEW i \in D, NEW j \in D, Before(i, j)
      PROVE  Cardinality(before(i)) < Cardinality(before(j))
  <2>1. before(i) \subseteq before(j) /\ i \in before(j) /\ i \notin before(i)
    BY <1>2, BeforeOrder
  <2>2. before(i) \in SUBSET (before(j) \ {i})
    BY <2>1
  <2>3. IsFiniteSet(before(j) \ {i}) /\ Cardinality(before(j) \ {i}) = Cardinality(before(j)) - 1
    BY <1>1, <2>1, FS_RemoveElement
  <2>4. Cardinality(before(i)) <= Cardinality(before(j) \ {i})
    BY <2>2, <2>3, FS_Subset
  <2> HIDE DEF before
  <2> QED BY <1>1, <2>3, <2>4
<1>3. f \in [D -> 0 .. n - 1]
  BY <1>1
<1>4. IsFiniteSet(0 .. n - 1) /\ Cardinality(0 .. n - 1) = n
  BY FS_Interval
<1>5. Cardinality(D) \in Nat
  BY FS_CardinalityType
<1>6. ASSUME n < Cardinality(D) PROVE FALSE
  <2>1. PICK x \in D, y \in D : x # y /\ f[x] = f[y]
    <3> HIDE DEF f
    <3> QED BY <1>3, <1>4, <1>6, FS_PigeonHole
  <2>2. Before(x, y) \/ Before(y, x)
    BY <2>1, BeforeOrder
  <2>3. Cardinality(before(x)) = Cardinality(before(y))
    BY <2>1
  <2> HIDE DEF before
  <2> QED BY <1>1, <1>2, <2>2, <2>3
<1> QED BY <1>5, <1>6

\* Claim takes no more than its limit, and of a queue no more than the queue's.
LEMMA TakenFits ==
  ASSUME TypeOK, NEW cands \in SUBSET Jobs, NEW C \in SUBSET cands, IsFiniteSet(C),
         NEW limit \in Nat, NEW ql, \A q \in DOMAIN ql : ql[q] \in Nat,
         Taken(C, cands, limit, ql)
  PROVE  /\ Cardinality(C) <= limit
         /\ \A q \in DOMAIN ql : Cardinality({i \in C : Queue[i] = q}) <= ql[q]
<1>1. Cardinality(C) <= limit
  <2>1. \A j \in C : Cardinality({i \in C : Before(i, j)}) < limit
    BY DEF Taken
  <2> QED BY <2>1, AtMost
<1>2. ASSUME NEW q \in DOMAIN ql PROVE Cardinality({i \in C : Queue[i] = q}) <= ql[q]
  <2> DEFINE D == {i \in C : Queue[i] = q}
  <2>1. ASSUME NEW j \in D PROVE Cardinality({i \in D : Before(i, j)}) < ql[q]
    <3>1. Cardinality({i \in {k \in C : Before(k, j)} : Queue[i] = Queue[j]}) < ql[Queue[j]]
      BY DEF Taken
    <3>2. {i \in {k \in C : Before(k, j)} : Queue[i] = Queue[j]} = {i \in D : Before(i, j)}
      OBVIOUS
    <3> QED BY <3>1, <3>2
  <2>2. D \in SUBSET Jobs /\ IsFiniteSet(D)
    BY FS_Subset
  <2> HIDE DEF D
  <2>3. Cardinality(D) <= ql[q]
    BY <2>1, <2>2, AtMost
  <2> QED BY <2>3 DEF D
<1> QED BY <1>1, <1>2
-----------------------------------------------------------------------------
(* The inductive invariant *)

\* Where a run is decides which phases it can be in, when its heartbeat can still
\* run, and when it has an outcome.
RunShape(c, r) ==
  /\ r.pc = "claimed" => r.phase = "registered"
  /\ r.pc = "launched" => r.phase \in {"registered", "abandoned"}
  /\ r.pc \in {"handler", "returned"} => r.phase \in {"running", "abandoned"}
  /\ r.pc = "complete" => r.phase = "resolving" /\ \E t \in 0 .. now : r.out \in Outcomes(c, t)
  /\ r.pc \in {"finished", "gone"} => r.phase \in {"resolving", "abandoned"}
  /\ r.pc \notin {"finished", "gone"} => r.tries < Tries
  /\ r.hb => r.pc \in {"handler", "returned"}
  /\ r.cancelByUser => r.pc \notin {"claimed", "launched"}
  /\ r.out # NoClaim => r.pc \in {"complete", "finished", "gone"}
  /\ r.cancelByUser /\ r.out # NoClaim => r.out.state = "cancelled"

RunsOK == run \in [claims -> Run] /\ \A c \in claims : RunShape(c, run[c])

Ask == [limit : 0 .. Concurrency, queues : {<<>>} \cup [DOMAIN PerQueue -> Nat]]

\* What tryClaim read is still free when it claims: only its own loop takes slots.
Room(w) ==
  /\ ask[w].limit # 0 /\ Cardinality(RunsOf(w)) + ask[w].limit <= Concurrency
  /\ ask[w].queues \in [DOMAIN PerQueue -> Nat]
  /\ \A q \in DOMAIN PerQueue : Cardinality(InQueue(w, q)) + ask[w].queues[q] <= PerQueue[q]

LoopOK ==
  /\ loop \in [Workers -> {"new", "polling", "claiming", "draining", "ranging", "returned", "dead"}]
  /\ ask \in [Workers -> Ask]
  /\ \A w \in Workers : loop[w] = "claiming" => Room(w)

\* A registered run is registered under its own worker and job, and is not over.
RegistryOK ==
  /\ active \in [Workers -> [Jobs -> claims \cup {NoClaim}]]
  /\ \A w \in Workers, j \in Jobs : active[w][j] # NoClaim =>
       /\ active[w][j].worker = w /\ active[w][j].job = j
       /\ run[active[w][j]].pc \notin {"claimed", "gone"}

DrainOK ==
  drain \in [Workers -> [draining : BOOLEAN, toVisit : SUBSET Jobs,
                         abandoned : BOOLEAN, exceeded : BOOLEAN]]

ClaimsOK == IsFiniteSet(claims) /\ WithinLimits

WorkerInv == TypeOK /\ ClaimsOK /\ RunsOK /\ LoopOK /\ RegistryOK /\ DrainOK

LEMMA InvInit == WorkerInit => WorkerInv
<1> SUFFICES ASSUME WorkerInit PROVE WorkerInv
  OBVIOUS
<1>1. TypeOK
  BY TypeInit DEF WorkerInit
<1>2. claims = {}
  BY DEF WorkerInit, Init
<1>3. ClaimsOK
  <2>1. \A w \in Workers : RunsOf(w) = {} /\ \A q \in DOMAIN PerQueue : InQueue(w, q) = {}
    BY <1>2 DEF RunsOf, InQueue
  <2>2. Cardinality({}) = 0 /\ IsFiniteSet(claims)
    BY <1>2, FS_EmptySet
  <2>3. 0 <= Concurrency /\ \A q \in DOMAIN PerQueue : 0 <= PerQueue[q]
    BY WorkerAssumption
  <2>4. WithinLimits
    <3> SUFFICES ASSUME NEW w \in Workers
                 PROVE  /\ Cardinality(RunsOf(w)) <= Concurrency
                        /\ \A q \in DOMAIN PerQueue : Cardinality(InQueue(w, q)) <= PerQueue[q]
      BY DEF WithinLimits
    <3> QED BY <2>1, <2>2, <2>3
  <2> QED BY <2>2, <2>4 DEF ClaimsOK
<1>4. RunsOK
  BY <1>2 DEF WorkerInit, RunsOK
<1>5. LoopOK
  BY WorkerAssumption DEF WorkerInit, LoopOK, Ask, NoAsk
<1>6. RegistryOK
  BY DEF WorkerInit, RegistryOK
<1>7. DrainOK
  BY DEF WorkerInit, DrainOK, NoDrain
<1> QED BY <1>1, <1>3, <1>4, <1>5, <1>6, <1>7 DEF WorkerInv

-----------------------------------------------------------------------------
(* The worker's calls are calls the store foresees *)

\* The outcome a run decides on is one of those the store foresees for its claim.
LEMMA OutcomeForeseen ==
  ASSUME NEW c \in Claimed, NEW t \in Nat, NEW d \in Delays
  PROVE  /\ decideOutcome(c, t, d) \in Outcomes(c, t)
         /\ Ends(c, "failed", 0) \in Outcomes(c, t)
<1>1. \A s \in Terminal : Ends(c, s, 0) \in Outcomes(c, t)
  BY DEF Ends, Outcomes
<1>2. retryOr(c, t, d) \in Outcomes(c, t)
  <2>1. CASE c.attempt + 1 >= c.maxAttempts
    BY <1>1, <2>1 DEF retryOr, Terminal
  <2>2. CASE ~(c.attempt + 1 >= c.maxAttempts)
    <3>1. c.attempt + 1 < c.maxAttempts
      BY <2>2 DEF Claimed
    <3> QED BY <2>2, <3>1 DEF retryOr, Ends, Outcomes
  <2> QED BY <2>1, <2>2
<1>3. dispatchTimeout(c, t, d) \in Outcomes(c, t)
  BY <1>1, <1>2 DEF dispatchTimeout, Terminal
<1>4. [state |-> "available", attempt |-> c.attempt, record |-> FALSE, availableAt |-> t]
        \in Outcomes(c, t)
  BY DEF Outcomes
<1> HIDE DEF Outcomes
<1>5. decideOutcome(c, t, d) \in Outcomes(c, t)
  BY <1>1, <1>2, <1>3, <1>4 DEF decideOutcome, Terminal
<1> QED BY <1>1, <1>5 DEF Terminal

LEMMA ClaimForeseen ==
  ASSUME WorkerInv, NEW w \in Workers, loop[w] = "claiming"
  PROVE  ask[w].limit \in Limits /\ ask[w].queues \in QueueLimits
<1>1. Room(w) /\ ask[w] \in Ask
  BY DEF WorkerInv, LoopOK
<1>2. ask[w].limit \in 1 .. Concurrency
  BY <1>1 DEF Ask, Room
<1>3. ASSUME NEW q \in DOMAIN PerQueue PROVE ask[w].queues[q] \in Limits \cup {0}
  <2>1. IsFiniteSet(InQueue(w, q))
    BY FS_Subset DEF WorkerInv, ClaimsOK, InQueue, RunsOf
  <2>2. Cardinality(InQueue(w, q)) \in Nat
    BY <2>1, FS_CardinalityType
  <2>3. ask[w].queues[q] \in 0 .. PerQueue[q]
    BY <1>1, <2>2, WorkerAssumption DEF Room
  <2> QED BY <2>3, WorkerAssumption
<1>4. ask[w].queues \in [DOMAIN PerQueue -> Limits \cup {0}]
  BY <1>1, <1>3 DEF Room
<1> QED BY <1>2, <1>4, WorkerAssumption DEF QueueLimits

\* A worker's step is a step of JobStore or leaves the store alone.
LEMMA StoreStep == WorkerInv /\ [WorkerNext]_allVars => [Next]_vars
<1> SUFFICES ASSUME WorkerInv, WorkerNext PROVE [Next]_vars
  BY DEF allVars, vars
<1>0. /\ TypeOK /\ now \in Nat /\ claims \subseteq Claimed
      /\ Clock \subseteq Readings /\ Readings \subseteq Nat
  BY ReadingsNat DEF WorkerInv, TypeOK, Clock
<1>1. ASSUME NEW w \in Workers, LoopStep(w) PROVE [Next]_vars
  <2>1. ASSUME NEW t \in Clock, NEW C \in (SUBSET Eligible(w, t)) \ {{}}, NEW delivered \in BOOLEAN,
               loop[w] = "claiming", Claim(w, C, ask[w].limit, ask[w].queues, t, delivered)
        PROVE  Next
    <3>1. ask[w].limit \in Limits /\ ask[w].queues \in QueueLimits /\ t \in Readings
      BY <1>0, <2>1, ClaimForeseen
    <3> QED BY <2>1, <3>1, Zenon DEF Next
  <2>2. ASSUME NEW t \in Clock, NEW C \in (SUBSET Eligible(w, t)) \ {{}},
               tryClaim(w, C, t) \/ tryClaimLost(w, C, t)
        PROVE  Next
    BY <2>1, <2>2, Zenon DEF tryClaim, tryClaimLost, ClaimReturns
  <2>3. ASSUME NEW t \in Clock, trySweep(w, t) PROVE Next
    BY <1>0, <2>3 DEF trySweep, Next
  <2>4. ASSUME Crash(w) PROVE Next
    <3>1. RunsOf(w) \in SUBSET claims /\ Drop(RunsOf(w))
      BY <2>4 DEF Crash, RunsOf
    <3> QED BY <3>1, Zenon DEF Next
  <2>5. ASSUME \/ Start(w) \/ ReadRoom(w) \/ tryClaimNothing(w)
               \/ \E c \in RunsOf(w) : Launch(c)
               \/ Shutdown(w) \/ DrainDone(w) \/ DrainDeadline(w)
               \/ \E j \in Jobs : Visit(w, j)
               \/ \E exceeded \in BOOLEAN : DrainReturn(w, exceeded)
               \/ Restart(w)
        PROVE  UNCHANGED vars
    BY <2>5, Zenon DEF Start, ReadRoom, tryClaimNothing, Launch, Shutdown, DrainDone, DrainDeadline,
                       Visit, DrainReturn, Restart
  <2> QED BY <1>1, <2>2, <2>3, <2>4, <2>5, Zenon DEF LoopStep
<1>2. ASSUME NEW c \in claims, HeartbeatStep(c) PROVE [Next]_vars
  <2>1. ASSUME NEW t \in Clock, heartbeat(c, t) \/ heartbeatLost(c, t) PROVE Next
    <3>1. Heartbeat(c, t) /\ t \in Readings
      BY <1>0, <2>1 DEF heartbeat, heartbeatLost
    <3> QED BY <3>1, Zenon DEF Next
  <2>2. ASSUME heartbeatNotFound(c) \/ heartbeatExit(c) PROVE UNCHANGED vars
    BY <2>2, Zenon DEF heartbeatNotFound, heartbeatExit
  <2> QED BY <1>2, <2>1, <2>2, Zenon DEF HeartbeatStep
<1>3. ASSUME NEW c \in claims, RunStep(c) PROVE [Next]_vars
  <2>1. ASSUME complete(c) \/ completeLost(c) PROVE Next
    <3>1. run[c].pc = "complete" /\ Complete(c, run[c].out)
      BY <2>1 DEF complete, completeLost
    <3>2. PICK t \in 0 .. now : run[c].out \in Outcomes(c, t)
      BY <3>1 DEF WorkerInv, RunsOK, RunShape
    <3> QED BY <3>1, <3>2, Zenon DEF Next
  <2>2. ASSUME Release(c) PROVE Next
    <3>1. {c} \in SUBSET claims /\ Drop({c})
      BY <2>2 DEF Release
    <3> QED BY <3>1, Zenon DEF Next
  <2>3. ASSUME \/ Begin(c) \/ Timeout(c)
               \/ \E result \in {"ok", "error", "permanent", "canceled"} : HandlerReturn(c, result)
               \/ \E t \in Clock, d \in Delays : BeginResolve(c, t, d)
               \/ completeFailed(c) \/ completeNotFound(c) \/ Deregister(c)
        PROVE  UNCHANGED vars
    BY <2>3, Zenon
        DEF Begin, Timeout, HandlerReturn, BeginResolve, completeFailed, completeNotFound,
                       Deregister
  <2> QED BY <1>3, <2>1, <2>2, <2>3, Zenon DEF RunStep
<1>4. ASSUME ClientStep PROVE Next
  <2>1. ASSUME NEW j \in Jobs, NEW t \in Clock, Insert({j}, [i \in {j} |-> 0], t) PROVE Next
    <3>1. /\ {j} \in (SUBSET Jobs) \ {{}} /\ t \in Readings
          /\ [i \in {j} |-> 0] \in [{j} -> {0} \cup {t + d : d \in Delays}]
      BY <1>0
    <3> QED BY <2>1, <3>1, Zenon DEF Next
  <2>2. ASSUME NEW j \in Jobs, NEW t \in Clock, Retry(j, t) PROVE Next
    <3>1. t \in Readings
      BY <1>0
    <3> QED BY <2>2, <3>1, Zenon DEF Next
  <2>3. ASSUME NEW j \in Jobs, Cancel(j) \/ Delete(j) PROVE Next
    BY <2>3, Zenon DEF Next
  <2>4. ASSUME Tick PROVE Next
    BY <2>4, Zenon DEF Next
  <2> QED BY <1>4, <2>1, <2>2, <2>3, <2>4, Zenon DEF ClientStep
<1> QED BY <1>1, <1>2, <1>3, <1>4, Zenon DEF WorkerNext

-----------------------------------------------------------------------------
(* Runs *)

\* A step that moves one run to a record of the right shape keeps all runs in shape.
LEMMA OneRun ==
  ASSUME RunsOK, NEW c \in claims, NEW r \in Run, RunShape(c, r), SetRun(c, r),
         claims' = claims, now' = now
  PROVE  RunsOK'
<1>1. run' \in [claims -> Run] /\ \A b \in claims : run'[b] = IF b = c THEN r ELSE run[b]
  BY DEF SetRun, RunsOK
<1>2. ASSUME NEW b \in claims PROVE RunShape(b, run'[b])
  BY <1>1 DEF RunsOK
<1>3. ASSUME NEW b \in claims PROVE RunShape(b, run[b])' 
  BY <1>2 DEF RunShape
<1> QED BY <1>1, <1>3 DEF RunsOK

LEMMA SameRuns ==
  ASSUME TypeOK, RunsOK, claims' \subseteq claims, run' = [c \in claims' |-> run[c]],
         now' = now \/ now' = now + 1
  PROVE  RunsOK'
<1>1. \A t \in 0 .. now : t \in 0 .. now'
  BY DEF TypeOK
<1>2. ASSUME NEW b \in claims' PROVE RunShape(b, run[b])'
  BY <1>1 DEF RunShape, RunsOK
<1> QED BY <1>2 DEF RunsOK

LEMMA LaunchRun ==
  ASSUME RunsOK, NEW c \in claims, run[c].pc = "claimed"
  PROVE  LET r == [run[c] EXCEPT !.pc = "launched"] IN r \in Run /\ RunShape(c, r)
BY DEF RunsOK, RunShape, Run

LEMMA BeginRun ==
  ASSUME TypeOK, RunsOK, NEW c \in claims, run[c].pc = "launched"
  PROVE  LET r == IF run[c].phase # "registered" THEN [run[c] EXCEPT !.pc = "finished"]
                  ELSE IF c.job \in Undecodable THEN Parked(c)
                  ELSE [run[c] EXCEPT !.pc = "handler", !.phase = "running", !.hb = TRUE]
         IN r \in Run /\ RunShape(c, r)
<1>1. run[c] \in Run /\ RunShape(c, run[c]) /\ c \in Claimed
  BY DEF RunsOK, TypeOK
<1>2. 0 \in 0 .. now /\ Ends(c, "failed", 0) \in Outcomes(c, 0) /\ Ends(c, "failed", 0) \in Outcome
  <2>1. Ends(c, "failed", 0) \in Outcome
    BY <1>1 DEF Ends, Outcome, Claimed, Terminal
  <2>2. Ends(c, "failed", 0) \in Outcomes(c, 0)
    BY DEF Ends, Outcomes, Terminal
  <2> QED BY <2>1, <2>2 DEF TypeOK
<1>3. CASE run[c].phase # "registered"
  BY <1>1, <1>3 DEF RunShape, Run
<1>4. CASE run[c].phase = "registered" /\ c.job \in Undecodable
  <2>1. Parked(c) \in Run
    BY <1>1, <1>2 DEF Parked, Run
  <2>2. /\ Parked(c).pc = "complete" /\ Parked(c).phase = "resolving" /\ Parked(c).out = Ends(c, "failed", 0)
        /\ Parked(c).hb = run[c].hb /\ Parked(c).cancelByUser = run[c].cancelByUser
        /\ Parked(c).tries = run[c].tries
    BY <1>1 DEF Parked, Run
  <2>3. RunShape(c, Parked(c))
    BY <1>1, <1>2, <2>2 DEF RunShape
  <2> QED BY <1>4, <2>1, <2>3
<1>5. CASE run[c].phase = "registered" /\ c.job \notin Undecodable
  BY <1>1, <1>5 DEF RunShape, Run
<1> QED BY <1>3, <1>4, <1>5

LEMMA TimeoutRun ==
  ASSUME RunsOK, NEW c \in claims, run[c].pc = "handler"
  PROVE  LET r == [run[c] EXCEPT !.ctx = "deadline"] IN r \in Run /\ RunShape(c, r)
BY DEF RunsOK, RunShape, Run

LEMMA ReturnRun ==
  ASSUME RunsOK, NEW c \in claims, run[c].pc = "handler",
         NEW result \in {"ok", "error", "permanent", "canceled"}
  PROVE  LET r == [run[c] EXCEPT !.pc = "returned", !.result = result,
                                 !.deadline = run[c].ctx = "deadline"]
         IN r \in Run /\ RunShape(c, r)
<1> DEFINE x == run[c].ctx = "deadline"
           r == [run[c] EXCEPT !.pc = "returned", !.result = result, !.deadline = x]
<1>1. run[c] \in Run /\ RunShape(c, run[c]) /\ x \in BOOLEAN
  BY DEF RunsOK
<1> HIDE DEF x
<1>2. r \in Run
  BY <1>1 DEF Run
<1>3. RunShape(c, r)
  BY <1>1 DEF RunShape, Run
<1> QED BY <1>2, <1>3 DEF x

LEMMA CanceledFields ==
  ASSUME NEW r \in Run
  PROVE  /\ CanceledCtx(r) \in Run
         /\ CanceledCtx(r).pc = r.pc /\ CanceledCtx(r).phase = r.phase
         /\ CanceledCtx(r).hb = r.hb /\ CanceledCtx(r).cancelByUser = r.cancelByUser
         /\ CanceledCtx(r).out = r.out /\ CanceledCtx(r).tries = r.tries
         /\ CanceledCtx(r).persisted = r.persisted
<1>1. CanceledCtx(r) = [r EXCEPT !.ctx = IF r.ctx = "live" THEN "canceled" ELSE r.ctx]
  BY DEF CanceledCtx, Run
<1>2. (IF r.ctx = "live" THEN "canceled" ELSE r.ctx) \in {"live", "canceled", "deadline"}
  BY DEF Run
<1> DEFINE x == IF r.ctx = "live" THEN "canceled" ELSE r.ctx
<1>3. CanceledCtx(r) = [r EXCEPT !.ctx = x] /\ x \in {"live", "canceled", "deadline"}
  BY <1>1, <1>2
<1> HIDE DEF x
<1> QED BY <1>3 DEF Run

LEMMA HeartRun ==
  ASSUME RunsOK, NEW c \in claims, run[c].hb
  PROVE  /\ LET r == [CanceledCtx(run[c]) EXCEPT !.cancelByUser = TRUE, !.hb = FALSE]
            IN r \in Run /\ RunShape(c, r)
         /\ LET r == [CanceledCtx(run[c]) EXCEPT !.hb = FALSE] IN r \in Run /\ RunShape(c, r)
         /\ LET r == [run[c] EXCEPT !.hb = FALSE] IN r \in Run /\ RunShape(c, r)
<1> DEFINE k == CanceledCtx(run[c])
<1>1. run[c] \in Run /\ RunShape(c, run[c])
  BY DEF RunsOK
<1>2. /\ k \in Run /\ k.pc = run[c].pc /\ k.phase = run[c].phase /\ k.hb = run[c].hb
      /\ k.cancelByUser = run[c].cancelByUser /\ k.out = run[c].out /\ k.tries = run[c].tries
  BY <1>1, CanceledFields
<1> HIDE DEF k
<1>3. LET r == [k EXCEPT !.cancelByUser = TRUE, !.hb = FALSE] IN r \in Run /\ RunShape(c, r)
  BY <1>1, <1>2 DEF RunShape, Run
<1>4. LET r == [k EXCEPT !.hb = FALSE] IN r \in Run /\ RunShape(c, r)
  BY <1>1, <1>2 DEF RunShape, Run
<1>5. LET r == [run[c] EXCEPT !.hb = FALSE] IN r \in Run /\ RunShape(c, r)
  BY <1>1 DEF RunShape, Run
<1> QED BY <1>3, <1>4, <1>5 DEF k

LEMMA ResolveRun ==
  ASSUME TypeOK, RunsOK, NEW c \in claims, run[c].pc = "returned", ~run[c].hb,
         NEW t \in Readings, NEW d \in Delays
  PROVE  LET r == IF run[c].phase = "running"
                  THEN [run[c] EXCEPT !.pc = "complete", !.phase = "resolving",
                                      !.out = decideOutcome(c, t, d)]
                  ELSE [run[c] EXCEPT !.pc = "finished"]
         IN r \in Run /\ RunShape(c, r)
<1>1. run[c] \in Run /\ RunShape(c, run[c]) /\ c \in Claimed /\ t \in 0 .. now /\ t \in Nat
  BY DEF RunsOK, TypeOK, Readings
<1>2. decideOutcome(c, t, d) \in Outcomes(c, t)
  BY <1>1, OutcomeForeseen
<1>3. decideOutcome(c, t, d) \in Outcome
  BY <1>1, <1>2, OutcomesType
<1>4. run[c].cancelByUser => decideOutcome(c, t, d).state = "cancelled"
  BY DEF decideOutcome, Ends
<1>5. CASE run[c].phase = "running"
  <2> DEFINE o == decideOutcome(c, t, d)
             r == [run[c] EXCEPT !.pc = "complete", !.phase = "resolving", !.out = o]
  <2> HIDE DEF o
  <2>1. r \in Run
    BY <1>1, <1>3 DEF Run, o
  <2>2. /\ r.pc = "complete" /\ r.phase = "resolving" /\ r.out = o
        /\ r.hb = run[c].hb /\ r.cancelByUser = run[c].cancelByUser /\ r.tries = run[c].tries
    BY <1>1 DEF Run
  <2> HIDE DEF r
  <2>3. RunShape(c, r)
    BY <1>1, <1>2, <1>4, <2>2 DEF RunShape, o
  <2> QED BY <1>5, <2>1, <2>3 DEF r, o
<1>6. CASE run[c].phase # "running"
  BY <1>1, <1>6 DEF RunShape, Run
<1> QED BY <1>5, <1>6

LEMMA CompleteRun ==
  ASSUME RunsOK, NEW c \in claims, run[c].pc = "complete"
  PROVE  /\ LET r == [run[c] EXCEPT !.pc = "finished", !.persisted = TRUE, !.committed = TRUE]
            IN r \in Run /\ RunShape(c, r)
         /\ LET r == [OneTryLess(run[c]) EXCEPT !.persisted = TRUE] IN r \in Run /\ RunShape(c, r)
         /\ OneTryLess(run[c]) \in Run /\ RunShape(c, OneTryLess(run[c]))
         /\ LET r == [run[c] EXCEPT !.pc = "finished"] IN r \in Run /\ RunShape(c, r)
<1> DEFINE n == run[c].tries + 1
           p == IF n = Tries THEN "finished" ELSE run[c].pc
           k == [run[c] EXCEPT !.tries = n, !.pc = p]
<1>1. run[c] \in Run /\ RunShape(c, run[c])
  BY DEF RunsOK
<1>2. OneTryLess(run[c]) = k
  BY <1>1 DEF OneTryLess, Run
<1>3. /\ n \in 0 .. Tries /\ p \in {"complete", "finished"}
      /\ p = "complete" => n < Tries
  BY <1>1, WorkerAssumption DEF RunShape, Run
<1> HIDE DEF n, p
<1>4. k \in Run
  BY <1>1, <1>3 DEF Run
<1>5. RunShape(c, k)
  BY <1>1, <1>3 DEF RunShape, Run
<1>6. LET r == [k EXCEPT !.persisted = TRUE] IN r \in Run /\ RunShape(c, r)
  <2> HIDE DEF k
  <2> QED BY <1>4, <1>5 DEF RunShape, Run
<1>7. LET r == [run[c] EXCEPT !.pc = "finished", !.persisted = TRUE, !.committed = TRUE]
      IN r \in Run /\ RunShape(c, r)
  BY <1>1 DEF RunShape, Run
<1>8. LET r == [run[c] EXCEPT !.pc = "finished"] IN r \in Run /\ RunShape(c, r)
  BY <1>1 DEF RunShape, Run
<1> HIDE DEF k
<1> QED BY <1>2, <1>4, <1>5, <1>6, <1>7, <1>8

LEMMA GoneRun ==
  ASSUME RunsOK, NEW c \in claims, run[c].pc = "finished"
  PROVE  LET r == [run[c] EXCEPT !.pc = "gone"] IN r \in Run /\ RunShape(c, r)
BY DEF RunsOK, RunShape, Run

LEMMA VisitRun ==
  ASSUME RunsOK, NEW c \in claims, run[c].pc \notin {"claimed", "gone"},
         run[c].phase \in {"registered", "running"}
  PROVE  LET r == [CanceledCtx(run[c]) EXCEPT !.phase = "abandoned"] IN r \in Run /\ RunShape(c, r)
<1> DEFINE k == CanceledCtx(run[c])
<1>1. run[c] \in Run /\ RunShape(c, run[c])
  BY DEF RunsOK
<1>2. /\ k \in Run /\ k.pc = run[c].pc /\ k.phase = run[c].phase /\ k.hb = run[c].hb
      /\ k.cancelByUser = run[c].cancelByUser /\ k.out = run[c].out /\ k.tries = run[c].tries
  BY <1>1, CanceledFields
<1> HIDE DEF k
<1>3. LET r == [k EXCEPT !.phase = "abandoned"] IN r \in Run /\ RunShape(c, r)
  BY <1>1, <1>2 DEF RunShape, Run
<1> QED BY <1>3 DEF k

LEMMA ClaimRuns ==
  ASSUME TypeOK, RunsOK, NEW w \in Workers, NEW C, NEW t, tryClaim(w, C, t)
  PROVE  RunsOK'
<1>1. /\ run' = [c \in claims' |-> IF c \in claims THEN run[c] ELSE NewRun]
      /\ now' = now
  BY DEF tryClaim, Claim
<1>2. NewRun \in Run
  BY WorkerAssumption DEF NewRun, Run
<1>3. \A c : RunShape(c, NewRun)
  BY WorkerAssumption DEF RunShape, NewRun
<1>4. run' \in [claims' -> Run]
  BY <1>1, <1>2 DEF RunsOK
<1>5. ASSUME NEW c \in claims' PROVE RunShape(c, run'[c])
  BY <1>1, <1>3 DEF RunsOK
<1>6. ASSUME NEW c \in claims' PROVE RunShape(c, run[c])'
  BY <1>1, <1>5 DEF RunShape
<1> QED BY <1>4, <1>6 DEF RunsOK

\* A visit of drain meets a run that is registered, so not over.
LEMMA VisitRuns ==
  ASSUME WorkerInv, NEW w \in Workers, NEW j \in Jobs, Visit(w, j)
  PROVE  RunsOK'
<1> DEFINE c == active[w][j]
<1>1. claims' = claims /\ now' = now
  BY DEF Visit, vars
<1>2. CASE c # NoClaim /\ run[c].phase \in {"registered", "running"}
  <2>1. c \in claims /\ run[c].pc \notin {"claimed", "gone"}
    BY <1>2 DEF WorkerInv, RegistryOK
  <2>2. SetRun(c, [CanceledCtx(run[c]) EXCEPT !.phase = "abandoned"])
    BY <1>2 DEF Visit
  <2> HIDE DEF c
  <2> QED BY <1>1, <1>2, <2>1, <2>2, VisitRun, OneRun DEF WorkerInv
<1>3. CASE ~(c # NoClaim /\ run[c].phase \in {"registered", "running"})
  <2>1. run' = run
    BY <1>3 DEF Visit
  <2>2. run' = [b \in claims' |-> run[b]]
    BY <1>1, <2>1 DEF WorkerInv, RunsOK
  <2> QED BY <1>1, <2>2, SameRuns DEF WorkerInv
<1> QED BY <1>2, <1>3

LEMMA RunsStep == WorkerInv /\ [WorkerNext]_allVars => RunsOK'
<1> SUFFICES ASSUME WorkerInv, [WorkerNext]_allVars PROVE RunsOK'
  OBVIOUS
<1>0. /\ TypeOK /\ RunsOK /\ run = [c \in claims |-> run[c]]
      /\ Clock \subseteq Readings
  BY DEF WorkerInv, RunsOK, Clock
<1>1. ASSUME run' = run, claims' = claims, now' = now \/ now' = now + 1 PROVE RunsOK'
  BY <1>0, <1>1, SameRuns
<1>2. CASE UNCHANGED allVars
  BY <1>1, <1>2 DEF allVars, vars
<1>3. ASSUME NEW w \in Workers, LoopStep(w) PROVE RunsOK'
  <2>1. ASSUME NEW t \in Clock, NEW C \in (SUBSET Eligible(w, t)) \ {{}}, tryClaim(w, C, t)
        PROVE  RunsOK'
    BY <1>0, <2>1, ClaimRuns
  <2>2. ASSUME NEW t \in Clock, NEW C \in (SUBSET Eligible(w, t)) \ {{}}, tryClaimLost(w, C, t)
        PROVE  RunsOK'
    <3>1. claims' = claims /\ run' = run /\ now' = now
      BY <2>2 DEF tryClaimLost, Claim
    <3> QED BY <1>1, <3>1
  <2>3. ASSUME NEW c \in RunsOf(w), Launch(c) PROVE RunsOK'
    <3>1. c \in claims /\ claims' = claims /\ now' = now
      BY <2>3 DEF Launch, RunsOf, vars
    <3> QED BY <1>0, <2>3, <3>1, LaunchRun, OneRun DEF Launch
  <2>4. ASSUME NEW t \in Clock, trySweep(w, t) PROVE RunsOK'
    BY <1>1, <2>4 DEF trySweep, SweepExpired, workerVars
  <2>5. ASSUME NEW j \in Jobs, Visit(w, j) PROVE RunsOK'
    BY <2>5, VisitRuns
  <2>6. ASSUME Crash(w) PROVE RunsOK'
    BY <1>0, <2>6, SameRuns DEF Crash, Drop
  <2>7. ASSUME \/ Start(w) \/ ReadRoom(w) \/ tryClaimNothing(w)
               \/ Shutdown(w) \/ DrainDone(w) \/ DrainDeadline(w)
               \/ \E exceeded \in BOOLEAN : DrainReturn(w, exceeded)
               \/ Restart(w)
        PROVE  RunsOK'
    <3>1. claims' = claims /\ run' = run /\ now' = now
      BY <2>7 DEF Start, ReadRoom, tryClaimNothing, Shutdown, DrainDone, DrainDeadline,
                  DrainReturn, Restart, vars
    <3> QED BY <1>1, <3>1
  <2> QED BY <1>3, <2>1, <2>2, <2>3, <2>4, <2>5, <2>6, <2>7, Zenon DEF LoopStep
<1>4. ASSUME NEW c \in claims, HeartbeatStep(c) PROVE RunsOK'
  <2>1. ASSUME NEW t \in Clock, heartbeat(c, t) PROVE RunsOK'
    <3>1. claims' = claims /\ now' = now /\ run[c].hb
      BY <2>1 DEF heartbeat, Heartbeat
    <3> QED BY <1>0, <1>1, <2>1, <3>1, HeartRun, OneRun DEF heartbeat
  <2>2. ASSUME NEW t \in Clock, heartbeatLost(c, t) PROVE RunsOK'
    BY <1>1, <2>2 DEF heartbeatLost, Heartbeat, workerVars
  <2>3. ASSUME heartbeatNotFound(c) PROVE RunsOK'
    BY <1>0, <2>3, HeartRun, OneRun DEF heartbeatNotFound, vars
  <2>4. ASSUME heartbeatExit(c) PROVE RunsOK'
    BY <1>0, <2>4, HeartRun, OneRun DEF heartbeatExit, vars
  <2> QED BY <1>4, <2>1, <2>2, <2>3, <2>4, Zenon DEF HeartbeatStep
<1>5. ASSUME NEW c \in claims, RunStep(c) PROVE RunsOK'
  <2>1. ASSUME Begin(c) PROVE RunsOK'
    BY <1>0, <2>1, BeginRun, OneRun DEF Begin, vars
  <2>2. ASSUME Timeout(c) PROVE RunsOK'
    BY <1>0, <2>2, TimeoutRun, OneRun DEF Timeout, vars
  <2>3. ASSUME NEW result \in {"ok", "error", "permanent", "canceled"}, HandlerReturn(c, result)
        PROVE  RunsOK'
    BY <1>0, <2>3, ReturnRun, OneRun DEF HandlerReturn, vars
  <2>4. ASSUME NEW t \in Clock, NEW d \in Delays, BeginResolve(c, t, d) PROVE RunsOK'
    BY <1>0, <2>4, ResolveRun, OneRun DEF BeginResolve, vars
  <2>5. ASSUME complete(c) PROVE RunsOK'
    BY <1>0, <2>5, CompleteRun, OneRun DEF complete, Complete
  <2>6. ASSUME completeLost(c) PROVE RunsOK'
    BY <1>0, <2>6, CompleteRun, OneRun DEF completeLost, Complete
  <2>7. ASSUME completeFailed(c) PROVE RunsOK'
    BY <1>0, <2>7, CompleteRun, OneRun DEF completeFailed, vars
  <2>8. ASSUME completeNotFound(c) PROVE RunsOK'
    BY <1>0, <2>8, CompleteRun, OneRun DEF completeNotFound, vars
  <2>9. ASSUME Deregister(c) PROVE RunsOK'
    BY <1>0, <2>9, GoneRun, OneRun DEF Deregister, vars
  <2>10. ASSUME Release(c) PROVE RunsOK'
    BY <1>0, <2>10, SameRuns DEF Release, Drop
  <2> QED BY <1>5, <2>1, <2>2, <2>3, <2>4, <2>5, <2>6, <2>7, <2>8, <2>9, <2>10, Zenon DEF RunStep
<1>6. ASSUME ClientStep PROVE RunsOK'
  <2>1. claims' = claims /\ run' = run /\ (now' = now \/ now' = now + 1)
    BY <1>6 DEF ClientStep, workerVars, Insert, Retry, Cancel, Delete, Tick
  <2> QED BY <1>1, <2>1
<1> QED BY <1>2, <1>3, <1>4, <1>5, <1>6, Zenon DEF WorkerNext

-----------------------------------------------------------------------------
(* Slots and queue caps *)

LEMMA RunsFinite ==
  ASSUME IsFiniteSet(claims), NEW w, NEW q
  PROVE  /\ IsFiniteSet(RunsOf(w)) /\ Cardinality(RunsOf(w)) \in Nat
         /\ IsFiniteSet(InQueue(w, q)) /\ Cardinality(InQueue(w, q)) \in Nat
<1>1. RunsOf(w) \in SUBSET claims /\ InQueue(w, q) \in SUBSET claims
  BY DEF RunsOf, InQueue
<1>2. IsFiniteSet(RunsOf(w)) /\ IsFiniteSet(InQueue(w, q))
  BY <1>1, FS_Subset
<1> QED BY <1>2, FS_CardinalityType

LEMMA FewerRuns ==
  ASSUME IsFiniteSet(claims), claims' \subseteq claims, NEW w, NEW q
  PROVE  /\ IsFiniteSet(claims') /\ Cardinality(RunsOf(w)') <= Cardinality(RunsOf(w))
         /\ Cardinality(InQueue(w, q)') <= Cardinality(InQueue(w, q))
         /\ Cardinality(RunsOf(w)') \in Nat /\ Cardinality(InQueue(w, q)') \in Nat
<1>1. IsFiniteSet(claims')
  BY FS_Subset
<1>2. RunsOf(w)' \in SUBSET RunsOf(w) /\ InQueue(w, q)' \in SUBSET InQueue(w, q)
  BY DEF RunsOf, InQueue
<1>3. IsFiniteSet(RunsOf(w)) /\ IsFiniteSet(InQueue(w, q))
  BY RunsFinite
<1>4. /\ IsFiniteSet(RunsOf(w)') /\ Cardinality(RunsOf(w)') <= Cardinality(RunsOf(w))
      /\ IsFiniteSet(InQueue(w, q)') /\ Cardinality(InQueue(w, q)') <= Cardinality(InQueue(w, q))
  BY <1>2, <1>3, FS_Subset
<1> QED BY <1>1, <1>4, FS_CardinalityType

Loops == {"new", "polling", "claiming", "draining", "ranging", "returned", "dead"}

\* Runs only end, and nobody reads the room anew.
LEMMA RoomKept ==
  ASSUME WorkerInv, claims' \subseteq claims,
         loop' \in [Workers -> Loops], ask' \in [Workers -> Ask],
         \A v \in Workers : loop'[v] = "claiming" => loop[v] = "claiming" /\ ask'[v] = ask[v]
  PROVE  ClaimsOK' /\ LoopOK'
<1>0. IsFiniteSet(claims) /\ WithinLimits /\ LoopOK
  BY DEF WorkerInv, ClaimsOK
<1>1. \A q \in DOMAIN PerQueue : PerQueue[q] \in Nat
  BY WorkerAssumption
<1>2. ASSUME NEW v \in Workers
      PROVE  /\ Cardinality(RunsOf(v)') <= Concurrency
             /\ \A q \in DOMAIN PerQueue : Cardinality(InQueue(v, q)') <= PerQueue[q]
  <2>1. Cardinality(RunsOf(v)') <= Concurrency
    BY <1>0, FewerRuns, RunsFinite, WorkerAssumption DEF WithinLimits
  <2>2. ASSUME NEW q \in DOMAIN PerQueue PROVE Cardinality(InQueue(v, q)') <= PerQueue[q]
    BY <1>0, <1>1, FewerRuns, RunsFinite DEF WithinLimits
  <2> QED BY <2>1, <2>2
<1>3. ClaimsOK'
  BY <1>0, <1>2, FewerRuns DEF ClaimsOK, WithinLimits
<1>4. ASSUME NEW v \in Workers, loop'[v] = "claiming" PROVE Room(v)'
  <2>1. Room(v) /\ ask'[v] = ask[v] /\ ask[v] \in Ask
    BY <1>0, <1>4 DEF LoopOK
  <2>2. Cardinality(RunsOf(v)') + ask[v].limit <= Concurrency
    <3>1. ask[v].limit \in Nat /\ Cardinality(RunsOf(v)) + ask[v].limit <= Concurrency
      BY <2>1 DEF Room, Ask
    <3> QED BY <1>0, <3>1, FewerRuns, RunsFinite, WorkerAssumption
  <2>3. ASSUME NEW q \in DOMAIN PerQueue
        PROVE  Cardinality(InQueue(v, q)') + ask[v].queues[q] <= PerQueue[q]
    <3>1. ask[v].queues[q] \in Nat /\ Cardinality(InQueue(v, q)) + ask[v].queues[q] <= PerQueue[q]
      BY <2>1 DEF Room
    <3> QED BY <1>0, <1>1, <3>1, FewerRuns, RunsFinite
  <2> QED BY <2>1, <2>2, <2>3 DEF Room
<1> QED BY <1>3, <1>4 DEF LoopOK, Loops

LEMMA RoomRead ==
  ASSUME WorkerInv, NEW w \in Workers, ReadRoom(w)
  PROVE  ClaimsOK' /\ LoopOK'
<1>0. IsFiniteSet(claims) /\ WithinLimits /\ LoopOK
  BY DEF WorkerInv, ClaimsOK
<1>1. claims' = claims /\ available(w) > 0
  BY DEF ReadRoom, vars
<1>2. ClaimsOK'
  BY <1>1 DEF WorkerInv, ClaimsOK, WithinLimits, RunsOf, InQueue
<1>3. available(w) \in 1 .. Concurrency /\ Cardinality(RunsOf(w)) + available(w) <= Concurrency
  BY <1>0, <1>1, RunsFinite, WorkerAssumption DEF available
<1>4. /\ eligibleQueues(w) \in [DOMAIN PerQueue -> Nat]
      /\ \A q \in DOMAIN PerQueue : Cardinality(InQueue(w, q)) + eligibleQueues(w)[q] <= PerQueue[q]
  <2>1. ASSUME NEW q \in DOMAIN PerQueue
        PROVE  LET n == Cardinality(InQueue(w, q))
                   e == IF n < PerQueue[q] THEN PerQueue[q] - n ELSE 0
               IN e \in Nat /\ n + e <= PerQueue[q]
    <3>1. Cardinality(InQueue(w, q)) \in Nat /\ Cardinality(InQueue(w, q)) <= PerQueue[q]
      BY <1>0, RunsFinite DEF WithinLimits
    <3> QED BY <3>1, WorkerAssumption
  <2> QED BY <2>1 DEF eligibleQueues
<1>5. /\ loop' = [loop EXCEPT ![w] = "claiming"]
      /\ ask' = [ask EXCEPT ![w] = [limit |-> available(w), queues |-> eligibleQueues(w)]]
  BY DEF ReadRoom
<1> HIDE DEF available, eligibleQueues
<1>6. [limit |-> available(w), queues |-> eligibleQueues(w)] \in Ask
  BY <1>3, <1>4 DEF Ask
<1>7. ask' \in [Workers -> Ask] /\ loop' \in [Workers -> Loops]
  BY <1>0, <1>5, <1>6 DEF LoopOK, Loops
<1>8. ASSUME NEW v \in Workers, loop'[v] = "claiming" PROVE Room(v)'
  <2>1. RunsOf(v)' = RunsOf(v) /\ \A q : InQueue(v, q)' = InQueue(v, q)
    BY <1>1 DEF RunsOf, InQueue
  <2>2. CASE v = w
    <3>1. ask'[v].limit = available(w) /\ ask'[v].queues = eligibleQueues(w)
      BY <1>0, <1>5, <2>2 DEF LoopOK
    <3> QED BY <1>3, <1>4, <2>1, <2>2, <3>1 DEF Room
  <2>3. CASE v # w
    <3>1. ask'[v] = ask[v] /\ Room(v)
      BY <1>0, <1>5, <1>8, <2>3 DEF LoopOK
    <3> QED BY <2>1, <3>1 DEF Room
  <2> QED BY <2>2, <2>3
<1> QED BY <1>2, <1>7, <1>8 DEF LoopOK, Loops

\* The claims of a set of jobs are no more than the jobs.
LEMMA ClaimsOfFew ==
  ASSUME NEW D, IsFiniteSet(D), NEW w
  PROVE  /\ IsFiniteSet({ClaimOf(j, w) : j \in D})
         /\ Cardinality({ClaimOf(j, w) : j \in D}) <= Cardinality(D)
<1> DEFINE f == [j \in D |-> ClaimOf(j, w)]
           T == {ClaimOf(j, w) : j \in D}
<1>1. f \in Surjection(D, T)
  BY DEF Surjection
<1> HIDE DEF f, T
<1>2. IsFiniteSet(T) /\ Cardinality(T) <= Cardinality(D)
  BY <1>1, FS_Surjection
<1> QED BY <1>2 DEF T

LEMMA AddedFew ==
  ASSUME NEW S, NEW T, IsFiniteSet(S), IsFiniteSet(T)
  PROVE  /\ IsFiniteSet(S \cup T)
         /\ Cardinality(S \cup T) <= Cardinality(S) + Cardinality(T)
<1>1. IsFiniteSet(S \cap T)
  BY FS_Intersection
<1>2. Cardinality(S) \in Nat /\ Cardinality(T) \in Nat /\ Cardinality(S \cap T) \in Nat
  BY <1>1, FS_CardinalityType
<1>3. /\ IsFiniteSet(S \cup T)
      /\ Cardinality(S \cup T) = Cardinality(S) + Cardinality(T) - Cardinality(S \cap T)
  BY FS_Union
<1> QED BY <1>2, <1>3

LEMMA RoomTaken ==
  ASSUME WorkerInv, IsFiniteSet(Jobs), NEW w \in Workers, NEW t \in Readings,
         NEW C \in SUBSET Eligible(w, t), tryClaim(w, C, t)
  PROVE  ClaimsOK' /\ LoopOK'
<1> DEFINE limit == ask[w].limit
           ql == ask[w].queues
           new == {ClaimOf(j, w) : j \in C}
<1>0. TypeOK /\ IsFiniteSet(claims) /\ WithinLimits /\ LoopOK
  BY DEF WorkerInv, ClaimsOK
<1>1. /\ loop[w] = "claiming" /\ Claim(w, C, limit, ql, t, TRUE)
      /\ loop' = [loop EXCEPT ![w] = "polling"] /\ ask' = [ask EXCEPT ![w] = NoAsk]
  BY Zenon DEF tryClaim, ClaimReturns
<1>2. /\ limit \in Nat /\ Cardinality(RunsOf(w)) + limit <= Concurrency
      /\ ql \in [DOMAIN PerQueue -> Nat]
      /\ \A q \in DOMAIN PerQueue : Cardinality(InQueue(w, q)) + ql[q] <= PerQueue[q]
  <2>1. Room(w) /\ ask[w] \in Ask
    BY <1>0, <1>1 DEF LoopOK
  <2> QED BY <2>1 DEF Room, Ask
<1>3. claims' = claims \cup new /\ Taken(C, Eligible(w, t), limit, ql)
  BY <1>1 DEF Claim
<1>4. Eligible(w, t) \in SUBSET Jobs /\ C \in SUBSET Jobs
  BY ColumnsAssumption DEF Eligible
<1> HIDE DEF limit, ql
<1>5. IsFiniteSet(C)
  BY <1>4, FS_Subset
<1>6. /\ Cardinality(C) <= limit
      /\ \A q \in DOMAIN PerQueue : Cardinality({i \in C : Queue[i] = q}) <= ql[q]
  <2>1. DOMAIN ql = DOMAIN PerQueue /\ \A q \in DOMAIN ql : ql[q] \in Nat
    BY <1>2
  <2> QED BY <1>0, <1>2, <1>3, <1>4, <1>5, <2>1, TakenFits
<1>7. ASSUME NEW v \in Workers \ {w}
      PROVE  RunsOf(v)' = RunsOf(v) /\ \A q : InQueue(v, q)' = InQueue(v, q)
  BY <1>3 DEF RunsOf, InQueue, ClaimOf
<1>8. RunsOf(w)' = RunsOf(w) \cup new
  BY <1>3 DEF RunsOf, ClaimOf
<1>9. ASSUME NEW q
      PROVE  InQueue(w, q)' = InQueue(w, q) \cup {ClaimOf(j, w) : j \in {i \in C : Queue[i] = q}}
  BY <1>8 DEF InQueue, ClaimOf
<1>10. Cardinality(RunsOf(w)') <= Concurrency
  <2>1. IsFiniteSet(new) /\ Cardinality(new) <= Cardinality(C)
    BY <1>5, ClaimsOfFew
  <2>2. IsFiniteSet(RunsOf(w)) /\ Cardinality(RunsOf(w)) \in Nat
    BY <1>0, RunsFinite
  <2> HIDE DEF new
  <2>3. /\ IsFiniteSet(RunsOf(w) \cup new)
        /\ Cardinality(RunsOf(w) \cup new) <= Cardinality(RunsOf(w)) + Cardinality(new)
    BY <2>1, <2>2, AddedFew
  <2>4. Cardinality(RunsOf(w) \cup new) \in Nat /\ Cardinality(new) \in Nat /\ Cardinality(C) \in Nat
    BY <1>5, <2>1, <2>3, FS_CardinalityType
  <2> QED BY <1>2, <1>6, <1>8, <2>1, <2>2, <2>3, <2>4, WorkerAssumption
<1>11. ASSUME NEW q \in DOMAIN PerQueue PROVE Cardinality(InQueue(w, q)') <= PerQueue[q]
  <2> DEFINE D == {i \in C : Queue[i] = q}
             T == {ClaimOf(j, w) : j \in D}
  <2>0. IsFiniteSet(D) /\ Cardinality(D) <= ql[q]
    BY <1>5, <1>6, FS_Subset
  <2>1. InQueue(w, q)' = InQueue(w, q) \cup T
    BY <1>9
  <2> HIDE DEF D
  <2>2. IsFiniteSet(T) /\ Cardinality(T) <= Cardinality(D)
    BY <2>0, ClaimsOfFew
  <2>3. IsFiniteSet(InQueue(w, q)) /\ Cardinality(InQueue(w, q)) \in Nat
    BY <1>0, RunsFinite
  <2> HIDE DEF T
  <2>4. /\ IsFiniteSet(InQueue(w, q) \cup T)
        /\ Cardinality(InQueue(w, q) \cup T) <= Cardinality(InQueue(w, q)) + Cardinality(T)
    BY <2>2, <2>3, AddedFew
  <2>5. /\ Cardinality(InQueue(w, q) \cup T) \in Nat /\ Cardinality(T) \in Nat
        /\ Cardinality(D) \in Nat /\ ql[q] \in Nat /\ PerQueue[q] \in Nat
    BY <1>2, <2>0, <2>2, <2>4, FS_CardinalityType, WorkerAssumption
  <2>6. Cardinality(InQueue(w, q)) + ql[q] <= PerQueue[q]
    BY <1>2
  <2> QED BY <2>0, <2>1, <2>2, <2>3, <2>4, <2>5, <2>6
<1>12. ClaimsOK'
  <2>1. IsFiniteSet(claims')
    <3>1. IsFiniteSet(new)
      BY <1>5, ClaimsOfFew
    <3> QED BY <1>0, <1>3, <3>1, AddedFew, Zenon
  <2>2. ASSUME NEW v \in Workers
        PROVE  /\ Cardinality(RunsOf(v)') <= Concurrency
               /\ \A q \in DOMAIN PerQueue : Cardinality(InQueue(v, q)') <= PerQueue[q]
    <3>1. CASE v = w
      BY <1>10, <1>11, <3>1
    <3>2. CASE v # w
      BY <1>0, <1>7, <3>2 DEF WithinLimits
    <3> QED BY <3>1, <3>2
  <2> QED BY <2>1, <2>2 DEF ClaimsOK, WithinLimits
<1>13. NoAsk \in Ask
  BY WorkerAssumption DEF NoAsk, Ask
<1>14. ASSUME NEW v \in Workers, loop'[v] = "claiming" PROVE Room(v)'
  <2>1. v # w /\ loop[v] = "claiming" /\ ask'[v] = ask[v]
    BY <1>0, <1>1, <1>14 DEF LoopOK
  <2>2. Room(v) /\ RunsOf(v)' = RunsOf(v) /\ \A q : InQueue(v, q)' = InQueue(v, q)
    BY <1>0, <1>7, <2>1 DEF LoopOK
  <2> QED BY <2>1, <2>2 DEF Room
<1>15. LoopOK'
  BY <1>0, <1>1, <1>13, <1>14 DEF LoopOK
<1> QED BY <1>12, <1>15

LEMMA BoundsStep ==
  ASSUME IsFiniteSet(Jobs)
  PROVE  WorkerInv /\ [WorkerNext]_allVars => ClaimsOK' /\ LoopOK'
<1> SUFFICES ASSUME WorkerInv, [WorkerNext]_allVars PROVE ClaimsOK' /\ LoopOK'
  OBVIOUS
<1>0. /\ loop \in [Workers -> Loops] /\ ask \in [Workers -> Ask] /\ NoAsk \in Ask
      /\ Clock \subseteq Readings
  BY WorkerAssumption DEF WorkerInv, LoopOK, Loops, NoAsk, Ask, Clock
<1>1. ASSUME claims' \subseteq claims, loop' = loop, ask' = ask PROVE ClaimsOK' /\ LoopOK'
  BY <1>0, <1>1, RoomKept
<1>2. ASSUME NEW w \in Workers, NEW p \in Loops \ {"claiming"}, claims' \subseteq claims,
             loop' = [loop EXCEPT ![w] = p], ask' = ask \/ ask' = [ask EXCEPT ![w] = NoAsk]
      PROVE  ClaimsOK' /\ LoopOK'
  <2>1. loop' \in [Workers -> Loops] /\ ask' \in [Workers -> Ask]
    BY <1>0, <1>2
  <2>2. \A v \in Workers : loop'[v] = "claiming" => loop[v] = "claiming" /\ ask'[v] = ask[v]
    BY <1>0, <1>2
  <2> QED BY <1>2, <2>1, <2>2, RoomKept
<1>3. CASE UNCHANGED allVars
  BY <1>1, <1>3 DEF allVars, vars
<1>4. ASSUME NEW w \in Workers, LoopStep(w) PROVE ClaimsOK' /\ LoopOK'
  <2>1. ASSUME NEW t \in Clock, NEW C \in (SUBSET Eligible(w, t)) \ {{}}, tryClaim(w, C, t)
        PROVE  ClaimsOK' /\ LoopOK'
    BY <1>0, <2>1, RoomTaken
  <2>2. ASSUME NEW t \in Clock, NEW C \in (SUBSET Eligible(w, t)) \ {{}}, tryClaimLost(w, C, t)
        PROVE  ClaimsOK' /\ LoopOK'
    <3>1. claims' = claims
      BY <2>2 DEF tryClaimLost, Claim
    <3> QED BY <1>2, <2>2, <3>1, Zenon DEF tryClaimLost, ClaimReturns, Loops
  <2>3. ASSUME tryClaimNothing(w) PROVE ClaimsOK' /\ LoopOK'
    BY <1>2, <2>3, Zenon DEF tryClaimNothing, ClaimReturns, Loops, vars
  <2>4. ASSUME ReadRoom(w) PROVE ClaimsOK' /\ LoopOK'
    BY <2>4, RoomRead
  <2>5. ASSUME \/ \E c \in RunsOf(w) : Launch(c)
               \/ \E t \in Clock : trySweep(w, t)
               \/ \E j \in Jobs : Visit(w, j)
        PROVE  ClaimsOK' /\ LoopOK'
    <3>1. claims' = claims /\ loop' = loop /\ ask' = ask
      BY <2>5, Zenon DEF Launch, trySweep, Visit, SweepExpired, vars, workerVars
    <3> QED BY <1>1, <3>1
  <2>6. ASSUME Start(w) PROVE ClaimsOK' /\ LoopOK'
    BY <1>2, <2>6, Zenon DEF Start, Loops, vars
  <2>7. ASSUME Shutdown(w) PROVE ClaimsOK' /\ LoopOK'
    BY <1>2, <2>7, Zenon DEF Shutdown, Loops, vars
  <2>8. ASSUME DrainDone(w) PROVE ClaimsOK' /\ LoopOK'
    BY <1>2, <2>8, Zenon DEF DrainDone, Loops, vars
  <2>9. ASSUME DrainDeadline(w) PROVE ClaimsOK' /\ LoopOK'
    BY <1>2, <2>9, Zenon DEF DrainDeadline, Loops, vars
  <2>10. ASSUME NEW exceeded \in BOOLEAN, DrainReturn(w, exceeded) PROVE ClaimsOK' /\ LoopOK'
    BY <1>2, <2>10, Zenon DEF DrainReturn, Loops, vars
  <2>11. ASSUME Crash(w) PROVE ClaimsOK' /\ LoopOK'
    BY <1>2, <2>11, Zenon DEF Crash, Drop, Loops
  <2>12. ASSUME Restart(w) PROVE ClaimsOK' /\ LoopOK'
    BY <1>2, <2>12, Zenon DEF Restart, Loops, vars
  <2> QED BY <1>4, <2>1, <2>2, <2>3, <2>4, <2>5, <2>6, <2>7, <2>8, <2>9, <2>10, <2>11, <2>12, Zenon
          DEF LoopStep
<1>5. ASSUME NEW c \in claims, HeartbeatStep(c) PROVE ClaimsOK' /\ LoopOK'
  <2>1. claims' = claims /\ loop' = loop /\ ask' = ask
    BY <1>5, Zenon
        DEF HeartbeatStep, heartbeat, heartbeatLost, heartbeatNotFound, heartbeatExit, Heartbeat,
                vars, workerVars
  <2> QED BY <1>1, <2>1
<1>6. ASSUME NEW c \in claims, RunStep(c) PROVE ClaimsOK' /\ LoopOK'
  <2>1. claims' \subseteq claims /\ loop' = loop /\ ask' = ask
    BY <1>6, Zenon DEF RunStep, Begin, Timeout, HandlerReturn, BeginResolve, complete, completeLost,
                completeFailed, completeNotFound, Deregister, Release, Complete, Drop, vars
  <2> QED BY <1>1, <2>1
<1>7. ASSUME ClientStep PROVE ClaimsOK' /\ LoopOK'
  <2>1. claims' = claims /\ loop' = loop /\ ask' = ask
    BY <1>7, Zenon DEF ClientStep, workerVars, Insert, Retry, Cancel, Delete, Tick
  <2> QED BY <1>1, <2>1
<1> QED BY <1>3, <1>4, <1>5, <1>6, <1>7, Zenon DEF WorkerNext

-----------------------------------------------------------------------------
(* The registry of runs and the drain's flags *)

LEMMA RegistryKept ==
  ASSUME RegistryOK, active' = active, claims \subseteq claims',
         \A b \in claims : run[b].pc \notin {"claimed", "gone"} => run'[b].pc \notin {"claimed", "gone"}
  PROVE  RegistryOK'
BY DEF RegistryOK

LEMMA OnePc ==
  ASSUME RunsOK, RegistryOK, active' = active, claims' = claims, NEW c \in claims, NEW r, SetRun(c, r),
         r.pc \notin {"claimed", "gone"}
  PROVE  RegistryOK'
<1>1. \A b \in claims : run'[b] = IF b = c THEN r ELSE run[b]
  BY DEF SetRun, RunsOK
<1>2. \A b \in claims : run[b].pc \notin {"claimed", "gone"} => run'[b].pc \notin {"claimed", "gone"}
  BY <1>1
<1> QED BY <1>2, RegistryKept

LEMMA VisitRegistry ==
  ASSUME WorkerInv, NEW w \in Workers, NEW j \in Jobs, Visit(w, j)
  PROVE  RegistryOK' /\ DrainOK'
<1> DEFINE c == active[w][j]
           abandons == c # NoClaim /\ run[c].phase \in {"registered", "running"}
<1>0. RunsOK /\ RegistryOK /\ DrainOK
  BY DEF WorkerInv
<1>1. /\ claims' = claims /\ active' = active
      /\ drain' = [drain EXCEPT ![w].toVisit = @ \ {j}, ![w].abandoned = @ \/ abandons]
  BY DEF Visit, vars
<1>2. DrainOK'
  <2>1. abandons \in BOOLEAN /\ drain[w].abandoned \in BOOLEAN /\ drain[w].toVisit \ {j} \in SUBSET Jobs
    BY <1>0 DEF DrainOK
  <2> HIDE DEF abandons
  <2>2. (drain[w].abandoned \/ abandons) \in BOOLEAN
    BY <2>1
  <2> QED BY <1>0, <1>1, <2>1, <2>2, Zenon DEF DrainOK
<1>3. CASE abandons
  <2>1. c \in claims /\ run[c].pc \notin {"claimed", "gone"} /\ run[c] \in Run
    BY <1>0, <1>3 DEF RegistryOK, RunsOK
  <2> DEFINE r == [CanceledCtx(run[c]) EXCEPT !.phase = "abandoned"]
  <2>2. SetRun(c, r)
    BY <1>3 DEF Visit
  <2>3. r.pc = run[c].pc
    BY <2>1, CanceledFields DEF Run
  <2> HIDE DEF c, r
  <2> QED BY <1>0, <1>1, <1>2, <2>1, <2>2, <2>3, OnePc
<1>4. CASE ~abandons
  <2>1. run' = run
    BY <1>4 DEF Visit
  <2> QED BY <1>0, <1>1, <1>2, <2>1, RegistryKept
<1> QED BY <1>3, <1>4

LEMMA RegistryStep == WorkerInv /\ [WorkerNext]_allVars => RegistryOK' /\ DrainOK'
<1> SUFFICES ASSUME WorkerInv, [WorkerNext]_allVars PROVE RegistryOK' /\ DrainOK'
  OBVIOUS
<1>0. TypeOK /\ RunsOK /\ RegistryOK /\ DrainOK
  BY DEF WorkerInv
<1>1. ASSUME active' = active, claims' = claims, run' = run PROVE RegistryOK'
  BY <1>0, <1>1, RegistryKept
<1>2. ASSUME drain' = drain PROVE DrainOK'
  BY <1>0, <1>2 DEF DrainOK
<1>3. CASE UNCHANGED allVars
  BY <1>1, <1>2, <1>3 DEF allVars, vars
<1>4. ASSUME NEW w \in Workers, LoopStep(w) PROVE RegistryOK' /\ DrainOK'
  <2>1. ASSUME NEW t \in Clock, NEW C \in (SUBSET Eligible(w, t)) \ {{}}, tryClaim(w, C, t)
        PROVE  RegistryOK' /\ DrainOK'
    <3>1. claims \subseteq claims' /\ active' = active /\ drain' = drain
      BY <2>1 DEF tryClaim, Claim, ClaimReturns
    <3>2. \A b \in claims : run'[b] = run[b]
      BY <2>1, <3>1 DEF tryClaim
    <3> QED BY <1>0, <1>2, <3>1, <3>2, RegistryKept
  <2>2. ASSUME NEW c \in RunsOf(w), Launch(c) PROVE RegistryOK' /\ DrainOK'
    <3>1. /\ c \in claims /\ c.worker = w /\ c \in Claimed /\ c.job \in Jobs
          /\ claims' = claims /\ drain' = drain /\ run[c] \in Run
      BY <1>0, <2>2 DEF Launch, RunsOf, vars, TypeOK, Claimed, RunsOK
    <3>2. \A b \in claims : run'[b].pc = IF b = c THEN "launched" ELSE run[b].pc
      BY <1>0, <2>2, <3>1 DEF Launch, SetRun, RunsOK, Run
    <3>3. \A v \in Workers, j \in Jobs :
            active'[v][j] = IF v = w /\ j = c.job THEN c ELSE active[v][j]
      BY <1>0, <2>2, <3>1 DEF Launch, RegistryOK
    <3>4. active' \in [Workers -> [Jobs -> claims \cup {NoClaim}]]
      BY <1>0, <2>2, <3>1 DEF Launch, RegistryOK
    <3>5. ASSUME NEW v \in Workers, NEW j \in Jobs, active'[v][j] # NoClaim
          PROVE  /\ active'[v][j].worker = v /\ active'[v][j].job = j
                 /\ run'[active'[v][j]].pc \notin {"claimed", "gone"}
      <4>1. CASE v = w /\ j = c.job
        BY <3>1, <3>2, <3>3, <4>1
      <4>2. CASE ~(v = w /\ j = c.job)
        <5>1. active'[v][j] = active[v][j] /\ active[v][j] \in claims
          BY <1>0, <3>3, <3>5, <4>2 DEF RegistryOK
        <5> QED BY <1>0, <3>2, <3>5, <5>1 DEF RegistryOK
      <4> QED BY <4>1, <4>2
    <3>6. RegistryOK'
      BY <3>1, <3>4, <3>5 DEF RegistryOK
    <3> QED BY <1>2, <3>1, <3>6
  <2>3. ASSUME NEW j \in Jobs, Visit(w, j) PROVE RegistryOK' /\ DrainOK'
    BY <2>3, VisitRegistry
  <2>4. ASSUME Crash(w) PROVE RegistryOK' /\ DrainOK'
    <3>1. /\ active' = [active EXCEPT ![w] = [j \in Jobs |-> NoClaim]]
          /\ run' = [c \in claims' |-> run[c]]
          /\ drain' = [drain EXCEPT ![w] = NoDrain]
          /\ claims' = claims \ RunsOf(w)
      BY <2>4 DEF Crash, Drop
    <3>2. ASSUME NEW v \in Workers, NEW j \in Jobs
          PROVE  /\ active'[v][j] \in claims' \cup {NoClaim}
                 /\ active'[v][j] # NoClaim =>
                      /\ active'[v][j].worker = v /\ active'[v][j].job = j
                      /\ run'[active'[v][j]].pc \notin {"claimed", "gone"}
      <4>1. CASE v = w
        BY <1>0, <3>1, <4>1 DEF RegistryOK
      <4>2. CASE v # w
        BY <1>0, <3>1, <4>2 DEF RegistryOK, RunsOf
      <4> QED BY <4>1, <4>2
    <3>3. active' \in [Workers -> [Jobs -> claims' \cup {NoClaim}]]
      <4>1. active' \in [Workers -> [Jobs -> claims \cup {NoClaim}]]
        BY <1>0, <3>1 DEF RegistryOK
      <4> QED BY <3>2, <4>1
    <3>4. RegistryOK'
      BY <3>2, <3>3 DEF RegistryOK
    <3>5. DrainOK'
      BY <1>0, <3>1 DEF DrainOK, NoDrain
    <3> QED BY <3>4, <3>5
  <2>5. ASSUME DrainDeadline(w) PROVE RegistryOK' /\ DrainOK'
    <3> DEFINE V == {j \in Jobs : active[w][j] # NoClaim}
    <3>1. /\ active' = active /\ claims' = claims /\ run' = run
          /\ drain' = [drain EXCEPT ![w].draining = TRUE, ![w].toVisit = V]
      BY <2>5 DEF DrainDeadline, vars
    <3>2. V \in SUBSET Jobs
      OBVIOUS
    <3> HIDE DEF V
    <3>3. DrainOK'
      BY <1>0, <3>1, <3>2, Zenon DEF DrainOK
    <3> QED BY <1>1, <3>1, <3>3
  <2>6. ASSUME NEW exceeded \in BOOLEAN, DrainReturn(w, exceeded) PROVE RegistryOK' /\ DrainOK'
    <3>1. /\ active' = active /\ claims' = claims /\ run' = run
          /\ drain' = [drain EXCEPT ![w].exceeded = exceeded]
      BY <2>6 DEF DrainReturn, vars
    <3>2. DrainOK'
      BY <1>0, <3>1 DEF DrainOK
    <3> QED BY <1>1, <3>1, <3>2
  <2>7. ASSUME \/ Start(w) \/ ReadRoom(w) \/ tryClaimNothing(w)
               \/ \E t \in Clock : \E C \in (SUBSET Eligible(w, t)) \ {{}} : tryClaimLost(w, C, t)
               \/ \E t \in Clock : trySweep(w, t)
               \/ Shutdown(w) \/ DrainDone(w) \/ Restart(w)
        PROVE  RegistryOK' /\ DrainOK'
    <3>1. claims' = claims /\ run' = run /\ active' = active /\ drain' = drain
      BY <2>7, Zenon
          DEF Start, ReadRoom, tryClaimNothing, tryClaimLost, ClaimReturns, Claim, trySweep,
                  SweepExpired, Shutdown, DrainDone, Restart, vars, workerVars
    <3> QED BY <1>1, <1>2, <3>1
  <2> QED BY <1>4, <2>1, <2>2, <2>3, <2>4, <2>5, <2>6, <2>7, Zenon DEF LoopStep
<1>5. ASSUME NEW c \in claims, HeartbeatStep(c) \/ RunStep(c) PROVE DrainOK'
  <2>1. drain' = drain
    BY <1>5, Zenon
        DEF HeartbeatStep, heartbeat, heartbeatLost, heartbeatNotFound, heartbeatExit, workerVars,
                RunStep, Begin, Timeout, HandlerReturn, BeginResolve, complete, completeLost,
                completeFailed, completeNotFound, Deregister, Release
  <2> QED BY <1>2, <2>1
<1>6. ASSUME NEW c \in claims, HeartbeatStep(c) PROVE RegistryOK'
  <2>1. active' = active /\ claims' = claims
    BY <1>6, Zenon
        DEF HeartbeatStep, heartbeat, heartbeatLost, heartbeatNotFound, heartbeatExit, Heartbeat,
                vars, workerVars
  <2>2. run[c] \in Run /\ RunShape(c, run[c])
    BY <1>0 DEF RunsOK
  <2>3. ASSUME NEW r, SetRun(c, r), r.pc = run[c].pc, run[c].hb PROVE RegistryOK'
    BY <1>0, <2>1, <2>2, <2>3, OnePc DEF RunShape
  <2> DEFINE k == CanceledCtx(run[c])
             r1 == [k EXCEPT !.cancelByUser = TRUE, !.hb = FALSE]
             r2 == [k EXCEPT !.hb = FALSE]
             r3 == [run[c] EXCEPT !.hb = FALSE]
  <2>4. k \in Run /\ k.pc = run[c].pc
    BY <2>2, CanceledFields
  <2>5. /\ run[c].hb
        /\ \/ run' = run
           \/ SetRun(c, r1) \/ SetRun(c, r2) \/ SetRun(c, r3)
    BY <1>6, Zenon
        DEF HeartbeatStep, heartbeat, heartbeatLost, heartbeatNotFound, heartbeatExit, workerVars
  <2> HIDE DEF k
  <2>6. r1.pc = run[c].pc /\ r2.pc = run[c].pc /\ r3.pc = run[c].pc
    BY <2>2, <2>4 DEF Run
  <2> HIDE DEF r1, r2, r3
  <2> QED BY <1>1, <2>1, <2>3, <2>5, <2>6
<1>7. ASSUME NEW c \in claims, RunStep(c) PROVE RegistryOK'
  <2>0. run[c] \in Run /\ RunShape(c, run[c]) /\ c.worker \in Workers /\ c.job \in Jobs
    BY <1>0 DEF RunsOK, TypeOK, Claimed
  <2>1. ASSUME Begin(c) PROVE RegistryOK'
    <3>1. claims' = claims /\ active' = active
      BY <2>1 DEF Begin, Parked, Run, vars
    <3> DEFINE r == IF run[c].phase # "registered" THEN [run[c] EXCEPT !.pc = "finished"]
                    ELSE IF c.job \in Undecodable THEN Parked(c)
                    ELSE [run[c] EXCEPT !.pc = "handler", !.phase = "running", !.hb = TRUE]
    <3>2. SetRun(c, r)
      BY <2>1 DEF Begin
    <3>3. r.pc \notin {"claimed", "gone"}
      BY <2>0, <2>1 DEF Begin, Parked, Run, vars
    <3> HIDE DEF r
    <3> QED BY <1>0, <3>1, <3>2, <3>3, OnePc
  <2>2. ASSUME Timeout(c) PROVE RegistryOK'
    <3>1. claims' = claims /\ active' = active
      BY <2>2 DEF Timeout, Run, vars
    <3>2. \E r : SetRun(c, r) /\ r.pc \notin {"claimed", "gone"}
      BY <2>0, <2>2 DEF Timeout, Run, vars
    <3> QED BY <1>0, <3>1, <3>2, OnePc
  <2>3. ASSUME NEW result \in {"ok", "error", "permanent", "canceled"}, HandlerReturn(c, result)
        PROVE  RegistryOK'
    <3>1. claims' = claims /\ active' = active
      BY <2>3 DEF HandlerReturn, Run, vars
    <3> DEFINE r == [run[c] EXCEPT !.pc = "returned", !.result = result,
                                   !.deadline = run[c].ctx = "deadline"]
    <3>2. SetRun(c, r)
      BY <2>3 DEF HandlerReturn
    <3>3. r.pc \notin {"claimed", "gone"}
      BY <2>0, <2>3 DEF HandlerReturn, Run, vars
    <3> HIDE DEF r
    <3> QED BY <1>0, <3>1, <3>2, <3>3, OnePc
  <2>4. ASSUME NEW t \in Clock, NEW d \in Delays, BeginResolve(c, t, d) PROVE RegistryOK'
    <3>1. claims' = claims /\ active' = active
      BY <2>4 DEF BeginResolve, Run, vars
    <3> DEFINE r == IF run[c].phase = "running"
                    THEN [run[c] EXCEPT !.pc = "complete", !.phase = "resolving",
                                        !.out = decideOutcome(c, t, d)]
                    ELSE [run[c] EXCEPT !.pc = "finished"]
    <3>2. SetRun(c, r)
      BY <2>4 DEF BeginResolve
    <3>3. r.pc \notin {"claimed", "gone"}
      BY <2>0, <2>4 DEF BeginResolve, Run, vars
    <3> HIDE DEF r
    <3> QED BY <1>0, <3>1, <3>2, <3>3, OnePc
  <2>5. ASSUME complete(c) PROVE RegistryOK'
    <3>1. claims' = claims /\ active' = active
      BY <2>5 DEF complete, Complete, Run
    <3> DEFINE r == [run[c] EXCEPT !.pc = "finished", !.persisted = TRUE, !.committed = TRUE]
    <3>2. SetRun(c, r)
      BY <2>5 DEF complete
    <3>3. r.pc \notin {"claimed", "gone"}
      BY <2>0, <2>5 DEF complete, Complete, Run
    <3> HIDE DEF r
    <3> QED BY <1>0, <3>1, <3>2, <3>3, OnePc
  <2>6. ASSUME completeLost(c) PROVE RegistryOK'
    <3>1. claims' = claims /\ active' = active
      BY <2>6 DEF completeLost, Complete, OneTryLess, Run
    <3> DEFINE r == [OneTryLess(run[c]) EXCEPT !.persisted = TRUE]
    <3>2. SetRun(c, r)
      BY <2>6 DEF completeLost
    <3>3. r.pc \notin {"claimed", "gone"}
      BY <2>0, <2>6 DEF completeLost, Complete, OneTryLess, Run
    <3> HIDE DEF r
    <3> QED BY <1>0, <3>1, <3>2, <3>3, OnePc
  <2>7. ASSUME completeFailed(c) PROVE RegistryOK'
    <3>1. claims' = claims /\ active' = active
      BY <2>7 DEF completeFailed, OneTryLess, Run, vars
    <3> DEFINE r == OneTryLess(run[c])
    <3>2. SetRun(c, r)
      BY <2>7 DEF completeFailed
    <3>3. r.pc \notin {"claimed", "gone"}
      BY <2>0, <2>7 DEF completeFailed, OneTryLess, Run, vars
    <3> HIDE DEF r
    <3> QED BY <1>0, <3>1, <3>2, <3>3, OnePc
  <2>8. ASSUME completeNotFound(c) PROVE RegistryOK'
    <3>1. claims' = claims /\ active' = active
      BY <2>8 DEF completeNotFound, Run, vars
    <3>2. \E r : SetRun(c, r) /\ r.pc \notin {"claimed", "gone"}
      BY <2>0, <2>8 DEF completeNotFound, Run, vars
    <3> QED BY <1>0, <3>1, <3>2, OnePc
  <2>9. ASSUME Deregister(c) PROVE RegistryOK'
    <3>1. /\ claims' = claims
          /\ \A b \in claims : run'[b] = IF b = c THEN [run[c] EXCEPT !.pc = "gone"] ELSE run[b]
      BY <1>0, <2>9 DEF Deregister, SetRun, RunsOK, vars
    <3>2. /\ active' \in [Workers -> [Jobs -> claims \cup {NoClaim}]]
          /\ \A v \in Workers, j \in Jobs :
               active'[v][j] = IF v = c.worker /\ j = c.job THEN NoClaim ELSE active[v][j]
      BY <1>0, <2>0, <2>9 DEF Deregister, RegistryOK
    <3>3. ASSUME NEW v \in Workers, NEW j \in Jobs, active'[v][j] # NoClaim
          PROVE  /\ active'[v][j].worker = v /\ active'[v][j].job = j
                 /\ run'[active'[v][j]].pc \notin {"claimed", "gone"}
      <4>1. active'[v][j] = active[v][j] /\ ~(v = c.worker /\ j = c.job)
        BY <3>2, <3>3
      <4>2. active[v][j].worker = v /\ active[v][j].job = j /\ active[v][j] \in claims
            /\ run[active[v][j]].pc \notin {"claimed", "gone"}
        BY <1>0, <3>3, <4>1 DEF RegistryOK
      <4> QED BY <3>1, <4>1, <4>2
    <3> QED BY <3>1, <3>2, <3>3 DEF RegistryOK
  <2>10. ASSUME Release(c) PROVE RegistryOK'
    <3>1. /\ claims' = claims \ {c} /\ active' = active /\ run[c].pc = "gone"
          /\ run' = [b \in claims' |-> run[b]]
      BY <2>10 DEF Release, Drop
    <3>2. ASSUME NEW v \in Workers, NEW j \in Jobs PROVE active[v][j] \in claims' \cup {NoClaim}
      BY <1>0, <3>1 DEF RegistryOK
    <3>3. active' \in [Workers -> [Jobs -> claims' \cup {NoClaim}]]
      <4>1. active \in [Workers -> [Jobs -> claims \cup {NoClaim}]]
        BY <1>0 DEF RegistryOK
      <4> QED BY <3>1, <3>2, <4>1
    <3> QED BY <1>0, <3>1, <3>3 DEF RegistryOK
  <2> QED BY <1>7, <2>1, <2>2, <2>3, <2>4, <2>5, <2>6, <2>7, <2>8, <2>9, <2>10, Zenon DEF RunStep
<1>8. ASSUME ClientStep PROVE RegistryOK' /\ DrainOK'
  <2>1. claims' = claims /\ run' = run /\ active' = active /\ drain' = drain
    BY <1>8, Zenon DEF ClientStep, workerVars, Insert, Retry, Cancel, Delete, Tick
  <2> QED BY <1>1, <1>2, <2>1
<1> QED BY <1>3, <1>4, <1>5, <1>6, <1>7, <1>8, Zenon DEF WorkerNext

-----------------------------------------------------------------------------
(* The theorems *)

LEMMA WorkerInvStep ==
  ASSUME IsFiniteSet(Jobs)
  PROVE  WorkerInv /\ [WorkerNext]_allVars => WorkerInv'
<1> SUFFICES ASSUME WorkerInv, [WorkerNext]_allVars PROVE WorkerInv'
  OBVIOUS
<1>1. TypeOK'
  BY StoreStep, TypeStep DEF WorkerInv
<1> QED BY <1>1, RunsStep, BoundsStep, RegistryStep DEF WorkerInv

LEMMA WorkerInvariant ==
  ASSUME IsFiniteSet(Jobs)
  PROVE  WorkerSpec => []WorkerInv
BY InvInit, WorkerInvStep, PTL DEF WorkerSpec

\* However polls, completions, lost calls and crashes interleave, a worker never runs
\* more jobs than its semaphore has slots nor more of a queue than PerQueue allows, and
\* a cancellation the heartbeat saw decides the outcome (tryClaim, decideOutcome).
THEOREM WorkerInBounds ==
  ASSUME IsFiniteSet(Jobs)
  PROVE  WorkerSpec => []RunsInBounds
<1>1. WorkerInv => RunsInBounds
  <2> SUFFICES ASSUME WorkerInv PROVE RunsInBounds
    OBVIOUS
  <2>1. \A w \in Workers : ask[w].limit \in 0 .. Concurrency
    BY DEF WorkerInv, LoopOK, Ask
  <2>2. WorkerTypeOK
    BY <2>1 DEF WorkerInv, WorkerTypeOK, RunsOK, LoopOK, RegistryOK, DrainOK
  <2>3. CancelBeatsTimeout
    BY DEF WorkerInv, RunsOK, RunShape, CancelBeatsTimeout
  <2> QED BY <2>2, <2>3 DEF WorkerInv, ClaimsOK, RunsInBounds
<1> QED BY <1>1, WorkerInvariant, PTL

\* Every call a worker makes, with lost replies, retries of Complete and crashes, is a
\* call the contract of Store foresees: the workers implement JobStore.
THEOREM WorkerImplementsStore ==
  ASSUME IsFiniteSet(Jobs)
  PROVE  WorkerSpec => ImplementsStore
<1>1. WorkerInit => Init
  BY DEF WorkerInit
<1>2. WorkerInv /\ [WorkerNext]_allVars => [UNCHANGED vars \/ Next]_vars
  BY StoreStep
<1> QED BY <1>1, <1>2, WorkerInvariant, PTL DEF WorkerSpec, ImplementsStore

\* What a step may make of one run, and who does it.
MovesTo(c, s) ==
  LET r == run[c] IN
  /\ r.phase = "abandoned" =>
       /\ s.phase = "abandoned" /\ s.persisted = r.persisted
       /\ s.pc = "handler" => r.pc = "handler"
  /\ s.phase = "abandoned" =>
       r.phase = "abandoned" \/ \E w \in Workers, j \in Jobs : Visit(w, j) /\ c = active[w][j]
  /\ s.phase \in {"registered", "running"} => r.phase \in {"registered", "running"}
  /\ s.pc = "claimed" => r.pc = "claimed"
  /\ r.pc = "claimed" => s.pc = "claimed" \/ Launch(c)
  /\ r.pc = "gone" => s.pc = "gone"
  /\ s.pc \in {"finished", "gone"} =>
       \/ r.pc \in {"finished", "gone"} \/ r.phase = "abandoned"
       \/ complete(c) \/ LossyCalls \/ ~Owns(c)

RunsMove == \A c \in claims \cap claims' : MovesTo(c, run'[c])

LEMMA OneMoves ==
  ASSUME RunsOK, NEW c \in claims, NEW r, SetRun(c, r), MovesTo(c, r)
  PROVE  RunsMove
<1>1. \A b \in claims : run'[b] = IF b = c THEN r ELSE run[b]
  BY DEF SetRun, RunsOK
<1>2. ASSUME NEW b \in claims PROVE MovesTo(b, run[b])
  BY DEF MovesTo
<1> HIDE DEF MovesTo
<1> QED BY <1>1, <1>2 DEF RunsMove

LEMMA RunsMoveStep == WorkerInv /\ [WorkerNext]_allVars => RunsMove
<1> SUFFICES ASSUME WorkerInv, [WorkerNext]_allVars PROVE RunsMove
  OBVIOUS
<1>0. RunsOK /\ RegistryOK
  BY DEF WorkerInv
<1>1. ASSUME \A c \in claims \cap claims' : run'[c] = run[c] PROVE RunsMove
  BY <1>1 DEF RunsMove, MovesTo
<1>2. CASE UNCHANGED allVars
  BY <1>1, <1>2 DEF allVars
<1>3. ASSUME NEW w \in Workers, LoopStep(w) PROVE RunsMove
  <2>1. ASSUME NEW c \in RunsOf(w), Launch(c) PROVE RunsMove
    <3>1. c \in claims /\ run[c] \in Run
      BY <1>0 DEF RunsOf, RunsOK
    <3> DEFINE r == [run[c] EXCEPT !.pc = "launched"]
    <3>2. SetRun(c, r)
      BY <2>1 DEF Launch
    <3>3. r.pc = "launched" /\ r.phase = run[c].phase /\ r.persisted = run[c].persisted
      BY <3>1 DEF Run
    <3>4. run[c].pc = "claimed" /\ run[c].phase = "registered" /\ Launch(c)
      BY <1>0, <2>1, <3>1 DEF Launch, RunsOK, RunShape
    <3>5. MovesTo(c, r)
      <4> HIDE DEF r
      <4> QED BY <3>3, <3>4 DEF MovesTo
    <3> HIDE DEF r
    <3> QED BY <1>0, <3>1, <3>2, <3>5, OneMoves
  <2>2. ASSUME NEW j \in Jobs, Visit(w, j) PROVE RunsMove
    <3> DEFINE c == active[w][j]
               r == [CanceledCtx(run[c]) EXCEPT !.phase = "abandoned"]
    <3>1. CASE c # NoClaim /\ run[c].phase \in {"registered", "running"}
      <4>1. c \in claims /\ SetRun(c, r) /\ run[c].pc \notin {"claimed", "gone"}
        BY <1>0, <2>2, <3>1 DEF Visit, RegistryOK
      <4>2. run[c] \in Run /\ RunShape(c, run[c])
        BY <1>0, <4>1 DEF RunsOK
      <4>3. r.pc = run[c].pc /\ r.phase = "abandoned" /\ r.persisted = run[c].persisted
        BY <4>2, CanceledFields DEF Run
      <4>4. Visit(w, j) /\ c = active[w][j]
        BY <2>2
      <4> HIDE DEF c, r
      <4>5. run[c].phase \in {"registered", "running"}
        BY <3>1
      <4>6. MovesTo(c, r)
        BY <4>1, <4>2, <4>3, <4>4, <4>5, Zenon DEF MovesTo
      <4> QED BY <1>0, <4>1, <4>6, OneMoves
    <3>2. CASE ~(c # NoClaim /\ run[c].phase \in {"registered", "running"})
      BY <1>1, <2>2, <3>2 DEF Visit
    <3> QED BY <3>1, <3>2
  <2>3. ASSUME NEW t \in Clock, NEW C \in (SUBSET Eligible(w, t)) \ {{}}, tryClaim(w, C, t)
        PROVE  RunsMove
    BY <1>1, <2>3 DEF tryClaim
  <2>4. ASSUME Crash(w) PROVE RunsMove
    BY <1>1, <2>4 DEF Crash
  <2>5. ASSUME \/ Start(w) \/ ReadRoom(w) \/ tryClaimNothing(w)
               \/ \E t \in Clock : \E C \in (SUBSET Eligible(w, t)) \ {{}} : tryClaimLost(w, C, t)
               \/ \E t \in Clock : trySweep(w, t)
               \/ Shutdown(w) \/ DrainDone(w) \/ DrainDeadline(w)
               \/ \E exceeded \in BOOLEAN : DrainReturn(w, exceeded)
               \/ Restart(w)
        PROVE  RunsMove
    <3>1. run' = run
      BY <2>5, Zenon
          DEF Start, ReadRoom, tryClaimNothing, tryClaimLost, trySweep, Shutdown, DrainDone,
                         DrainDeadline, DrainReturn, Restart, workerVars
    <3> QED BY <1>1, <3>1
  <2> QED BY <1>3, <2>1, <2>2, <2>3, <2>4, <2>5, Zenon DEF LoopStep
<1>4. ASSUME NEW c \in claims, HeartbeatStep(c) PROVE RunsMove
  <2> DEFINE k == CanceledCtx(run[c])
             r1 == [k EXCEPT !.cancelByUser = TRUE, !.hb = FALSE]
             r2 == [k EXCEPT !.hb = FALSE]
             r3 == [run[c] EXCEPT !.hb = FALSE]
  <2>1. run[c] \in Run
    BY <1>0 DEF RunsOK
  <2>2. k \in Run /\ k.pc = run[c].pc /\ k.phase = run[c].phase /\ k.persisted = run[c].persisted
    BY <2>1, CanceledFields
  <2>3. run' = run \/ SetRun(c, r1) \/ SetRun(c, r2) \/ SetRun(c, r3)
    BY <1>4, Zenon
        DEF HeartbeatStep, heartbeat, heartbeatLost, heartbeatNotFound, heartbeatExit, workerVars
  <2> HIDE DEF k
  <2>4. MovesTo(c, r1) /\ MovesTo(c, r2) /\ MovesTo(c, r3)
    BY <2>1, <2>2 DEF Run, MovesTo
  <2> HIDE DEF r1, r2, r3
  <2> QED BY <1>0, <1>1, <2>3, <2>4, OneMoves
<1>5. ASSUME NEW c \in claims, RunStep(c) PROVE RunsMove
  <2>0. run[c] \in Run /\ RunShape(c, run[c])
    BY <1>0 DEF RunsOK
  <2>1. ASSUME Begin(c) PROVE RunsMove
    <3> DEFINE r == IF run[c].phase # "registered" THEN [run[c] EXCEPT !.pc = "finished"]
                    ELSE IF c.job \in Undecodable THEN Parked(c)
                    ELSE [run[c] EXCEPT !.pc = "handler", !.phase = "running", !.hb = TRUE]
    <3>1. SetRun(c, r) /\ run[c].pc = "launched"
      BY <2>1 DEF Begin
    <3>2. /\ r.persisted = run[c].persisted
          /\ run[c].phase # "registered" => r.pc = "finished" /\ r.phase = run[c].phase
          /\ run[c].phase = "registered" =>
               r.pc \in {"complete", "handler"} /\ r.phase \in {"resolving", "running"}
      BY <2>0 DEF Parked, Run
    <3> HIDE DEF r
    <3>3. MovesTo(c, r)
      BY <2>0, <3>1, <3>2 DEF MovesTo, RunShape
    <3> QED BY <1>0, <3>1, <3>3, OneMoves
  <2>2. ASSUME Timeout(c) PROVE RunsMove
    <3> DEFINE r == [run[c] EXCEPT !.ctx = "deadline"]
    <3>1. SetRun(c, r)
      BY <2>2 DEF Timeout
    <3>2. MovesTo(c, r)
      BY <2>0 DEF MovesTo, Run
    <3> HIDE DEF r
    <3> QED BY <1>0, <3>1, <3>2, OneMoves
  <2>3. ASSUME NEW result \in {"ok", "error", "permanent", "canceled"}, HandlerReturn(c, result)
        PROVE  RunsMove
    <3> DEFINE r == [run[c] EXCEPT !.pc = "returned", !.result = result,
                                   !.deadline = run[c].ctx = "deadline"]
    <3>1. SetRun(c, r) /\ run[c].pc = "handler"
      BY <2>3 DEF HandlerReturn
    <3>2. r.pc = "returned" /\ r.phase = run[c].phase /\ r.persisted = run[c].persisted
      BY <2>0 DEF Run
    <3> HIDE DEF r
    <3>3. MovesTo(c, r)
      BY <2>0, <3>1, <3>2 DEF MovesTo
    <3> QED BY <1>0, <3>1, <3>3, OneMoves
  <2>4. ASSUME NEW t \in Clock, NEW d \in Delays, BeginResolve(c, t, d) PROVE RunsMove
    <3> DEFINE r == IF run[c].phase = "running"
                    THEN [run[c] EXCEPT !.pc = "complete", !.phase = "resolving",
                                        !.out = decideOutcome(c, t, d)]
                    ELSE [run[c] EXCEPT !.pc = "finished"]
    <3>1. SetRun(c, r) /\ run[c].pc = "returned"
      BY <2>4 DEF BeginResolve
    <3>2. /\ r.persisted = run[c].persisted
          /\ run[c].phase = "running" => r.pc = "complete" /\ r.phase = "resolving"
          /\ run[c].phase # "running" => r.pc = "finished" /\ r.phase = run[c].phase
      BY <2>0 DEF Run
    <3> HIDE DEF r
    <3>3. MovesTo(c, r)
      BY <2>0, <3>1, <3>2 DEF MovesTo, RunShape
    <3> QED BY <1>0, <3>1, <3>3, OneMoves
  <2>5. ASSUME complete(c) \/ completeLost(c) \/ completeFailed(c) \/ completeNotFound(c)
        PROVE  RunsMove
    <3> DEFINE r1 == [run[c] EXCEPT !.pc = "finished", !.persisted = TRUE, !.committed = TRUE]
               r2 == [OneTryLess(run[c]) EXCEPT !.persisted = TRUE]
               r3 == OneTryLess(run[c])
               r4 == [run[c] EXCEPT !.pc = "finished"]
    <3>1. /\ run[c].pc = "complete" /\ run[c].phase = "resolving"
          /\ complete(c) \/ LossyCalls \/ ~Owns(c)
          /\ SetRun(c, r1) \/ SetRun(c, r2) \/ SetRun(c, r3) \/ SetRun(c, r4)
      BY <2>0, <2>5, Zenon DEF complete, completeLost, completeFailed, completeNotFound, RunShape
    <3>2. \A r \in {r1, r2, r3, r4} : r.pc \in {"complete", "finished"} /\ r.phase = run[c].phase
      BY <2>0, <3>1 DEF Run, OneTryLess
    <3>3. ASSUME NEW r, SetRun(c, r), r.pc \in {"complete", "finished"}, r.phase = run[c].phase
          PROVE  RunsMove
      <4>1. MovesTo(c, r)
        BY <3>1, <3>3 DEF MovesTo
      <4> QED BY <1>0, <3>3, <4>1, OneMoves
    <3> HIDE DEF r1, r2, r3, r4
    <3> QED BY <3>1, <3>2, <3>3
  <2>6. ASSUME Deregister(c) PROVE RunsMove
    <3> DEFINE r == [run[c] EXCEPT !.pc = "gone"]
    <3>1. SetRun(c, r) /\ run[c].pc = "finished"
      BY <2>6 DEF Deregister
    <3>2. r.pc = "gone" /\ r.phase = run[c].phase /\ r.persisted = run[c].persisted
      BY <2>0 DEF Run
    <3> HIDE DEF r
    <3>3. MovesTo(c, r)
      BY <3>1, <3>2 DEF MovesTo
    <3> QED BY <1>0, <3>1, <3>3, OneMoves
  <2>7. ASSUME Release(c) PROVE RunsMove
    BY <1>1, <2>7 DEF Release
  <2> QED BY <1>5, <2>1, <2>2, <2>3, <2>4, <2>5, <2>6, <2>7, Zenon DEF RunStep
<1>6. ASSUME ClientStep PROVE RunsMove
  BY <1>1, <1>6 DEF ClientStep, workerVars
<1> QED BY <1>2, <1>3, <1>4, <1>5, <1>6, Zenon DEF WorkerNext

\* Once drain has abandoned a run, its handler is never started and its outcome never
\* written, whatever order drain and the run reach their compare-and-swaps in.
THEOREM AbandonedForGood ==
  ASSUME IsFiniteSet(Jobs)
  PROVE  WorkerSpec => [][AbandonedStays]_allVars
<1>1. WorkerInv /\ [WorkerNext]_allVars => [AbandonedStays]_allVars
  BY RunsMoveStep DEF AbandonedStays, RunsMove, MovesTo
<1> QED BY <1>1, WorkerInvariant, PTL DEF WorkerSpec

=============================================================================
