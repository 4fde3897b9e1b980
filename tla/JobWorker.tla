----------------------------- MODULE JobWorker -----------------------------
(***************************************************************************)
(* The worker of package jobs (jobs/worker.go) on top of the job table: the *)
(* poll loop, one run goroutine per claimed job with its heartbeat, the     *)
(* drain at shutdown, and a crash.  Every step of a worker that touches the *)
(* table is an operation of JobStore, so this module only says when a       *)
(* worker calls which operation and what it makes of the reply.             *)
(*                                                                         *)
(* With LossyCalls a store call may also fail: before it takes effect, or   *)
(* after, when only the reply is lost.                                      *)
(***************************************************************************)
EXTENDS JobStore

CONSTANTS
  Concurrency,   \* size of the semaphore
  PerQueue,      \* PerQueue[q]: cap on a queue's runs, for the queues that have one
  OnTimeout,     \* OnTimeout[j]: "none" (no timeout), "retry", "fail" or "discard"
  Undecodable,   \* jobs whose payload does not decode
  Tries,         \* bound on the tries of Complete (maxAttempts in complete)
  NoClaim,
  Crashes,       \* workers whose process may die
  LossyCalls,    \* whether store calls may fail
  CallLag        \* how far behind a worker's clock reading may be, at most Lag

ASSUME WorkerAssumption ==
  /\ Concurrency \in Nat \ {0} /\ Tries \in Nat \ {0} /\ CallLag \in 0 .. Lag
  /\ OnTimeout \in [Jobs -> {"none", "retry", "fail", "discard"}]
  /\ Undecodable \subseteq Jobs /\ Crashes \subseteq Workers
  /\ LossyCalls \in BOOLEAN /\ NoClaim \notin Claimed
  /\ 1 .. Concurrency \subseteq Limits
  /\ DOMAIN PerQueue \subseteq {Queue[j] : j \in Jobs}
  /\ \A q \in DOMAIN PerQueue : PerQueue[q] \in Nat /\ 1 .. PerQueue[q] \subseteq Limits

VARIABLES
  loop,    \* loop[w]: where Start is
  ask,     \* ask[w]: the limits tryClaim read and is about to claim with
  active,  \* active[w][j]: the claim whose run is registered under job id j, or NoClaim
  run,     \* run[c]: the run of claim c and its heartbeat
  drain    \* drain[w]: the flags drain sets, the ids Range has yet to visit, its result

workerVars == <<loop, ask, active, run, drain>>
allVars == <<vars, loop, ask, active, run, drain>>

Run == [pc : {"claimed", "launched", "handler", "returned", "complete", "finished", "gone"},
        phase : {"registered", "running", "resolving", "abandoned"},
        ctx : {"live", "canceled", "deadline"},  \* runCtx.Err(): the first cause sticks
        hb : BOOLEAN,                            \* the heartbeat goroutine is running
        cancelByUser : BOOLEAN,
        deadline : BOOLEAN,                      \* deadlineExceeded, taken at return
        result : {"none", "ok", "error", "permanent", "canceled"},
        out : Outcome \cup {NoClaim},            \* the outcome, once decided
        tries : 0 .. Tries,
        persisted : BOOLEAN,                     \* Complete took effect; the code cannot know
        committed : BOOLEAN]                     \* AttemptFinishEvent.Committed

NewRun == [pc |-> "claimed", phase |-> "registered", ctx |-> "live", hb |-> FALSE,
           cancelByUser |-> FALSE, deadline |-> FALSE, result |-> "none", out |-> NoClaim,
           tries |-> 0, persisted |-> FALSE, committed |-> FALSE]

NoDrain == [draining |-> FALSE, toVisit |-> {}, abandoned |-> FALSE, exceeded |-> FALSE]

Clock == {t \in Readings : t >= now - CallLag}

RunsOf(w) == {c \in claims : c.worker = w}
InQueue(w, q) == {c \in RunsOf(w) : Queue[c.job] = q}

SetRun(c, r) == run' = [run EXCEPT ![c] = r]

\* Canceling a context that ended already changes nothing.
CanceledCtx(r) == [r EXCEPT !.ctx = IF @ = "live" THEN "canceled" ELSE @]

-----------------------------------------------------------------------------
(* The poll loop *)

Start(w) ==
  /\ loop[w] = "new"
  /\ loop' = [loop EXCEPT ![w] = "polling"]
  /\ UNCHANGED <<vars, ask, active, run, drain>>

\* The loop is at its select: every claimed row has been launched.
Idle(w) == loop[w] = "polling" /\ \A c \in RunsOf(w) : run[c].pc # "claimed"

\* Mutant: the running jobs of the queue are not subtracted.
eligibleQueuesFull(w) == PerQueue

\* What a capped queue has left; a queue with nothing left is not asked for.
eligibleQueues(w) ==
  [q \in DOMAIN PerQueue |->
     LET n == Cardinality(InQueue(w, q)) IN IF n < PerQueue[q] THEN PerQueue[q] - n ELSE 0]

\* Free slots of the semaphore; only this loop takes any.
available(w) == Concurrency - Cardinality(RunsOf(w))

NoAsk == [limit |-> 0, queues |-> <<>>]

\* tryClaim reads the room it has; by the time it claims there may be more.
ReadRoom(w) ==
  /\ Idle(w) /\ available(w) > 0
  /\ loop' = [loop EXCEPT ![w] = "claiming"]
  /\ ask' = [ask EXCEPT ![w] = [limit |-> available(w), queues |-> eligibleQueues(w)]]
  /\ UNCHANGED <<vars, active, run, drain>>

ClaimReturns(w) ==
  /\ loop[w] = "claiming"
  /\ loop' = [loop EXCEPT ![w] = "polling"]
  /\ ask' = [ask EXCEPT ![w] = NoAsk]
  /\ UNCHANGED <<active, drain>>

tryClaim(w, C, t) ==
  /\ ClaimReturns(w)
  /\ Claim(w, C, ask[w].limit, ask[w].queues, t, TRUE)
  /\ run' = [c \in claims' |-> IF c \in claims THEN run[c] ELSE NewRun]

\* The rows are leased, the reply is lost: nobody runs them.
tryClaimLost(w, C, t) ==
  /\ LossyCalls
  /\ ClaimReturns(w)
  /\ Claim(w, C, ask[w].limit, ask[w].queues, t, FALSE)
  /\ UNCHANGED run

\* The call fails, or there is nothing to claim.
tryClaimNothing(w) ==
  /\ ClaimReturns(w)
  /\ UNCHANGED <<vars, run>>

\* A claimed row is registered under its job id and its goroutine started; an
\* earlier run of the job that is still registered is displaced.
Launch(c) ==
  /\ run[c].pc = "claimed"
  /\ active' = [active EXCEPT ![c.worker][c.job] = c]
  /\ SetRun(c, [run[c] EXCEPT !.pc = "launched"])
  /\ UNCHANGED <<vars, loop, ask, drain>>

\* The calls on the worker registry that follow touch nothing else, and nothing here
\* reads the registry.
trySweep(w, t) ==
  /\ Idle(w)
  /\ SweepExpired(t)
  /\ UNCHANGED workerVars

-----------------------------------------------------------------------------
(* A run and its heartbeat *)

\* The outcome that records the attempt.
Ends(c, state, at) ==
  [state |-> state, attempt |-> c.attempt + 1, record |-> TRUE, availableAt |-> at]

\* A claimed job whose payload does not decode, or whose handler is gone, is
\* parked: resolving at once, to be completed as failed.
Parked(c) ==
  [run[c] EXCEPT !.pc = "complete", !.phase = "resolving", !.out = Ends(c, "failed", 0)]

\* registered -> running (or resolving); who loses that race to drain ends here.
Begin(c) ==
  /\ run[c].pc = "launched"
  /\ SetRun(c, IF run[c].phase # "registered" THEN [run[c] EXCEPT !.pc = "finished"]
               ELSE IF c.job \in Undecodable THEN Parked(c)
               ELSE [run[c] EXCEPT !.pc = "handler", !.phase = "running", !.hb = TRUE])
  /\ UNCHANGED <<vars, loop, ask, active, drain>>

\* The attempt's timeout ends the context; the handler goes on until it notices.
Timeout(c) ==
  /\ run[c].pc = "handler" /\ OnTimeout[c.job] # "none" /\ run[c].ctx = "live"
  /\ SetRun(c, [run[c] EXCEPT !.ctx = "deadline"])
  /\ UNCHANGED <<vars, loop, ask, active, drain>>

\* A handler may return anything at any time, context.Canceled included.
HandlerReturn(c, result) ==
  /\ run[c].pc = "handler"
  /\ SetRun(c, [run[c] EXCEPT !.pc = "returned", !.result = result,
                              !.deadline = run[c].ctx = "deadline"])
  /\ UNCHANGED <<vars, loop, ask, active, drain>>

\* The heartbeat's context was ended, by the returning run or by drain.
hbStop(c) == run[c].pc = "returned" \/ run[c].phase = "abandoned"

\* Mutant: the reply's flag is not looked at.
heartbeatDeaf(c, t) ==
  /\ run[c].hb
  /\ Heartbeat(c, t)
  /\ UNCHANGED workerVars

\* A tick that races the end of its context may still be served.
heartbeat(c, t) ==
  /\ run[c].hb
  /\ Heartbeat(c, t)
  /\ IF row[c.job].cancelRequested
     THEN SetRun(c, [CanceledCtx(run[c]) EXCEPT !.cancelByUser = TRUE, !.hb = FALSE])
     ELSE UNCHANGED run
  /\ UNCHANGED <<loop, ask, active, drain>>

\* The lease is extended, the reply is lost: log and go on.
heartbeatLost(c, t) ==
  /\ LossyCalls
  /\ run[c].hb
  /\ Heartbeat(c, t)
  /\ UNCHANGED workerVars

\* ErrNotFound: ownership is lost, so the handler is told to stop.
heartbeatNotFound(c) ==
  /\ run[c].hb /\ ~Owns(c) /\ ~hbStop(c)
  /\ SetRun(c, [CanceledCtx(run[c]) EXCEPT !.hb = FALSE])
  /\ UNCHANGED <<vars, loop, ask, active, drain>>

heartbeatExit(c) ==
  /\ run[c].hb /\ hbStop(c)
  /\ SetRun(c, [run[c] EXCEPT !.hb = FALSE])
  /\ UNCHANGED <<vars, loop, ask, active, drain>>

-----------------------------------------------------------------------------
(* The outcome and its completion *)

\* Mutant: off by one.
retryOrOneMore(c, t, d) ==
  IF c.attempt + 1 > c.maxAttempts THEN Ends(c, "discarded", 0) ELSE Ends(c, "pending", t + d)

\* A retry, unless the attempts are used up.
retryOr(c, t, d) ==
  IF c.attempt + 1 >= c.maxAttempts THEN Ends(c, "discarded", 0) ELSE Ends(c, "pending", t + d)

dispatchTimeout(c, t, d) ==
  IF OnTimeout[c.job] = "fail" THEN Ends(c, "failed", 0)
  ELSE IF OnTimeout[c.job] = "discard" THEN Ends(c, "discarded", 0)
  ELSE retryOr(c, t, d)

\* d is the backoff's delay.  A user's cancellation beats the timeout, which beats
\* the handler's result; a handler that the drain stopped gives its job back.
decideOutcome(c, t, d) ==
  LET r == run[c] IN
  IF r.cancelByUser THEN Ends(c, "cancelled", 0)
  ELSE IF r.deadline THEN dispatchTimeout(c, t, d)
  ELSE IF r.result = "ok" THEN Ends(c, "succeeded", 0)
  ELSE IF drain[c.worker].draining /\ r.result = "canceled"
  THEN [state |-> "available", attempt |-> c.attempt, record |-> FALSE, availableAt |-> t]
  ELSE IF r.result = "permanent" THEN Ends(c, "failed", 0)
  ELSE retryOr(c, t, d)

\* Mutant: the phase is not looked at.
BeginResolveUnchecked(c, t, d) ==
  /\ run[c].pc = "returned" /\ ~run[c].hb
  /\ SetRun(c, [run[c] EXCEPT !.pc = "complete", !.out = decideOutcome(c, t, d)])
  /\ UNCHANGED <<vars, loop, ask, active, drain>>

\* The heartbeat is quiet, then running -> resolving; who loses that race to drain
\* reports the attempt as not committed and completes nothing.
BeginResolve(c, t, d) ==
  /\ run[c].pc = "returned" /\ ~run[c].hb
  /\ SetRun(c, IF run[c].phase = "running"
               THEN [run[c] EXCEPT !.pc = "complete", !.phase = "resolving",
                                   !.out = decideOutcome(c, t, d)]
               ELSE [run[c] EXCEPT !.pc = "finished"])
  /\ UNCHANGED <<vars, loop, ask, active, drain>>

\* complete: the outcome is applied and acknowledged ...
complete(c) ==
  /\ run[c].pc = "complete"
  /\ Complete(c, run[c].out)
  /\ SetRun(c, [run[c] EXCEPT !.pc = "finished", !.persisted = TRUE, !.committed = TRUE])
  /\ UNCHANGED <<loop, ask, active, drain>>

OneTryLess(r) == [r EXCEPT !.tries = @ + 1, !.pc = IF r.tries + 1 = Tries THEN "finished" ELSE @]

\* ... or applied, with the reply lost ...
completeLost(c) ==
  /\ LossyCalls
  /\ run[c].pc = "complete"
  /\ Complete(c, run[c].out)
  /\ SetRun(c, [OneTryLess(run[c]) EXCEPT !.persisted = TRUE])
  /\ UNCHANGED <<loop, ask, active, drain>>

\* ... or not applied ...
completeFailed(c) ==
  /\ LossyCalls
  /\ run[c].pc = "complete"
  /\ SetRun(c, OneTryLess(run[c]))
  /\ UNCHANGED <<vars, loop, ask, active, drain>>

\* ... or refused, which ends the tries.
completeNotFound(c) ==
  /\ run[c].pc = "complete" /\ ~Owns(c)
  /\ SetRun(c, [run[c] EXCEPT !.pc = "finished"])
  /\ UNCHANGED <<vars, loop, ask, active, drain>>

\* The deferred calls: first active.Delete, by job id, whichever run is there ...
Deregister(c) ==
  /\ run[c].pc = "finished"
  /\ active' = [active EXCEPT ![c.worker][c.job] = NoClaim]
  /\ SetRun(c, [run[c] EXCEPT !.pc = "gone"])
  /\ UNCHANGED <<vars, loop, ask, drain>>

\* ... then the queue's count, the semaphore and the wait group.
Release(c) ==
  /\ run[c].pc = "gone"
  /\ Drop({c})
  /\ run' = [b \in claims' |-> run[b]]
  /\ UNCHANGED <<loop, ask, active, drain>>

-----------------------------------------------------------------------------
(* Shutdown *)

\* Start's context ends, or Stop was called.
Shutdown(w) ==
  /\ Idle(w)
  /\ loop' = [loop EXCEPT ![w] = "draining"]
  /\ UNCHANGED <<vars, ask, active, run, drain>>

\* The wait group is at zero before the deadline.
DrainDone(w) ==
  /\ loop[w] = "draining" /\ RunsOf(w) = {}
  /\ loop' = [loop EXCEPT ![w] = "returned"]
  /\ UNCHANGED <<vars, ask, active, run, drain>>

\* The deadline: Range starts over the runs registered now.
DrainDeadline(w) ==
  /\ loop[w] = "draining"
  /\ loop' = [loop EXCEPT ![w] = "ranging"]
  /\ drain' = [drain EXCEPT ![w].draining = TRUE,
                            ![w].toVisit = {j \in Jobs : active[w][j] # NoClaim}]
  /\ UNCHANGED <<vars, ask, active, run>>

\* Mutant: the handler's context is not ended.
VisitNoCancel(w, j) ==
  LET c == active[w][j]
      abandons == c # NoClaim /\ run[c].phase \in {"registered", "running"} IN
  /\ loop[w] = "ranging" /\ j \in drain[w].toVisit
  /\ IF abandons THEN SetRun(c, [run[c] EXCEPT !.phase = "abandoned"]) ELSE UNCHANGED run
  /\ drain' = [drain EXCEPT ![w].toVisit = @ \ {j}, ![w].abandoned = @ \/ abandons]
  /\ UNCHANGED <<vars, loop, ask, active>>

\* registered or running -> abandoned, unless the run got there first; a run that
\* deregistered meanwhile is not met.
Visit(w, j) ==
  LET c == active[w][j]
      abandons == c # NoClaim /\ run[c].phase \in {"registered", "running"} IN
  /\ loop[w] = "ranging" /\ j \in drain[w].toVisit
  /\ IF abandons THEN SetRun(c, [CanceledCtx(run[c]) EXCEPT !.phase = "abandoned"])
                 ELSE UNCHANGED run
  /\ drain' = [drain EXCEPT ![w].toVisit = @ \ {j}, ![w].abandoned = @ \/ abandons]
  /\ UNCHANGED <<vars, loop, ask, active>>

\* The wait group's goroutine may be late, so a quiet worker may still report the
\* deadline.
DrainReturn(w, exceeded) ==
  /\ loop[w] = "ranging" /\ drain[w].toVisit = {}
  /\ exceeded \/ (RunsOf(w) = {} /\ ~drain[w].abandoned)
  /\ loop' = [loop EXCEPT ![w] = "returned"]
  /\ drain' = [drain EXCEPT ![w].exceeded = exceeded]
  /\ UNCHANGED <<vars, ask, active, run>>

\* The process dies, before or after Start returned, with every run in it.
Crash(w) ==
  /\ w \in Crashes /\ loop[w] # "dead"
  /\ loop' = [loop EXCEPT ![w] = "dead"]
  /\ Drop(RunsOf(w))
  /\ run' = [c \in claims' |-> run[c]]
  /\ active' = [active EXCEPT ![w] = [j \in Jobs |-> NoClaim]]
  /\ drain' = [drain EXCEPT ![w] = NoDrain]
  /\ ask' = [ask EXCEPT ![w] = NoAsk]

\* A new process under the configured id of the one that died.
Restart(w) ==
  /\ loop[w] = "dead"
  /\ loop' = [loop EXCEPT ![w] = "new"]
  /\ UNCHANGED <<vars, ask, active, run, drain>>

-----------------------------------------------------------------------------
(* The specification *)

WorkerInit ==
  /\ Init
  /\ loop = [w \in Workers |-> "new"]
  /\ ask = [w \in Workers |-> NoAsk]
  /\ active = [w \in Workers |-> [j \in Jobs |-> NoClaim]]
  /\ run = [c \in {} |-> NewRun]
  /\ drain = [w \in Workers |-> NoDrain]

LoopStep(w) ==
  \/ Start(w) \/ ReadRoom(w) \/ tryClaimNothing(w)
  \/ \E t \in Clock : \E C \in (SUBSET Eligible(w, t)) \ {{}} :
       tryClaim(w, C, t) \/ tryClaimLost(w, C, t)
  \/ \E c \in RunsOf(w) : Launch(c)
  \/ \E t \in Clock : trySweep(w, t)
  \/ Shutdown(w) \/ DrainDone(w) \/ DrainDeadline(w)
  \/ \E j \in Jobs : Visit(w, j)
  \/ \E exceeded \in BOOLEAN : DrainReturn(w, exceeded)
  \/ Crash(w) \/ Restart(w)

HeartbeatStep(c) ==
  \/ \E t \in Clock : heartbeat(c, t) \/ heartbeatLost(c, t)
  \/ heartbeatNotFound(c) \/ heartbeatExit(c)

RunStep(c) ==
  \/ Begin(c) \/ Timeout(c)
  \/ \E result \in {"ok", "error", "permanent", "canceled"} : HandlerReturn(c, result)
  \/ \E t \in Clock, d \in Delays : BeginResolve(c, t, d)
  \/ complete(c) \/ completeLost(c) \/ completeFailed(c) \/ completeNotFound(c)
  \/ Deregister(c) \/ Release(c)

\* Producers and operators, and time.
ClientStep ==
  /\ \/ \E j \in Jobs, t \in Clock : Insert({j}, [i \in {j} |-> 0], t) \/ Retry(j, t)
     \/ \E j \in Jobs : Cancel(j) \/ Delete(j)
     \/ Tick
  /\ UNCHANGED workerVars

WorkerNext ==
  \/ \E w \in Workers : LoopStep(w)
  \/ \E c \in claims : HeartbeatStep(c) \/ RunStep(c)
  \/ ClientStep

WorkerSpec == WorkerInit /\ [][WorkerNext]_allVars
WorkerNextNoReclaim == WorkerNext /\ NoReclaim

\* A goroutine that can go on does; the drain's context has a deadline; a handler
\* returns once its context has ended; a running heartbeat ticks.  A claim of j by
\* w is the only one while nothing is leased back to a worker that holds it.
RunOf(w, j) == {c \in claims : c.worker = w /\ c.job = j}

HandlerEnds(c) ==
  /\ run[c].ctx # "live"
  /\ \E result \in {"ok", "error", "permanent", "canceled"} : HandlerReturn(c, result)

RunGoesOn(w, j) ==
  \E c \in RunOf(w, j) :
    \/ Launch(c) \/ Begin(c) \/ HandlerEnds(c)
    \/ \E t \in Clock, d \in Delays : BeginResolve(c, t, d)
    \/ complete(c) \/ completeLost(c) \/ completeFailed(c) \/ completeNotFound(c)
    \/ Deregister(c) \/ Release(c)

Beats(w, j) ==
  \E c \in RunOf(w, j) : heartbeatNotFound(c) \/ \E t \in Clock : heartbeat(c, t)

BeatEnds(w, j) == \E c \in RunOf(w, j) : heartbeatExit(c)

DrainGoesOn(w) ==
  \/ DrainDone(w) \/ DrainDeadline(w)
  \/ \E j \in Jobs : Visit(w, j)
  \/ \E exceeded \in BOOLEAN : DrainReturn(w, exceeded)

-----------------------------------------------------------------------------
(* Properties *)

\* The fields hold what the code can store in them (Worker, runState).
WorkerTypeOK ==
  /\ loop \in [Workers -> {"new", "polling", "claiming", "draining", "ranging", "returned", "dead"}]
  /\ \A w \in Workers : ask[w].limit \in 0 .. Concurrency
  /\ run \in [claims -> Run]
  /\ active \in [Workers -> [Jobs -> claims \cup {NoClaim}]]
  /\ drain \in [Workers -> [draining : BOOLEAN, toVisit : SUBSET Jobs,
                            abandoned : BOOLEAN, exceeded : BOOLEAN]]

\* A worker never runs more jobs than its slots, nor more of a queue than PerQueue
\* allows, however completions and polls interleave (tryClaim's send on the
\* semaphore would block the loop otherwise).
WithinLimits ==
  \A w \in Workers :
    /\ Cardinality(RunsOf(w)) <= Concurrency
    /\ \A q \in DOMAIN PerQueue : Cardinality(InQueue(w, q)) <= PerQueue[q]

\* Every store call of a worker is one the store's contract foresees: the worker
\* and its environment implement JobStore.  (This is its Spec, the stutter first.)
ImplementsStore == Init /\ [][UNCHANGED vars \/ Next]_vars

\* Once drain has abandoned a run, its handler is not started and its outcome is
\* not written (runPhase: terminal), in whatever order drain and the run got there.
AbandonedStays ==
  \A c \in claims \cap claims' : run[c].phase = "abandoned" =>
    /\ run'[c].phase = "abandoned"
    /\ run'[c].pc = "handler" => run[c].pc = "handler"
    /\ run'[c].persisted = run[c].persisted

\* After Start returned, every goroutine it leaves behind was abandoned or had
\* begun to resolve (drain: "abandons active attempts when ctx ends. Resolving
\* attempts may finish after it returns").
DrainedQuiet ==
  \A w \in Workers : loop[w] = "returned" =>
    \A c \in RunsOf(w) : run[c].phase \in {"abandoned", "resolving"}

\* When Start returns nil, the worker leaves no job leased to it: nothing has to
\* wait for a lease to expire (Start: DeadlineExceeded "if the drain deadline
\* expires with unfinished work").
CleanDrain ==
  \A w \in Workers : loop[w] = "returned" /\ ~drain[w].exceeded =>
    \A j \in Jobs : ~(row[j].state = "running" /\ row[j].lockedBy = w)

\* A user's cancellation observed by the heartbeat decides the outcome, whatever
\* timed out or failed at the same time.
CancelBeatsTimeout ==
  \A c \in claims : run[c].cancelByUser /\ run[c].out # NoClaim => run[c].out.state = "cancelled"

\* The runs of a worker stay within its slots and queue caps, and a cancellation that
\* the heartbeat saw beats every other end of a run (tryClaim, decideOutcome).
RunsInBounds == WorkerTypeOK /\ WithinLimits /\ CancelBeatsTimeout

Draining(w) == loop[w] = "draining"
ShutDown(w) == RunsOf(w) = {} /\ loop[w] # "draining"

\* The current lease of j is in the hands of a running handler, its cancellation
\* was requested, and the handler has not been told.
CancelPending(j) ==
  \E c \in claims :
    /\ c.job = j /\ Owns(c) /\ row[j].cancelRequested
    /\ run[c].pc = "handler" /\ run[c].ctx = "live"
=============================================================================
