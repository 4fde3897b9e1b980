----------------------------- MODULE MCServices -----------------------------
(***************************************************************************)
(* What holds leases, and the services whose calls have to end, each in an  *)
(* instance of its own: the job store under workers that outlive a lease, a *)
(* worker that shuts down,                                                  *)
(* the rate limiter, the read-through cache, the migration engine, the      *)
(* start and stop of a process, the server-sent event stream and the        *)
(* download pool of the vendoring command. A behaviour is a behaviour of    *)
(* one of them: part names it and the slots v1, v2, ... hold its variables. *)
(***************************************************************************)
EXTENDS Integers, Sequences

CONSTANTS None

VARIABLES part, v1, v2, v3, v4, v5, v6, v7, v8, v9, v10, v11

vars == <<part, v1, v2, v3, v4, v5, v6, v7, v8, v9, v10, v11>>

from6 == <<v6, v7, v8, v9, v10, v11>>
from8 == <<v8, v9, v10, v11>>
from9 == <<v9, v10, v11>>
from10 == <<v10, v11>>

\* Two callers share a key that admits one unit in 2 ticks.
Lim == INSTANCE RateLimit WITH now <- v1, backend <- v2, entry <- v3, call <- v4,
         calls <- v5, admitted <- v6, dropped <- v7,
         Callers <- {1, 2}, Rate <- 1, Period <- 2, Burst <- 0, Horizon <- 2,
         MaxInt <- 9, MaxTime <- 3, MaxCalls <- 2, NoEntry <- None
limVars == Lim!limVars

\* Two callers of a key in one process.
Cac == INSTANCE Cache WITH source <- v1, stored <- v2, calls <- v3, load <- v4, caller <- v5,
         canceled <- v6, made <- v7, cleared <- v8,
         Callers <- {1, 2}, Instances <- {1}, InstanceOf <- <<1, 1>>,
         MaxSource <- 1, MaxCalls <- 2
cacheVars == Cac!cacheVars

\* Two releases that disagree on the first file.
Stream(s) == <<[stream |-> 1, files |-> {[version |-> 1, sum |-> s], [version |-> 2, sum |-> "b"]}]>>
Releases == {Stream("a"), Stream("c")}
Procs == {1, 2}
Mig == INSTANCE Migrations WITH dialect <- v1, history <- v2, effects <- v3, holder <- v4,
         proc <- v5, Ddl <- {"a"}, MaxEffects <- 3
migVars == Mig!migVars

\* Two drains of the jobs runtime beside the server's own shutdown.
Lif == INSTANCE Lifecycle WITH ctx <- v1, chan <- v2, left <- v3, once <- v4, drain <- v5,
         shutdown <- v6, server <- v7, Drainers <- {1, 2}
lifeVars == Lif!lifeVars

Str == INSTANCE Responses WITH produced <- v1, closed <- v2, taken <- v3, gone <- v4,
         stalled <- v5, deadline <- v6, pc <- v7, frame <- v8, sent <- v9,
         Initial <- 2, MaxEvents <- 3,
         stack <- None, commitErr <- None, offers <- None, x <- None, at <- None, outcome <- None,
         ops <- None, Stacks <- {}, Statuses <- {}, OfferSets <- {}, MaxOps <- 0
streamVars == Str!streamVars

\* Two packages through a pool of one download.
Fet == INSTANCE Vendor WITH size <- v1, published <- v2, job <- v3, dispatch <- v4,
         canceled <- v5, firstErr <- v6, totalSourceBytes <- v7, totalPublishedBytes <- v8,
         staged <- v9, outcome <- v10,
         Count <- 2, Sizes <- {1, 2}, Growth <- {0, 1}, vendorDownloadConcurrency <- 1,
         MaxPackageBytes <- 2, MaxResolutionBytes <- 4,
         disk <- None, durable <- None, mem <- None, call <- None, ops <- None, edited <- None, adopted <- None,
         Versions <- {}, Deps <- <<>>, MaxOps <- 0
fetchVars == Fet!fetchVars

\* One job, two workers that may keep claims past their lease, clocks one unit late.
Lea == INSTANCE MCJobStore WITH row <- v1, uniq <- v2, ledger <- v3, claims <- v4, leases <- v5,
         now <- v6, reclaimed <- v7,
         Jobs <- {1}, Workers <- {"w1", "w2"}, NoKey <- None, NoJob <- None, NoWorker <- None,
         Queue <- <<"default">>, Priority <- <<0>>, Key <- <<"k">>, MaxAttempts <- <<2>>,
         Serves <- [w \in {"w1", "w2"} |-> {1}], Limits <- {1}, Lease <- 1, Delays <- {1}, Lag <- 1,
         MaxTime <- 3, MaxLeases <- 3

\* One worker with two slots and one job that times out into a retry; its clock is
\* exact, the runs of the job do not overlap in the worker.
Wrk == INSTANCE JobWorker WITH row <- v1, uniq <- v2, ledger <- v3, claims <- v4, leases <- v5,
         now <- v6, loop <- v7, ask <- v8, active <- v9, run <- v10, drain <- v11,
         Jobs <- {1}, Workers <- {"w"}, NoKey <- None, NoJob <- None, NoWorker <- None,
         NoClaim <- None, Queue <- <<"default">>, Priority <- <<0>>, Key <- <<None>>,
         MaxAttempts <- <<2>>, Serves <- [w \in {"w"} |-> {1}],
         PerQueue <- [q \in {"bulk"} |-> 1], OnTimeout <- <<"retry">>, Undecodable <- {},
         Concurrency <- 2, Limits <- {1, 2}, Tries <- 1, Crashes <- {}, LossyCalls <- FALSE,
         CallLag <- 0, Lease <- 1, Delays <- {0}, Lag <- 1, MaxTime <- 1, MaxLeases <- 2
workVars == Wrk!allVars

Unused11 == v11 = None
Unused10 == v10 = None /\ Unused11
Unused9 == v9 = None /\ Unused10
Unused8 == v8 = None /\ Unused9
Unused6 == v6 = None /\ v7 = None /\ Unused8

Init ==
  \/ part = "limiter" /\ Lim!Init /\ Unused8
  \/ part = "cache" /\ Cac!Init /\ Unused9
  \/ part = "migrate" /\ Mig!Init /\ Unused6
  \/ part = "life" /\ Lif!Init /\ Unused8
  \/ part = "stream" /\ Str!StreamInit /\ Unused10
  \/ part = "fetch" /\ Fet!FetchInit /\ Unused11
  \/ part = "leases" /\ Lea!MCInit /\ Unused8
  \/ part = "drain" /\ Wrk!WorkerInit

Next ==
  \/ part = "limiter" /\ Lim!Next /\ UNCHANGED <<part, from8>>
  \/ part = "cache" /\ Cac!Next /\ UNCHANGED <<part, from9>>
  \/ part = "migrate" /\ Mig!Next /\ UNCHANGED <<part, from6>>
  \/ part = "life" /\ Lif!Next /\ UNCHANGED <<part, from8>>
  \/ part = "stream" /\ Str!StreamNext /\ UNCHANGED <<part, from10>>
  \/ part = "fetch" /\ Fet!FetchNext /\ UNCHANGED <<part, v11>>
  \/ part = "leases" /\ Lea!MCNext /\ UNCHANGED <<part, from8>>
  \/ part = "drain" /\ Wrk!WorkerNextNoReclaim /\ UNCHANGED part

\* Fairness, for the part that runs. A goroutine that can go on does. Load functions,
\* downloads and statements return, deadlines come; callers need not cancel, crash
\* or begin again, and nothing says that a hosted goroutine ends. A lock that is
\* asked for again and again is granted (SF), and a select passes over neither the
\* end of a stream nor an event for ever (SF), since it chooses at random.
Fairness ==
  /\ \A c \in {1, 2} : WF_limVars(part = "limiter" /\ Lim!Step(c))
  /\ \A p \in {1, 2} : WF_cacheVars(part = "cache" /\ Cac!Proceed(p))
  /\ \A p \in Procs : /\ WF_migVars(part = "migrate" /\ Mig!Proceed(p))
                      /\ SF_migVars(part = "migrate" /\ Mig!OpenSession(p))
  /\ \A d \in {1, 2} : /\ WF_lifeVars(part = "life" /\ Lif!Deadline(d))
                           /\ WF_lifeVars(part = "life" /\ Lif!DrainStep(d))
  /\ WF_lifeVars(part = "life" /\ Lif!RunStep)
  /\ WF_streamVars(part = "stream" /\ Str!Deadline)
  /\ WF_streamVars(part = "stream" /\ Str!Handler)
  /\ SF_streamVars(part = "stream" /\ Str!RespondSelect /\ v7' = "done")
  /\ SF_streamVars(part = "stream" /\ Str!RespondSelect /\ v3' # v3)
  /\ WF_fetchVars(part = "fetch" /\ Fet!Dispatcher)
  /\ \A i \in 1..2 : WF_fetchVars(part = "fetch" /\ Fet!Goroutine(i))
  /\ WF_workVars(part = "drain" /\ Wrk!DrainGoesOn("w"))
  /\ WF_workVars(part = "drain" /\ Wrk!RunGoesOn("w", 1))
  /\ WF_workVars(part = "drain" /\ Wrk!Beats("w", 1))
  /\ WF_workVars(part = "drain" /\ Wrk!BeatEnds("w", 1))

Spec == Init /\ [][Next]_vars /\ Fairness

----------------------------------------------------------------------------

\* The drain of the jobs runtime returns nil only when every goroutine ended well and
\* answers all its callers the same. EventStream.Respond: the client reads the events
\* in order, none twice.
AnswersTrue ==
  /\ part = "life" => Lif!DrainTellsTruth /\ Lif!DrainsAgree
  /\ part = "stream" => Str!InOrder

\* What has begun and has to end, numbered within its part: the retry loop of RateLimit's
\* admit, where a compare-and-swap fails only because another call changed the entry; a
\* call of the Cache, where a canceled runner hands over to a waiter, and a Delete and
\* the write it waits for do not wait for each other; a Migrate, which gets the lock or
\* gives up, since whoever holds it releases it, fails or is gone; a drain of the runtime
\* and, as 3, Server.Run after a cancellation or a failed listener, neither of which
\* waits longer than its deadline; an event stream whose client went away or whose source
\* closed, even when the client stopped reading (EventStream.send's write deadline);
\* fetchAll, where a failed download gives its slot of sem back.
Begun(i) ==
  \/ part = "limiter" /\ i \in 1..2 /\ Lim!Began(i)
  \/ part = "cache" /\ i \in 1..2 /\ ~Cac!At(i, "idle")
  \/ part = "migrate" /\ i \in 1..2 /\ Mig!At(i, "start")
  \/ part = "life" /\ IF i = 3 THEN Lif!Stopping ELSE Lif!Draining(i)
  \/ part = "stream" /\ i = 1 /\ Str!Ending
  \/ part = "fetch" /\ i = 1

Over(i) ==
  \/ part = "limiter" /\ i \in 1..2 /\ Lim!Answered(i)
  \/ part = "cache" /\ i \in 1..2 /\ Cac!At(i, "returned")
  \/ part = "migrate" /\ i \in 1..2 /\ Mig!At(i, "done")
  \/ part = "life" /\ IF i = 3 THEN Lif!Stopped ELSE Lif!Drained(i)
  \/ part = "stream" /\ Str!Ended
  \/ part = "fetch" /\ Fet!Returned

\* The calls of admit, of the Cache, of Migrate, of the drains, of Server.Run and of
\* fetchAll all return, whatever the others do, and a stream ends with its client. (No
\* behaviour changes its part, so each alternative of Begun leads to the same one of Over.)
CallsEnd == \A i \in 1..3 : Begun(i) ~> Over(i)

\* Drain tells the truth about what it leaves: after Start returned, the goroutines
\* left behind were abandoned or had begun to resolve, and after a clean return no job
\* is leased to the worker. What it abandons stays abandoned (Worker.drain, runPhase).
DrainSafe ==
  /\ [](part = "drain" => Wrk!DrainedQuiet /\ Wrk!CleanDrain)
  /\ [][part = "drain" => Wrk!AbandonedStays]_vars

\* A shutdown ends: every run of the worker returns, since drain cancels those it
\* abandons and the others are about to finish (Worker.Start, Worker.drain).
ShutdownEnds == (part = "drain" /\ Wrk!Draining("w")) ~> (part = "drain" /\ Wrk!ShutDown("w"))

\* A requested cancellation reaches the handler through the heartbeat, or the handler
\* is done (heartbeatLoop).
CancelReachesHandler ==
  (part = "drain" /\ Wrk!CancelPending(1)) ~> (part = "drain" /\ ~Wrk!CancelPending(1))

\* Through late heartbeats, completions and sweeps, a lease ends once, by its holder or by
\* its deadline, what it ended stays ended, and the ledger has one outcome for it
\* (MemoryStore's Heartbeat, Complete, SweepExpired).
LeaseOutcomesExact ==
  /\ [](part = "leases" => Lea!WellFormed /\ Lea!LedgerExact)
  /\ [][part = "leases" => Lea!LeaseEnds]_vars
=============================================================================
