---------------------------- MODULE JobScheduler ----------------------------
(***************************************************************************)
(* Recurring jobs (jobs/schedule.go): processes that declare schedules,     *)
(* reconcile the schedule table with their declarations, and fire what is   *)
(* due.  A scheduler reads the due rows, plans each fire from the row it    *)
(* read, and applies it by compare-and-swap on LastRunAt: time passes and   *)
(* other processes act in between.  Each Store method is one atomic step    *)
(* (jobs/store_memory.go); a call may fail, and a process may die, at any   *)
(* point.                                                                   *)
(***************************************************************************)
EXTENDS Integers, Sequences

CONSTANTS
  Names,       \* schedule names of one group; ordered, as strings are
  Processes,
  Declares,    \* Declares[p]: [spec, catchUp] for each name p declares
  Handles,     \* Handles[p]: names whose kind has a handler in p
  Singleton,   \* names declared with ScheduleOptions.Singleton
  Unbuildable, \* names whose stored row buildJobs rejects
  Leftover,    \* names an earlier deployment left in the table
  Mortal,      \* processes that may die
  Skew,        \* how far behind a process's clock may be
  CatchUpAllMax,
  Absent,      \* no row under a name
  MaxTime      \* bound: the clock stops here

\* An interval, or the ticks of a cron expression: here the multiples of d.
Specs == [cron : BOOLEAN, d : Nat \ {0}]
Policies == {"once", "skip", "all"}

Row == [spec : Specs, catchUp : Policies, next : Nat, last : Nat]

ASSUME NamesAssumption == Names \subseteq Nat /\ Absent \notin Row
ASSUME DeclaresAssumption ==
  /\ CatchUpAllMax \in Nat \ {0} /\ MaxTime \in Nat \ {0} /\ Skew \in Nat
  /\ Singleton \subseteq Names /\ Unbuildable \subseteq Names /\ Leftover \subseteq Names
  /\ \A p \in Processes :
       /\ DOMAIN Declares[p] \subseteq Names /\ Handles[p] \subseteq Names
       /\ \A n \in DOMAIN Declares[p] : Declares[p][n].spec \in Specs
                                        /\ Declares[p][n].catchUp \in Policies

VARIABLES
  sched,  \* sched[n]: the stored row, or Absent
  jobs,   \* jobs[n]: the ticks (ScheduledFor) jobs were inserted for, in order
  open,   \* open[n]: a singleton's job is live, so its unique key is taken
  proc,   \* proc[p]: where the process is and what it holds
  now     \* real time; 0 is the zero time, a LastRunAt never set

vars == <<sched, jobs, open, proc, now>>

Down == [pc |-> "down", todo |-> {}, first |-> <<>>, due |-> <<>>, at |-> 0, seen |-> <<>>]

Stored == {n \in Names : sched[n] # Absent}
Clock == {t \in 1 .. now : t >= now - Skew}
FirstOf(S) == CHOOSE n \in S : \A m \in S : n <= m

-----------------------------------------------------------------------------
(* Ticks *)

\* Spec.next applied k times from t, k > 0: an interval adds up, a cron
\* expression moves to its ticks.
Tick(spec, t, k) == IF spec.cron THEN spec.d * ((t \div spec.d) + k) ELSE t + k * spec.d

next(spec, t) == Tick(spec, t, 1)

\* The backlog from t on: t itself, then the ticks after it.
Backlog(spec, t, k) == IF k = 0 THEN t ELSE Tick(spec, t, k)

planFiresOnce(r, at) == [ticks |-> <<r.next>>, next |-> next(r.spec, at)]
planFiresStuck(r, at) == [ticks |-> <<r.next>>, next |-> r.next]

\* The ticks of a backlog up to at, by their place in it; the loop over them stops at
\* the cap.
missed(r, at) == {k \in 0 .. at : Backlog(r.spec, r.next, k) <= at}
capped(r, at) == CatchUpAllMax \in missed(r, at)
emitted(r, at) ==
  IF capped(r, at) THEN CatchUpAllMax
  ELSE CHOOSE k \in 0 .. at + 1 : \A i \in 0 .. at : i \in missed(r, at) <=> i < k

\* What a fire planned at time at from row r emits, and the row's new NextRunAt.
planFires(r, at) ==
  CASE r.catchUp = "skip" ->
         [ticks |-> <<>>, next |-> IF r.next > at THEN r.next ELSE next(r.spec, at)]
    [] r.catchUp = "all" ->
         [ticks |-> [i \in 1 .. emitted(r, at) |-> Backlog(r.spec, r.next, i - 1)],
          next |-> IF capped(r, at) THEN next(r.spec, at)
                   ELSE Backlog(r.spec, r.next, emitted(r, at))]
    [] OTHER ->
         IF r.next > at THEN [ticks |-> <<>>, next |-> r.next]
         ELSE [ticks |-> <<r.next>>, next |-> next(r.spec, at)]

-----------------------------------------------------------------------------
(* Reconciliation *)

\* A process starts: Schedule computes a first run for every declaration.
Boot(p, t) ==
  /\ proc[p].pc = "down"
  /\ proc' = [proc EXCEPT ![p] = [Down EXCEPT
       !.pc = "upserting", !.todo = DOMAIN Declares[p],
       !.first = [n \in DOMAIN Declares[p] |-> next(Declares[p][n].spec, t)]]]
  /\ UNCHANGED <<sched, jobs, open, now>>

\* An existing row, read as r, keeps LastRunAt, and NextRunAt unless the spec changed.
Upserted(n, r, spec, catchUp, first) ==
  IF r = Absent
  THEN [spec |-> spec, catchUp |-> catchUp, next |-> first, last |-> 0]
  ELSE [spec |-> spec, catchUp |-> catchUp, last |-> sched[n].last,
        next |-> IF r.spec = spec THEN r.next ELSE first]

UpsertSchedule(p) ==
  LET n == FirstOf(proc[p].todo) d == Declares[p][n] IN
  /\ proc[p].pc = "upserting" /\ proc[p].todo # {}
  /\ sched' = [sched EXCEPT ![n] = Upserted(n, sched[n], d.spec, d.catchUp, proc[p].first[n])]
  /\ proc' = [proc EXCEPT ![p].todo = @ \ {n}]
  /\ UNCHANGED <<jobs, open, now>>

\* PostgreSQL and MySQL at READ COMMITTED: the SELECT locks nothing, and the INSERT or
\* UPDATE that follows may meet another row than the SELECT saw.
UpsertSelect(p) ==
  LET n == FirstOf(proc[p].todo) IN
  /\ proc[p].pc = "upserting" /\ proc[p].todo # {} /\ proc[p].seen = <<>>
  /\ proc' = [proc EXCEPT ![p].seen = <<sched[n]>>]
  /\ UNCHANGED <<sched, jobs, open, now>>

\* An INSERT that meets a row fails, and with it the process's start; an UPDATE that
\* meets none changes nothing.
UpsertWrite(p) ==
  LET n == FirstOf(proc[p].todo) d == Declares[p][n] r == proc[p].seen[1] IN
  /\ proc[p].pc = "upserting" /\ proc[p].seen # <<>>
  /\ IF r = Absent /\ sched[n] # Absent THEN proc' = [proc EXCEPT ![p] = Down] /\ UNCHANGED sched
     ELSE /\ sched' = IF r # Absent /\ sched[n] = Absent THEN sched
                      ELSE [sched EXCEPT ![n] = Upserted(n, r, d.spec, d.catchUp, proc[p].first[n])]
          /\ proc' = [proc EXCEPT ![p].todo = @ \ {n}, ![p].seen = <<>>]
  /\ UNCHANGED <<jobs, open, now>>

Orphans(p) == Stored \ DOMAIN Declares[p]

ListSchedules(p) ==
  /\ proc[p].pc = "upserting" /\ proc[p].todo = {}
  /\ proc' = [proc EXCEPT ![p].pc = "pruning", ![p].todo = Orphans(p)]
  /\ UNCHANGED <<sched, jobs, open, now>>

DeleteSchedule(p) ==
  LET n == FirstOf(proc[p].todo) IN
  /\ proc[p].pc = "pruning" /\ proc[p].todo # {}
  /\ sched' = [sched EXCEPT ![n] = Absent]
  /\ proc' = [proc EXCEPT ![p].todo = @ \ {n}]
  /\ UNCHANGED <<jobs, open, now>>

StartScheduler(p) ==
  /\ proc[p].pc = "pruning" /\ proc[p].todo = {}
  /\ proc' = [proc EXCEPT ![p] = [Down EXCEPT !.pc = "idle"]]
  /\ UNCHANGED <<sched, jobs, open, now>>

\* A call of the reconciliation fails, which ends it, or the process dies.
Die(p) ==
  /\ p \in Mortal /\ proc[p].pc # "down"
  /\ proc' = [proc EXCEPT ![p] = Down]
  /\ UNCHANGED <<sched, jobs, open, now>>

-----------------------------------------------------------------------------
(* Firing *)

DueSchedules(t) == {n \in Stored : sched[n].next <= t}

schedulerTick(p, t) ==
  /\ proc[p].pc = "idle" /\ DueSchedules(t) # {}
  /\ proc' = [proc EXCEPT ![p].pc = "firing", ![p].at = t, ![p].todo = DueSchedules(t),
                          ![p].due = [n \in DueSchedules(t) |-> sched[n]]]
  /\ UNCHANGED <<sched, jobs, open, now>>

\* The process is done with n, the first of the rows it read.
DoneWith(p, n) ==
  proc' = [proc EXCEPT ![p] = IF @.todo = {n} THEN [Down EXCEPT !.pc = "idle"]
                              ELSE [@ EXCEPT !.todo = proc[p].todo \ {n}]]

\* Mutant: any row will do.
WinsAlways(n, expected) == sched[n] # Absent

\* The compare-and-swap; a row that is gone is ErrNotFound.
Wins(n, expected) == sched[n] # Absent /\ sched[n].last = expected

\* The jobs a fire inserts: a singleton's ticks share a key with each other and
\* with its live job.
Inserted(n, ticks) ==
  IF n \notin Singleton THEN ticks
  ELSE IF open[n] \/ ticks = <<>> THEN <<>> ELSE <<ticks[1]>>

\* A fire without ticks, or whose jobs cannot be built, advances NextRunAt and
\* leaves LastRunAt; one whose kind has no handler here is left to other processes.
FireSchedule(p) ==
  LET n == FirstOf(proc[p].todo)
      r == proc[p].due[n]
      plan == planFires(r, proc[p].at)
      ticks == IF n \in Unbuildable THEN <<>> ELSE plan.ticks
      new == Inserted(n, ticks)
  IN /\ proc[p].pc = "firing"
     /\ IF Wins(n, r.last) /\ (plan.ticks = <<>> \/ n \in Handles[p])
        THEN /\ sched' = [sched EXCEPT ![n] = [@ EXCEPT
                  !.next = plan.next, !.last = IF ticks = <<>> THEN r.last ELSE proc[p].at]]
             /\ jobs' = [jobs EXCEPT ![n] = @ \o new]
             /\ open' = [open EXCEPT ![n] = @ \/ (n \in Singleton /\ new # <<>>)]
        ELSE UNCHANGED <<sched, jobs, open>>
     /\ DoneWith(p, n)
     /\ UNCHANGED now

\* The call fails without effect.
FireFails(p) ==
  /\ proc[p].pc = "firing"
  /\ DoneWith(p, FirstOf(proc[p].todo))
  /\ UNCHANGED <<sched, jobs, open, now>>

\* A singleton's job ends.
JobEnds(n) ==
  /\ open[n]
  /\ open' = [open EXCEPT ![n] = FALSE]
  /\ UNCHANGED <<sched, jobs, proc, now>>

Time ==
  /\ now < MaxTime
  /\ now' = now + 1
  /\ UNCHANGED <<sched, jobs, open, proc>>

-----------------------------------------------------------------------------
(* The specification *)

Init ==
  /\ sched = [n \in Names |-> IF n \in Leftover
               THEN [spec |-> [cron |-> FALSE, d |-> 1], catchUp |-> "once", next |-> 1, last |-> 0]
               ELSE Absent]
  /\ jobs = [n \in Names |-> <<>>]
  /\ open = [n \in Names |-> FALSE]
  /\ proc = [p \in Processes |-> Down]
  /\ now = 1

\* Upsert(p) is UpsertSchedule as the store at hand performs it.
NextWith(Upsert(_)) ==
  \/ \E p \in Processes :
       \/ \E t \in Clock : Boot(p, t) \/ schedulerTick(p, t)
       \/ Upsert(p) \/ ListSchedules(p) \/ DeleteSchedule(p) \/ StartScheduler(p)
       \/ FireSchedule(p) \/ FireFails(p) \/ Die(p)
  \/ \E n \in Names : JobEnds(n)
  \/ Time

Next == NextWith(UpsertSchedule)

Spec == Init /\ [][Next]_vars

UpsertByStatements(p) == UpsertSelect(p) \/ UpsertWrite(p)

ReadCommittedSpec == Init /\ [][NextWith(UpsertByStatements)]_vars

\* A process that does not die goes on, its timer ticks, and a store call that is
\* tried again and again is served at last.
Fairness(p) ==
  /\ WF_vars(\/ Boot(p, now) \/ UpsertSchedule(p) \/ ListSchedules(p) \/ DeleteSchedule(p)
             \/ StartScheduler(p) \/ schedulerTick(p, now))
  /\ SF_vars(FireSchedule(p))

FairSpec == Spec /\ \A p \in Processes \ Mortal : Fairness(p)

-----------------------------------------------------------------------------
(* Properties *)

\* All processes run the same version of the program.
OneVersion == \A p, q \in Processes : Declares[p] = Declares[q]

\* The fields hold what the code can store in them (ScheduleRow).
TypeOK ==
  /\ sched \in [Names -> Row \cup {Absent}]
  /\ jobs \in [Names -> Seq(Nat)]
  /\ open \in [Names -> BOOLEAN]
  /\ now \in Nat
  /\ \A p \in Processes :
       /\ proc[p].pc \in {"down", "upserting", "pruning", "idle", "firing"}
       /\ proc[p].todo \subseteq Names /\ proc[p].at \in Nat
       /\ proc[p].pc = "firing" => /\ proc[p].todo # {} /\ proc[p].todo \subseteq DOMAIN proc[p].due
                                   /\ \A n \in proc[p].todo : proc[p].due[n] \in Row

\* Of the processes that read the same due row, one fires it (StartScheduler:
\* "FireSchedule picks one winner per tick"): no tick gets a second job, and the
\* ticks of a schedule are fired in order.
OneWinnerPerTick ==
  \A n \in Names : \A i \in 1 .. Len(jobs[n]) - 1 : jobs[n][i] < jobs[n][i + 1]

\* A schedule's next run lies after its last one, so a compare-and-swap on the last
\* run alone tells a fire that was overtaken.
NextAfterLast == \A n \in Stored : sched[n].next > sched[n].last

\* Under CatchUpAll a tick is passed over only once CatchUpAllMax ticks in a row
\* were fired before it, whoever fired them.
BacklogFiredUpToCap ==
  \A n \in Stored \ Singleton : sched[n].catchUp = "all" =>
    LET gap(i) == jobs[n][i + 1] # next(sched[n].spec, jobs[n][i]) IN
    \A i \in 1 .. Len(jobs[n]) - 1 : gap(i) =>
      i >= CatchUpAllMax /\ \A k \in i - CatchUpAllMax + 1 .. i - 1 : ~gap(k)

\* A process that fires has reconciled: the table holds what it declares, whatever
\* earlier deployments and half-done reconciliations left there.
Reconciled ==
  \A p \in Processes : proc[p].pc \in {"idle", "firing"} => Stored = DOMAIN Declares[p]

\* A fire of n moves LastRunAt. One without ticks, or whose jobs cannot be built, does
\* not, so the compare-and-swap lets a fire planned from an older row follow it.
Fires(n) == sched[n].catchUp # "skip" /\ n \notin Unbuildable

\* NextRunAt of a schedule that fires never moves back: neither a late fire nor a
\* restart repeats a tick.
CadenceForward ==
  [][\A n \in Stored : sched'[n] # Absent /\ Fires(n) => sched'[n].next >= sched[n].next]_vars

\* The table holds what the firing processes declare, a row that fires moves forward
\* only, and no tick of a backlog is passed over below the cap (ReconcileSchedules,
\* planFires, FireSchedule).
CadenceKept ==
  [](TypeOK /\ NextAfterLast /\ BacklogFiredUpToCap /\ Reconciled) /\ CadenceForward

\* What is due is dealt with: some process moves every due schedule on.
DueDealtWith ==
  \A n \in Names : (sched[n] # Absent /\ sched[n].next <= now)
                     ~> (sched[n] = Absent \/ sched[n].next > now)

\* A tick that a scheduler meets on time was not missed, so it gets its job (CatchUp:
\* "decides how a schedule handles ticks missed during downtime").
OnTimeTickFires ==
  [][\A n \in Stored \ Singleton :
       /\ sched'[n] # Absent /\ sched'[n].spec = sched[n].spec
       /\ sched[n].next = now /\ sched'[n].next # now
       => \E i \in 1 .. Len(jobs'[n]) : jobs'[n][i] = now]_vars
=============================================================================
