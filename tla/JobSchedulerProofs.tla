------------------------- MODULE JobSchedulerProofs -------------------------
(***************************************************************************)
(* What JobScheduler guarantees for any names, schedules, number of          *)
(* processes and clock skew, as long as all processes run one version of the *)
(* program.                                                                 *)
(***************************************************************************)
EXTENDS JobSchedulerLemmas

-----------------------------------------------------------------------------
(* A fire *)

\* What a fire inserts: a singleton's first tick at most, else every tick.
LEMMA InsertedFacts ==
  ASSUME NEW n \in Names, NEW ticks \in Seq(Nat), NEW at \in Nat, Ascending(ticks),
         \A i \in 1 .. Len(ticks) : ticks[i] <= at
  PROVE  LET new == Inserted(n, ticks) IN
         /\ new \in Seq(Nat) /\ Ascending(new)
         /\ \A i \in 1 .. Len(new) : new[i] <= at
         /\ Len(new) > 0 => Len(ticks) > 0 /\ new[1] = ticks[1]
         /\ n \notin Singleton => new = ticks
         /\ ticks = <<>> => new = <<>>
<1>1. CASE n \notin Singleton
  BY <1>1 DEF Inserted
<1>2. CASE n \in Singleton /\ (open[n] \/ ticks = <<>>)
  <2>1. Inserted(n, ticks) = <<>>
    BY <1>2 DEF Inserted
  <2> QED BY <1>2, <2>1 DEF Ascending
<1>3. CASE n \in Singleton /\ ~(open[n] \/ ticks = <<>>)
  <2>1. Inserted(n, ticks) = <<ticks[1]>> /\ ticks # <<>>
    BY <1>3 DEF Inserted
  <2>2. Len(ticks) > 0 /\ ticks[1] \in Nat /\ ticks[1] <= at
    BY <2>1
  <2> QED BY <1>3, <2>1, <2>2 DEF Ascending
<1> QED BY <1>1, <1>2, <1>3

\* The row a fire writes.
Fired(row, nx, l) == [row EXCEPT !.next = nx, !.last = l]

LEMMA FiredRow ==
  ASSUME NEW row \in Row, NEW nx \in Nat, NEW l \in Nat
  PROVE  LET f == Fired(row, nx, l) IN
         f \in Row /\ f.spec = row.spec /\ f.catchUp = row.catchUp /\ f.next = nx /\ f.last = l
BY Zenon DEF Fired, Row

\* Under CatchUpAll, a fire's ticks follow the streak before them.
LEMMA StreakGrows ==
  ASSUME NEW s, NEW J \in Seq(Nat), NEW x, Streak(s, J, x),
         NEW u \in Seq(Nat), Len(u) > 0, u[1] = x,
         \A i \in 1 .. Len(u) - 1 : u[i + 1] = next(s, u[i]),
         NEW y, y = next(s, u[Len(u)]) \/ Len(u) = CatchUpAllMax
  PROVE  Streak(s, J \o u, y)
<1> DEFINE K == J \o u
           L == Len(J)
           U == Len(u)
<1>1. L \in Nat /\ U \in Nat \ {0} /\ CatchUpAllMax \in Nat \ {0}
  BY DeclaresAssumption
<1>2. /\ Len(K) = L + U
      /\ \A i \in 1 .. L : K[i] = J[i]
      /\ \A i \in 1 .. U : K[L + i] = u[i]
  OBVIOUS
<1> HIDE DEF K
<1>3. ASSUME NEW i \in 1 .. L - 1 PROVE gap(s, K, i) <=> gap(s, J, i)
  <2>1. i \in 1 .. L /\ i + 1 \in 1 .. L
    BY <1>1
  <2> QED BY <1>2, <2>1 DEF gap
<1>4. ASSUME NEW i \in Int, L < i, i < L + U PROVE ~gap(s, K, i)
  <2> DEFINE k == i - L
  <2>1. k \in 1 .. U - 1 /\ k \in 1 .. U /\ k + 1 \in 1 .. U /\ i = L + k /\ i + 1 = L + (k + 1)
    BY <1>1, <1>4
  <2> HIDE DEF k, L
  <2>2. K[i] = u[k] /\ K[i + 1] = u[k + 1] /\ u[k + 1] = next(s, u[k])
    BY <1>2, <2>1
  <2> QED BY <2>2 DEF gap
<1>5. ASSUME NEW i \in 1 .. L, InStreak(s, J, i) PROVE InStreak(s, K, i)
  <2>1. ASSUME NEW k \in i - CatchUpAllMax + 1 .. i - 1 PROVE ~gap(s, K, k)
    <3>1. k \in 1 .. L - 1
      BY <1>1, <1>5 DEF InStreak
    <3> QED BY <1>3, <1>5, <3>1 DEF InStreak
  <2> QED BY <1>5, <2>1 DEF InStreak
<1> HIDE DEF L, U
<1>6. ASSUME NEW i \in 1 .. L + U - 1, gap(s, K, i) PROVE InStreak(s, K, i)
  <2>1. CASE i < L
    <3>1. i \in 1 .. L - 1 /\ i \in 1 .. L
      BY <1>1, <2>1
    <3> QED BY <1>3, <1>5, <1>6, <3>1 DEF Streak, L
  <2>2. CASE i = L
    <3>1. K[L + 1] = x /\ K[L] = J[L] /\ L > 0 /\ L \in 1 .. L
      BY <1>1, <1>2, <2>2
    <3>2. InStreak(s, J, L)
      BY <1>6, <2>2, <3>1 DEF gap, Streak, L
    <3> QED BY <1>5, <2>2, <3>1, <3>2
  <2>3. CASE i > L
    BY <1>1, <1>4, <1>6, <2>3
  <2> QED BY <1>1, <2>1, <2>2, <2>3
<1>7. y = next(s, K[L + U]) \/ InStreak(s, K, L + U)
  <2>1. CASE y = next(s, u[U])
    BY <1>1, <1>2, <2>1
  <2>2. CASE U = CatchUpAllMax
    <3>1. \A k \in (L + U) - CatchUpAllMax + 1 .. (L + U) - 1 : ~gap(s, K, k)
      BY <1>1, <1>4, <2>2
    <3> QED BY <1>1, <2>2, <3>1 DEF InStreak
  <2> QED BY <2>1, <2>2 DEF U
<1>8. Streak(s, K, y)
  <2>1. \A i \in 1 .. Len(K) - 1 : gap(s, K, i) => InStreak(s, K, i)
    <3> TAKE i \in 1 .. Len(K) - 1
    <3>1. i \in 1 .. L + U - 1
      BY <1>1, <1>2
    <3> HAVE gap(s, K, i)
    <3> QED BY <1>6, <3>1
  <2>2. y = next(s, K[Len(K)]) \/ InStreak(s, K, Len(K))
    BY <1>2, <1>7
  <2> QED BY <2>1, <2>2 DEF Streak
<1> QED BY <1>8 DEF K


\* A fire that wins, of the row as it was read: the row that fires is still the row
\* that was read.
LEMMA FireKeeps ==
  ASSUME IInv, OneVersion, NEW p \in Processes, NEW n, n = FirstOf(proc[p].todo), FireSchedule(p)
  PROVE  IInv'
<1> DEFINE r == proc[p].due[n]
           at == proc[p].at
           plan == planFires(r, at)
           ticks == IF n \in Unbuildable THEN <<>> ELSE plan.ticks
           new == Inserted(n, ticks)
           wins == Wins(n, r.last) /\ (plan.ticks = <<>> \/ n \in Handles[p])
           row == Fired(sched[n], plan.next, IF ticks = <<>> THEN r.last ELSE at)
<1>1. /\ proc[p].pc = "firing" /\ DoneWith(p, n) /\ now' = now
      /\ IF wins
         THEN /\ sched' = [sched EXCEPT ![n] = row]
              /\ jobs' = [jobs EXCEPT ![n] = @ \o new]
              /\ open' = [open EXCEPT ![n] = @ \/ (n \in Singleton /\ new # <<>>)]
         ELSE UNCHANGED <<sched, jobs, open>>
  BY Zenon DEF FireSchedule, Fired
<1>2. proc[p] \in ProcState /\ ProcInv(p) /\ proc[p].todo \subseteq Names /\ at \in Nat
  BY DEF IInv, TableOK, ProcState
<1>3. n \in proc[p].todo /\ n \in Names
  BY <1>1, <1>2, FirstIsOne, Zenon DEF ProcInv
<1>4. Settled(n) /\ ReadRow(p, n)
  BY <1>1, <1>2, <1>3, Zenon DEF ProcInv
<1>5. r \in Row /\ r.next <= at /\ r.last < r.next /\ r.spec = sched[n].spec
      /\ r.catchUp = sched[n].catchUp /\ r.last <= sched[n].last
      /\ (Fires(n) /\ r.last = sched[n].last => r.next = sched[n].next)
  BY <1>4 DEF ReadRow
<1>6. r.next \in Nat /\ r.last \in Nat
  BY <1>5 DEF Row
<1>7. /\ proc' = [proc EXCEPT ![p] = After(proc[p], n)]
      /\ After(proc[p], n) \in ProcState /\ proc'[p] = After(proc[p], n)
      /\ \A q \in Processes : q # p => proc'[q] = proc[q]
  BY <1>1, DoneStep, Zenon
<1>8. CASE ~wins
  <2>1. UNCHANGED <<sched, jobs, open, now>>
    BY <1>1, <1>8, Zenon
  <2>2. FireFails(p)
    BY <1>1, <2>1, Zenon DEF FireFails
  <2> QED BY <2>2, FireFailsKeeps
<1>9. CASE wins
  <2>1. sched[n] \in Row /\ sched[n] # Absent /\ sched[n].last = r.last /\ jobs[n] \in Seq(Nat)
        /\ TicksInv(n) /\ StreakInv(n)
    BY <1>3, <1>9 DEF Wins, IInv, TableOK
  <2>2. /\ plan.next \in Nat /\ plan.next > at
        /\ plan.ticks \in Seq(Nat) /\ Ascending(plan.ticks)
        /\ \A i \in 1 .. Len(plan.ticks) : plan.ticks[i] <= at
        /\ r.catchUp = "skip" => plan.ticks = <<>>
        /\ r.catchUp # "skip" => Len(plan.ticks) > 0 /\ plan.ticks[1] = r.next
        /\ r.catchUp = "all" =>
             /\ \A i \in 1 .. Len(plan.ticks) - 1 : plan.ticks[i + 1] = next(r.spec, plan.ticks[i])
             /\ plan.next = next(r.spec, plan.ticks[Len(plan.ticks)]) \/ Len(plan.ticks) = CatchUpAllMax
    <3> HIDE DEF r, at
    <3> QED BY <1>2, <1>5, PlanFacts
  <2>3. (Fires(n) /\ ticks = plan.ticks /\ ticks # <<>>) \/ (~Fires(n) /\ ticks = <<>>)
    <3>1. r.catchUp = sched[n].catchUp /\ (r.catchUp = "skip" <=> plan.ticks = <<>>)
      <4> HIDE DEF r, at, plan
      <4> QED BY <1>5, <2>2
    <3> HIDE DEF r, at, plan
    <3>2. CASE n \in Unbuildable
      BY <3>2 DEF Fires
    <3>3. CASE n \notin Unbuildable
      BY <3>1, <3>3 DEF Fires
    <3> QED BY <3>2, <3>3
  <2>4. ticks \in Seq(Nat) /\ Ascending(ticks) /\ \A i \in 1 .. Len(ticks) : ticks[i] <= at
    <3> HIDE DEF r, at, plan
    <3>1. <<>> \in Seq(Nat) /\ Ascending(<<>>) /\ \A i \in 1 .. Len(<<>>) : <<>>[i] <= at
      BY DEF Ascending
    <3>2. CASE n \in Unbuildable
      <4>1. ticks = <<>>
        BY <3>2
      <4> HIDE DEF ticks
      <4> QED BY <3>1, <4>1
    <3>3. CASE n \notin Unbuildable
      <4>1. ticks = plan.ticks
        BY <3>3
      <4> HIDE DEF ticks
      <4> QED BY <2>2, <4>1
    <3> QED BY <3>2, <3>3
  <2>5. /\ new \in Seq(Nat) /\ Ascending(new)
        /\ \A i \in 1 .. Len(new) : new[i] <= at
        /\ Len(new) > 0 => Len(ticks) > 0 /\ new[1] = ticks[1]
        /\ n \notin Singleton => new = ticks
        /\ ticks = <<>> => new = <<>>
    <3> HIDE DEF ticks, at
    <3> QED BY <1>2, <1>3, <2>4, InsertedFacts, Zenon
  <2> DEFINE last == IF ticks = <<>> THEN r.last ELSE at
  <2>6. last \in Nat /\ last < plan.next /\ (ticks = <<>> => last = sched[n].last)
        /\ (ticks # <<>> => last > sched[n].last) /\ last >= sched[n].last
    <3>1. plan.next \in Nat /\ plan.next > at /\ sched[n].last = r.last /\ r.last < at
      <4> HIDE DEF r, at, plan
      <4> QED BY <1>2, <1>5, <1>6, <2>1, <2>2
    <3> HIDE DEF r, at, plan, ticks
    <3>2. CASE ticks = <<>>
      <4>1. last = r.last
        BY <3>2
      <4> HIDE DEF last
      <4> QED BY <1>2, <1>6, <3>1, <3>2, <4>1
    <3>3. CASE ticks # <<>>
      <4>1. last = at
        BY <3>3
      <4> HIDE DEF last
      <4> QED BY <1>2, <1>6, <3>1, <3>3, <4>1
    <3> QED BY <3>2, <3>3
  <2>7. row \in Row /\ row.spec = sched[n].spec /\ row.catchUp = sched[n].catchUp
        /\ row.next = plan.next /\ row.last = last
    <3> HIDE DEF plan, last, r, at
    <3>1. row = Fired(sched[n], plan.next, last)
      BY DEF last
    <3> HIDE DEF row
    <3> QED BY <2>1, <2>2, <2>6, <3>1, FiredRow, Zenon
  <2> HIDE DEF row, last, new, ticks, plan, r, at
  <2>8. sched'[n] = row /\ jobs'[n] = jobs[n] \o new /\ row # Absent
        /\ \A m \in Names : m # n => sched'[m] = sched[m] /\ jobs'[m] = jobs[m]
    BY <1>1, <1>3, <1>9, <2>7, NamesAssumption DEF IInv, TableOK
  <2>9. Settled(n)'
    BY <1>4, <2>7, <2>8 DEF Settled
  <2>10. Fires(n)' <=> Fires(n)
    BY <2>7, <2>8 DEF Fires
  <2>11. ASSUME Fires(n)
         PROVE  TicksInv(n)' /\ StreakInv(n)'
    <3>1. ticks = plan.ticks /\ ticks # <<>> /\ r.next = sched[n].next /\ r.catchUp # "skip"
      BY <1>5, <2>1, <2>3, <2>11 DEF Fires
    <3>2. Len(ticks) > 0 /\ ticks[1] = sched[n].next
      BY <2>2, <3>1
    <3>3. sched[n].next \in Nat /\ sched[n].next < row.next /\ row.next \in Nat
      BY <1>2, <1>5, <1>6, <2>2, <2>7, <3>1
    <3>4. \A i \in 1 .. Len(new) : new[i] < row.next
      BY <1>2, <2>2, <2>5, <2>7
    <3>5. Ascending(jobs[n]) /\ \A i \in 1 .. Len(jobs[n]) : jobs[n][i] < sched[n].next
      BY <2>1 DEF TicksInv, Ascending
    <3>6. Len(new) > 0 => new[1] >= sched[n].next
      BY <2>5, <3>2, <3>3
    <3>7. Ascending(jobs'[n]) /\ \A i \in 1 .. Len(jobs'[n]) : jobs'[n][i] < row.next
      <4>1. Ascending(jobs[n] \o new)
            /\ \A i \in 1 .. Len(jobs[n] \o new) : (jobs[n] \o new)[i] < row.next
        <5> DEFINE J == jobs[n]  x == sched[n].next  y == row.next
        <5>1. J \in Seq(Nat) /\ new \in Seq(Nat) /\ x \in Nat /\ y \in Nat /\ x < y /\ x <= y
          BY <2>1, <2>5, <3>3
        <5>2. Ascending(J) /\ Ascending(new) /\ (Len(new) > 0 => new[1] >= x)
          BY <2>5, <3>5, <3>6
        <5>3. (\A i \in 1 .. Len(J) : J[i] < x) /\ \A i \in 1 .. Len(new) : new[i] < y
          BY <3>4, <3>5
        <5> HIDE DEF J, x, y
        <5>4. Ascending(J \o new) /\ \A i \in 1 .. Len(J \o new) : (J \o new)[i] < y
          BY <5>1, <5>2, <5>3, AppendAscending, Zenon
        <5> QED BY <5>4 DEF J, y
      <4> QED BY <2>8, <4>1
    <3>8. TicksInv(n)'
      BY <2>6, <2>7, <2>8, <2>10, <2>11, <3>7, Zenon DEF TicksInv, Ascending
    <3>9. StreakInv(n)'
      <4>1. ASSUME n \notin Singleton, sched[n].catchUp = "all"
            PROVE  Streak(sched[n].spec, jobs[n] \o ticks, plan.next)
        <5>1. Streak(sched[n].spec, jobs[n], sched[n].next)
          BY <2>1, <4>1 DEF StreakInv
        <5>2. /\ \A i \in 1 .. Len(ticks) - 1 : ticks[i + 1] = next(sched[n].spec, ticks[i])
              /\ plan.next = next(sched[n].spec, ticks[Len(ticks)]) \/ Len(ticks) = CatchUpAllMax
          BY <1>5, <2>2, <3>1, <4>1
        <5> QED BY <2>1, <2>4, <3>2, <5>1, <5>2, StreakGrows, Zenon
      <4> QED BY <2>5, <2>7, <2>8, <4>1 DEF StreakInv
    <3> QED BY <3>8, <3>9
  <2>12. ASSUME ~Fires(n)
         PROVE  TicksInv(n)' /\ StreakInv(n)'
    <3>1. jobs[n] = <<>> /\ new = <<>>
      BY <2>1, <2>3, <2>5, <2>12 DEF TicksInv
    <3>2. jobs'[n] = <<>>
      BY <2>8, <3>1
    <3>3. row.next > row.last
      BY <2>6, <2>7
    <3>4. TicksInv(n)'
      BY <2>8, <3>2, <3>3 DEF TicksInv
    <3>5. StreakInv(n)'
      BY <2>8, <3>2 DEF StreakInv, Streak
    <3> QED BY <3>4, <3>5
  <2>13. \A m \in Names : ((Settled(m) \/ Untouched(m)) /\ TicksInv(m) /\ StreakInv(m))'
    BY <1>3, <2>8, <2>9, <2>11, <2>12, OtherNames
  <2>14. TableOK'
    <3>1. sched' \in [Names -> Row \cup {Absent}] /\ now' \in Nat /\ proc' \in [Processes -> ProcState]
      BY <1>1, <1>7, <1>9, <2>7, Zenon DEF IInv, TableOK
    <3>2. jobs' \in [Names -> Seq(Nat)]
      <4>1. jobs[n] \o new \in Seq(Nat)
        BY <2>1, <2>5
      <4> QED BY <1>1, <1>9, <4>1, Zenon DEF IInv, TableOK
    <3>3. open' \in [Names -> BOOLEAN]
      BY <1>1, <1>9, Zenon DEF IInv, TableOK
    <3> QED BY <3>1, <3>2, <3>3 DEF TableOK
  <2>15. \A m \in Names : Settled(m) => Settled(m)'
    BY <2>8, <2>9 DEF Settled
  <2>16. \A m \in Names : sched'[m] # Absent => sched[m] # Absent
    BY <2>1, <2>8
  <2>17. ASSUME NEW q \in Processes, NEW m \in Names, ReadRow(q, m),
                proc'[q].due = proc[q].due, proc'[q].at = proc[q].at
         PROVE  ReadRow(q, m)'
    <3>1. CASE m # n
      BY <2>8, <2>17, <3>1 DEF ReadRow, Fires
    <3>2. CASE m = n
      <4> DEFINE rq == proc[q].due[n]
      <4>1. rq \in Row /\ rq.next <= proc[q].at /\ rq.last < rq.next /\ rq.spec = sched[n].spec
            /\ rq.catchUp = sched[n].catchUp /\ rq.last <= sched[n].last
        BY <2>17, <3>2, Zenon DEF ReadRow
      <4>2. rq.last \in Nat /\ sched[n].last \in Nat
        BY <2>1, <4>1 DEF Row
      <4>3. rq.last <= row.last
        BY <2>6, <2>7, <4>1, <4>2
      <4>4. Fires(n) => rq.last # row.last
        BY <2>3, <2>6, <2>7, <4>1, <4>2
      <4>5. (proc[q].due[n])' = rq
        BY <2>17
      <4> HIDE DEF rq
      <4> QED BY <2>7, <2>8, <2>10, <2>17, <3>2, <4>1, <4>3, <4>4, <4>5, Zenon DEF ReadRow
    <3> QED BY <3>1, <3>2
  <2>18. ASSUME NEW q \in Processes, q # p PROVE ProcInv(q)'
    <3>1. proc'[q] = proc[q] /\ ProcInv(q)
      BY <1>7, <2>18 DEF IInv
    <3>2. \A m \in Names : Settled(m) /\ ReadRow(q, m) => ReadRow(q, m)'
      BY <2>17, <3>1
    <3> QED BY <2>15, <2>16, <3>1, <3>2, ProcKept
  <2>19. ProcInv(p)'
    <3>1. \A m \in DOMAIN Declares[p] : Settled(m)'
      BY <1>1, <1>2, <2>15, DeclaresAssumption, Zenon DEF ProcInv
    <3>2. Orphans(p)' = {}
      BY <1>1, <1>2, <2>16, Zenon DEF ProcInv, Orphans, Stored
    <3>3. ASSUME NEW m \in proc[p].todo \ {n} PROVE ReadRow(p, m)'
      <4>1. proc'[p] = Left(proc[p], n)
        BY <1>3, <1>7 DEF After
      <4>2. proc'[p].due = proc[p].due /\ proc'[p].at = proc[p].at
        BY <1>2, <4>1, LeftState
      <4>3. m \in Names /\ ReadRow(p, m)
        BY <1>1, <1>2, Zenon DEF ProcInv
      <4> QED BY <2>17, <4>2, <4>3
    <3> QED BY <1>1, <1>2, <1>3, <1>7, <3>1, <3>2, <3>3, DoneInv, Zenon
  <2> QED BY <2>13, <2>14, <2>18, <2>19 DEF IInv
<1> QED BY <1>8, <1>9


-----------------------------------------------------------------------------
(* The cadence moves forward *)

Forward == \A n \in Stored : sched'[n] # Absent /\ Fires(n) => sched'[n].next >= sched[n].next

LEMMA KeepsForward ==
  ASSUME IInv, \A n \in Names : sched'[n] \in {Absent, sched[n]}
  PROVE  Forward
<1>1. \A n \in Names : sched[n] # Absent => sched[n].next \in Nat
  BY DEF IInv, TableOK, Row
<1> QED BY <1>1 DEF Forward, Stored

LEMMA UpsertForward ==
  ASSUME IInv, NEW p \in Processes, NEW n, n = FirstOf(proc[p].todo), UpsertSchedule(p)
  PROVE  Forward
<1> DEFINE d == Declares[p][n]
           x == proc[p].first[n]
           u == Upserted(n, sched[n], d.spec, d.catchUp, x)
<1>1. /\ proc[p].pc = "upserting" /\ proc[p].todo # {}
      /\ sched' = [sched EXCEPT ![n] = u]
  BY DEF UpsertSchedule
<1>2. proc[p] \in ProcState /\ ProcInv(p) /\ proc[p].todo \subseteq Names
  BY DEF IInv, TableOK, ProcState
<1>3. n \in proc[p].todo /\ n \in Names
  BY <1>1, <1>2, FirstIsOne
<1>4. x \in Nat \ {0}
  BY <1>1, <1>2, <1>3 DEF ProcInv
<1>5. sched[n] \in Row \cup {Absent}
  BY <1>3 DEF IInv, TableOK
<1>6. ASSUME sched[n] # Absent PROVE u.next >= sched[n].next
  <2>1. CASE Settled(n)
    <3>1. u = sched[n]
      BY <1>3, <1>5, <1>6, <2>1, SettledUpsert
    <3> QED BY <1>5, <1>6, <3>1 DEF Row
  <2>2. CASE ~Settled(n)
    <3>1. sched[n].next = 1
      BY <1>3, <1>6, <2>2 DEF IInv, Untouched
    <3>2. u.next \in {sched[n].next, x}
      BY <1>5, <1>6 DEF Upserted, Row
    <3> HIDE DEF u, x
    <3> QED BY <1>4, <3>1, <3>2
  <2> QED BY <2>1, <2>2
<1> HIDE DEF u
<1>7. sched'[n] = u /\ \A m \in Names : m # n => sched'[m] = sched[m]
  BY <1>1, <1>3 DEF IInv, TableOK
<1>8. \A m \in Names : sched[m] # Absent => sched[m].next \in Nat
  BY DEF IInv, TableOK, Row
<1> QED BY <1>6, <1>7, <1>8 DEF Forward, Stored

LEMMA FireForward ==
  ASSUME IInv, NEW p \in Processes, NEW n, n = FirstOf(proc[p].todo), FireSchedule(p)
  PROVE  Forward
<1> DEFINE r == proc[p].due[n]
           at == proc[p].at
           plan == planFires(r, at)
           wins == Wins(n, r.last) /\ (plan.ticks = <<>> \/ n \in Handles[p])
           l == IF (IF n \in Unbuildable THEN <<>> ELSE plan.ticks) = <<>> THEN r.last ELSE at
<1>1. /\ proc[p].pc = "firing"
      /\ wins => sched' = [sched EXCEPT ![n] = Fired(sched[n], plan.next, l)]
      /\ ~wins => sched' = sched
  BY Zenon DEF FireSchedule, Fired
<1>2. proc[p] \in ProcState /\ ProcInv(p) /\ proc[p].todo \subseteq Names /\ at \in Nat
  BY DEF IInv, TableOK, ProcState
<1>3. n \in proc[p].todo /\ n \in Names
  BY <1>1, <1>2, FirstIsOne, Zenon DEF ProcInv
<1>4. ReadRow(p, n)
  BY <1>1, <1>2, <1>3, Zenon DEF ProcInv
<1>5. r \in Row /\ r.next <= at /\ r.last < r.next
      /\ (Fires(n) /\ r.last = sched[n].last => r.next = sched[n].next)
  BY <1>4 DEF ReadRow
<1>6. CASE ~wins
  BY <1>1, <1>6, KeepsForward, Zenon
<1>7. CASE wins
  <2>1. plan.next \in Nat /\ plan.next > at
    <3> HIDE DEF r, at
    <3> QED BY <1>2, <1>5, PlanFacts
  <2>2. sched[n].last = r.last /\ sched[n] \in Row
    BY <1>3, <1>7 DEF Wins, IInv, TableOK
  <2>3. Fires(n) => sched[n].next <= at /\ sched[n].next \in Nat
    BY <1>5, <2>2 DEF Row
  <2> HIDE DEF r, at, plan, l
  <2>4. Fired(sched[n], plan.next, l).next = plan.next
    BY <2>2 DEF Fired, Row
  <2>5. sched'[n].next = plan.next /\ \A m \in Names : m # n => sched'[m] = sched[m]
    BY <1>1, <1>3, <1>7, <2>4 DEF IInv, TableOK
  <2>6. \A m \in Names : sched[m] # Absent => sched[m].next \in Nat
    BY DEF IInv, TableOK, Row
  <2> QED BY <1>2, <2>1, <2>3, <2>5, <2>6 DEF Forward, Stored
<1> QED BY <1>6, <1>7


-----------------------------------------------------------------------------
(* The theorems *)

LEMMA InitInv ==
  ASSUME Init
  PROVE  IInv
<1>1. \A n \in Names : sched[n] # Absent =>
        sched[n] = [spec |-> [cron |-> FALSE, d |-> 1], catchUp |-> "once", next |-> 1, last |-> 0]
  BY DEF Init
<1>2. [spec |-> [cron |-> FALSE, d |-> 1], catchUp |-> "once", next |-> 1, last |-> 0] \in Row
  BY DEF Row, Specs, Policies
<1>3. \A n \in Names : jobs[n] = <<>>
  BY Zenon DEF Init
<1>4. Down \in ProcState /\ Down.pc = "down"
  BY RestState DEF Rest, Down, Pcs
<1>5. TableOK
  <2>1. sched \in [Names -> Row \cup {Absent}]
    BY <1>2 DEF Init
  <2>2. jobs \in [Names -> Seq(Nat)]
    BY DEF Init
  <2>3. open \in [Names -> BOOLEAN] /\ now \in Nat
    BY DEF Init
  <2>4. proc \in [Processes -> ProcState]
    BY <1>4 DEF Init
  <2> QED BY <2>1, <2>2, <2>3, <2>4 DEF TableOK
<1>6. \A n \in Names : Untouched(n)
  <2>1. \A n \in Names : sched[n] # Absent => sched[n].next = 1 /\ sched[n].last = 0
    BY <1>1
  <2> QED BY <1>3, <2>1, Zenon DEF Untouched
<1>7. \A n \in Names : TicksInv(n)
  <2>1. \A n \in Names : sched[n] # Absent => sched[n].next = 1 /\ sched[n].last = 0
    BY <1>1
  <2> SUFFICES ASSUME NEW n \in Names PROVE TicksInv(n)
    OBVIOUS
  <2>2. jobs[n] = <<>> /\ Len(jobs[n]) = 0
    BY <1>3
  <2>3. sched[n] # Absent => sched[n].next > sched[n].last
    BY <2>1
  <2> QED BY <2>2, <2>3 DEF TicksInv
<1>8. \A n \in Names : StreakInv(n)
  BY <1>3 DEF StreakInv, Streak
<1>9. \A p \in Processes : ProcInv(p)
  BY <1>4 DEF Init, ProcInv
<1> QED BY <1>5, <1>6, <1>7, <1>8, <1>9 DEF IInv

\* A step that leaves the table and the processes alone keeps all of it.
LEMMA FrameKeeps ==
  ASSUME IInv, UNCHANGED <<sched, jobs, proc>>, open' \in [Names -> BOOLEAN], now' \in Nat
  PROVE  IInv'
<1>1. TableOK'
  BY DEF IInv, TableOK
<1>2. \A n \in Names : ((Settled(n) \/ Untouched(n)) /\ TicksInv(n) /\ StreakInv(n))'
  BY DEF IInv, Settled, Untouched, TicksInv, StreakInv, Fires
<1>3. \A n \in Names : Settled(n) => Settled(n)'
  BY DEF Settled
<1>4. ASSUME NEW p \in Processes PROVE ProcInv(p)'
  <2>1. proc'[p] = proc[p] /\ ProcInv(p)
    BY DEF IInv
  <2>2. \A n \in Names : Settled(n) /\ ReadRow(p, n) => ReadRow(p, n)'
    BY DEF ReadRow, Fires
  <2> QED BY <1>3, <2>1, <2>2, ProcKept
<1> QED BY <1>1, <1>2, <1>4 DEF IInv

LEMMA NextStep ==
  ASSUME IInv, OneVersion, [Next]_vars
  PROVE  IInv' /\ Forward
<1>1. CASE UNCHANGED vars
  <2>1. IInv'
    BY <1>1, FrameKeeps DEF vars, IInv, TableOK
  <2> QED BY <1>1, <2>1, KeepsForward DEF vars
<1>2. ASSUME NEW p \in Processes, NEW t \in Clock, Boot(p, t) \/ schedulerTick(p, t)
      PROVE  IInv' /\ Forward
  <2>1. sched' = sched
    BY <1>2 DEF Boot, schedulerTick
  <2> QED BY <1>2, <2>1, BootKeeps, TickKeeps, KeepsForward
<1>3. ASSUME NEW p \in Processes, UpsertSchedule(p)
      PROVE  IInv' /\ Forward
  <2>1. PICK n : n = FirstOf(proc[p].todo)
    OBVIOUS
  <2> QED BY <1>3, <2>1, UpsertKeeps, UpsertForward
<1>4. ASSUME NEW p \in Processes, ListSchedules(p) \/ StartScheduler(p) \/ FireFails(p) \/ Die(p)
      PROVE  IInv' /\ Forward
  <2>1. sched' = sched
    BY <1>4 DEF ListSchedules, StartScheduler, FireFails, Die
  <2> QED BY <1>4, <2>1, ListKeeps, StartKeeps, FireFailsKeeps, DieKeeps, KeepsForward
<1>5. ASSUME NEW p \in Processes, DeleteSchedule(p)
      PROVE  IInv' /\ Forward
  <2>1. PICK n : n = FirstOf(proc[p].todo)
    OBVIOUS
  <2>2. \A m \in Names : sched'[m] \in {Absent, sched[m]}
    BY <1>5, <2>1 DEF DeleteSchedule, IInv, TableOK
  <2> QED BY <1>5, <2>1, <2>2, DeleteKeeps, KeepsForward
<1>6. ASSUME NEW p \in Processes, FireSchedule(p)
      PROVE  IInv' /\ Forward
  <2>1. PICK n : n = FirstOf(proc[p].todo)
    OBVIOUS
  <2> QED BY <1>6, <2>1, FireKeeps, FireForward
<1>7. ASSUME NEW n \in Names, JobEnds(n)
      PROVE  IInv' /\ Forward
  <2>1. IInv'
    BY <1>7, FrameKeeps DEF JobEnds, IInv, TableOK
  <2> QED BY <1>7, <2>1, KeepsForward DEF JobEnds
<1>8. ASSUME Time
      PROVE  IInv' /\ Forward
  <2>1. IInv'
    BY <1>8, FrameKeeps DEF Time, IInv, TableOK
  <2> QED BY <1>8, <2>1, KeepsForward DEF Time
<1> QED BY <1>1, <1>2, <1>3, <1>4, <1>5, <1>6, <1>7, <1>8 DEF Next, NextWith

\* The invariant of the scheduler is inductive.
THEOREM SchedulerInvariant ==
  ASSUME OneVersion
  PROVE  Spec => []IInv
<1>1. Init => IInv
  BY InitInv
<1>2. IInv /\ [Next]_vars => IInv'
  BY NextStep
<1> QED BY <1>1, <1>2, PTL DEF Spec

\* For any number of processes of one version, whatever they declare, however their
\* clocks are skewed and wherever they die: no tick of a schedule gets a second job,
\* and its ticks are fired in order (FireSchedule's compare-and-swap on LastRunAt).
THEOREM OneWinner ==
  ASSUME OneVersion
  PROVE  Spec => []OneWinnerPerTick
<1>1. IInv => OneWinnerPerTick
  BY DEF IInv, TicksInv, OneWinnerPerTick
<1> QED BY <1>1, SchedulerInvariant, PTL

\* The rows that fire move forward only, a process that fires has reconciled the
\* table with what it declares, and under CatchUpAll no tick is passed over below
\* the cap (ReconcileSchedules, planFires, FireSchedule).
THEOREM CadenceIsKept ==
  ASSUME OneVersion
  PROVE  Spec => CadenceKept
<1>1. IInv => TypeOK
  <2> SUFFICES ASSUME IInv PROVE TypeOK
    OBVIOUS
  <2>1. \A p \in Processes : proc[p] \in ProcState /\ ProcInv(p)
    BY DEF IInv, TableOK
  <2> QED BY <2>1, Zenon DEF TypeOK, IInv, TableOK, ProcState, Pcs, ProcInv, ReadRow
<1>2. IInv => NextAfterLast
  BY Zenon DEF IInv, TicksInv, NextAfterLast, Stored
<1>3. IInv => BacklogFiredUpToCap
  BY DEF IInv, StreakInv, Streak, gap, InStreak, BacklogFiredUpToCap, Stored
<1>4. IInv => Reconciled
  <2> SUFFICES ASSUME IInv, NEW p \in Processes, proc[p].pc \in {"idle", "firing"}
               PROVE  Stored = DOMAIN Declares[p]
    BY DEF Reconciled
  <2>1. \A n \in DOMAIN Declares[p] : n \in Names /\ Settled(n)
    BY DeclaresAssumption, Zenon DEF IInv, ProcInv
  <2>2. Orphans(p) = {}
    BY DEF IInv, ProcInv
  <2> QED BY <2>1, <2>2 DEF Orphans, Stored, Settled
<1>5. IInv /\ [Next]_vars =>
        [\A n \in Stored : sched'[n] # Absent /\ Fires(n) => sched'[n].next >= sched[n].next]_vars
  BY NextStep DEF Forward
<1> QED BY <1>1, <1>2, <1>3, <1>4, <1>5, SchedulerInvariant, PTL DEF Spec, CadenceKept, CadenceForward
=============================================================================
