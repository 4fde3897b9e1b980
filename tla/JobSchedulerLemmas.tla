------------------------- MODULE JobSchedulerLemmas -------------------------
(***************************************************************************)
(* The arithmetic of schedules, the inductive invariant of JobScheduler, and *)
(* the steps that fire nothing: they keep the invariant.                     *)
(***************************************************************************)
EXTENDS JobScheduler, WellFoundedInduction, TLAPS

-----------------------------------------------------------------------------
(* Numbers *)

\* A set of naturals that is not empty has a least element.
LEMMA NatLeast ==
  ASSUME NEW T, T \subseteq Nat, T # {}
  PROVE  \E m \in T : \A n \in T : m <= n
<1> DEFINE R == {ss \in Nat \X Nat : ss[1] < ss[2]}
<1>1. IsWellFoundedOn(R, Nat)
  BY NatLessThanWellFounded DEF OpToRel
<1>2. PICK m \in T : \A n \in T : ~(<<n, m>> \in R)
  <2> HIDE DEF R
  <2> QED BY <1>1, WFMin, Zenon
<1>3. ASSUME NEW n \in T PROVE m <= n
  <2>1. n \in Nat /\ m \in Nat /\ ~(<<n, m>> \in R)
    BY <1>2
  <2>2. <<n, m>> \in Nat \X Nat /\ <<n, m>>[1] = n /\ <<n, m>>[2] = m
    BY <2>1
  <2> QED BY <2>1, <2>2
<1> QED BY <1>3

\* The first of the names a process has left is one of them (FirstOf).
LEMMA FirstIsOne ==
  ASSUME NEW S, S \subseteq Names, S # {}
  PROVE  FirstOf(S) \in S
BY NatLeast, NamesAssumption, Zenon DEF FirstOf

LEMMA DivFact ==
  ASSUME NEW a \in Nat, NEW d \in Nat \ {0}
  PROVE  a \div d \in Nat /\ d * (a \div d) <= a /\ a < d * ((a \div d) + 1)
OBVIOUS

LEMMA MulMono ==
  ASSUME NEW i \in Nat, NEW j \in Nat, NEW d \in Nat, i <= j
  PROVE  d * i <= d * j
OBVIOUS

LEMMA DivExact ==
  ASSUME NEW q \in Nat, NEW d \in Nat \ {0}
  PROVE  (d * q) \div d = q
OBVIOUS

-----------------------------------------------------------------------------
(* Ticks *)

\* The backlog of a spec is a strictly increasing sequence of ticks, each the next
\* one after the tick before it (Spec.next).
LEMMA BacklogStep ==
  ASSUME NEW s \in Specs, NEW t \in Nat, NEW k \in Nat
  PROVE  /\ Backlog(s, t, k) \in Nat
         /\ Backlog(s, t, k + 1) = next(s, Backlog(s, t, k))
         /\ Backlog(s, t, k) < Backlog(s, t, k + 1)
         /\ Backlog(s, t, k) >= k
<1> DEFINE q == t \div s.d
<1>1. s.d \in Nat \ {0} /\ s.cron \in BOOLEAN
  BY DEF Specs
<1>2. q \in Nat /\ s.d * q <= t /\ t < s.d * (q + 1)
  BY <1>1, DivFact
<1>3. CASE s.cron
  <2>1. Backlog(s, t, k + 1) = s.d * (q + k + 1)
    BY <1>1, <1>3, <1>2 DEF Backlog, Tick
  <2>2. CASE k = 0
    BY <1>1, <1>2, <1>3, <2>1, <2>2 DEF Backlog, Tick, next
  <2>3. CASE k # 0
    <3>1. Backlog(s, t, k) = s.d * (q + k)
      BY <1>3, <2>3 DEF Backlog, Tick
    <3>2. q + k \in Nat /\ (s.d * (q + k)) \div s.d = q + k
      BY <1>1, <1>2, DivExact
    <3>3. next(s, Backlog(s, t, k)) = s.d * (q + k + 1)
      BY <1>3, <3>1, <3>2 DEF next, Tick
    <3>4. s.d * (q + k) \in Nat /\ s.d * (q + k) >= q + k /\ s.d * (q + k) < s.d * (q + k + 1)
      BY <1>1, <3>2
    <3> QED BY <1>2, <2>1, <3>1, <3>3, <3>4
  <2> QED BY <2>2, <2>3
<1>4. CASE ~s.cron
  <2>1. Backlog(s, t, k) = t + k * s.d /\ Backlog(s, t, k + 1) = t + (k + 1) * s.d
    BY <1>1, <1>4 DEF Backlog, Tick
  <2>2. k * s.d \in Nat /\ k * s.d >= k /\ (k + 1) * s.d = k * s.d + s.d
    BY <1>1
  <2> HIDE DEF q
  <2> QED BY <1>1, <1>4, <2>1, <2>2 DEF next, Tick
<1> QED BY <1>3, <1>4

LEMMA BacklogMono ==
  ASSUME NEW s \in Specs, NEW t \in Nat, NEW i \in Nat, NEW j \in Nat, i <= j
  PROVE  Backlog(s, t, i) <= Backlog(s, t, j)
<1> DEFINE q == t \div s.d
<1>1. s.d \in Nat \ {0} /\ s.cron \in BOOLEAN
  BY DEF Specs
<1>2. q \in Nat /\ s.d * q <= t /\ t < s.d * (q + 1)
  BY <1>1, DivFact, Zenon
<1>3. CASE i = 0 /\ j = 0
  BY <1>3 DEF Backlog
<1>4. CASE s.cron /\ j # 0
  <2>1. Backlog(s, t, j) = s.d * (q + j)
    BY <1>4 DEF Backlog, Tick
  <2>2. CASE i = 0
    <3>1. s.d * (q + 1) <= s.d * (q + j)
      BY <1>1, <1>2, <1>4, MulMono
    <3>2. Backlog(s, t, i) = t
      BY <2>2 DEF Backlog
    <3>3. s.d * (q + j) \in Nat /\ s.d * (q + 1) \in Nat
      BY <1>1, <1>2
    <3> HIDE DEF q
    <3> QED BY <1>2, <2>1, <3>1, <3>2, <3>3
  <2>3. CASE i # 0
    <3>1. Backlog(s, t, i) = s.d * (q + i)
      BY <1>4, <2>3 DEF Backlog, Tick
    <3> QED BY <1>1, <1>2, <2>1, <3>1, MulMono
  <2> QED BY <2>2, <2>3
<1>5. CASE ~s.cron
  <2>1. Backlog(s, t, i) = t + i * s.d /\ Backlog(s, t, j) = t + j * s.d
    BY <1>1, <1>5 DEF Backlog, Tick
  <2>2. s.d * i <= s.d * j
    BY <1>1, MulMono
  <2> QED BY <1>1, <2>1, <2>2
<1> QED BY <1>3, <1>4, <1>5

LEMMA NextAfter ==
  ASSUME NEW s \in Specs, NEW t \in Nat
  PROVE  next(s, t) \in Nat /\ next(s, t) > t
<1>1. Backlog(s, t, 0) = t
  BY DEF Backlog
<1> QED BY <1>1, BacklogStep, 0 \in Nat, 0 + 1 \in Nat

\* The loop of planFires ends: the ticks up to at are the first so many.
LEMMA BacklogCount ==
  ASSUME NEW s \in Specs, NEW t \in Nat, NEW at \in Nat
  PROVE  \E k \in 0 .. at + 1 : \A i \in 0 .. at : Backlog(s, t, i) <= at <=> i < k
<1> DEFINE T == {k \in Nat : Backlog(s, t, k) > at}
<1>1. at + 1 \in T
  BY BacklogStep
<1>2. PICK m \in T : \A n \in T : m <= n
  BY <1>1, NatLeast, Zenon
<1>3. m \in 0 .. at + 1
  BY <1>1, <1>2
<1>4. ASSUME NEW i \in 0 .. at PROVE Backlog(s, t, i) <= at <=> i < m
  <2>0. i \in Nat /\ m \in Nat
    BY <1>2
  <2>1. i \in Nat /\ m \in Nat /\ Backlog(s, t, i) \in Nat /\ Backlog(s, t, m) \in Nat
    <3> HIDE DEF T
    <3> QED BY <2>0, BacklogStep, Zenon
  <2>2. i < m => i \notin T
    BY <1>2, <2>1
  <2>3. i >= m => Backlog(s, t, i) >= Backlog(s, t, m)
    BY <2>1, BacklogMono
  <2> QED BY <1>2, <2>1, <2>2, <2>3
<1> QED BY <1>3, <1>4

\* What planFires makes of a due row: under CatchUpAll a run of consecutive ticks that
\* ends at the next run unless the cap cut it off.
LEMMA PlanAll ==
  ASSUME NEW r \in Row, NEW at \in Nat, r.next <= at, r.catchUp = "all"
  PROVE  \E m \in Nat \ {0} :
           /\ planFires(r, at).ticks = [i \in 1 .. m |-> Backlog(r.spec, r.next, i - 1)]
           /\ Backlog(r.spec, r.next, m - 1) <= at
           /\ planFires(r, at).next \in Nat /\ planFires(r, at).next > at
           /\ planFires(r, at).next = Backlog(r.spec, r.next, m) \/ m = CatchUpAllMax
<1> DEFINE n == emitted(r, at)
<1>1. r.spec \in Specs /\ r.next \in Nat /\ CatchUpAllMax \in Nat \ {0}
  BY DeclaresAssumption DEF Row
<1>2. /\ planFires(r, at).ticks = [i \in 1 .. n |-> Backlog(r.spec, r.next, i - 1)]
      /\ planFires(r, at).next = IF capped(r, at) THEN next(r.spec, at)
                                 ELSE Backlog(r.spec, r.next, n)
  BY Zenon DEF planFires
<1>3. CASE capped(r, at)
  <2>1. Backlog(r.spec, r.next, CatchUpAllMax - 1) <= at
    <3>1. Backlog(r.spec, r.next, CatchUpAllMax - 1) <= Backlog(r.spec, r.next, CatchUpAllMax)
      BY <1>1, BacklogMono
    <3>2. Backlog(r.spec, r.next, CatchUpAllMax) <= at
      BY <1>3 DEF capped, missed
    <3>3. CatchUpAllMax \in Nat /\ CatchUpAllMax - 1 \in Nat
      BY <1>1
    <3>4. Backlog(r.spec, r.next, CatchUpAllMax) \in Nat /\ Backlog(r.spec, r.next, CatchUpAllMax - 1) \in Nat
      BY <1>1, <3>3, BacklogStep, Zenon
    <3> QED BY <3>1, <3>2, <3>4
  <2>2. next(r.spec, at) \in Nat /\ next(r.spec, at) > at
    BY <1>1, NextAfter
  <2>3. n = CatchUpAllMax
    BY <1>3 DEF emitted
  <2>5. n \in Nat \ {0}
    BY <1>1, <2>3
  <2>4. planFires(r, at).next = next(r.spec, at)
    BY <1>2, <1>3
  <2> HIDE DEF n
  <2> WITNESS n \in Nat \ {0}
  <2> QED BY <1>1, <1>2, <2>1, <2>2, <2>3, <2>4
<1>4. CASE ~capped(r, at)
  <2>1. n \in 0 .. at + 1 /\ \A i \in 0 .. at : i \in missed(r, at) <=> i < n
    <3>1. \E k \in 0 .. at + 1 : \A i \in 0 .. at : i \in missed(r, at) <=> i < k
      <4>1. PICK k \in 0 .. at + 1 : \A i \in 0 .. at : Backlog(r.spec, r.next, i) <= at <=> i < k
        BY <1>1, BacklogCount, Zenon
      <4> QED BY <4>1 DEF missed
    <3> QED BY <1>4, <3>1, Zenon DEF emitted
  <2>6. planFires(r, at).next = Backlog(r.spec, r.next, n)
    BY <1>2, <1>4
  <2> HIDE DEF n
  <2>2. 0 \in missed(r, at)
    BY DEF Backlog, missed
  <2>3. n \in Nat \ {0}
    BY <2>1, <2>2
  <2>4. Backlog(r.spec, r.next, n - 1) <= at
    <3>1. n - 1 \in 0 .. at
      BY <2>1, <2>3
    <3>2. n - 1 \in missed(r, at)
      BY <2>1, <2>3, <3>1
    <3> QED BY <3>2 DEF missed
  <2>5. Backlog(r.spec, r.next, n) \in Nat /\ Backlog(r.spec, r.next, n) > at
    <3>0. Backlog(r.spec, r.next, n) \in Nat /\ Backlog(r.spec, r.next, n) >= n
      BY <1>1, <2>3, BacklogStep, Zenon
    <3>1. CASE n = at + 1
      BY <3>0, <3>1
    <3>2. CASE n \in 0 .. at
      <4>1. n \notin missed(r, at)
        BY <2>1, <3>2
      <4> QED BY <3>0, <3>2, <4>1 DEF missed
    <3> QED BY <2>1, <3>1, <3>2
  <2> WITNESS n \in Nat \ {0}
  <2> QED BY <1>2, <2>4, <2>5, <2>6
<1> QED BY <1>3, <1>4, Zenon

-----------------------------------------------------------------------------
(* The inductive invariant *)

\* The stored row of n is what the processes declare: an upsert leaves it as it is.
Settled(n) ==
  /\ sched[n] # Absent
  /\ \A p \in Processes : /\ n \in DOMAIN Declares[p]
                          /\ sched[n].spec = Declares[p][n].spec
                          /\ sched[n].catchUp = Declares[p][n].catchUp

\* Nothing was fired under n, and a row there is one an earlier deployment left.
Untouched(n) ==
  jobs[n] = <<>> /\ (sched[n] # Absent => sched[n].next = 1 /\ sched[n].last = 0)

\* The ticks fired lie in order before the next one, and what does not fire has none.
TicksInv(n) ==
  /\ \A i \in 1 .. Len(jobs[n]) - 1 : jobs[n][i] < jobs[n][i + 1]
  /\ sched[n] # Absent =>
       /\ sched[n].next > sched[n].last
       /\ \A i \in 1 .. Len(jobs[n]) : jobs[n][i] < sched[n].next
       /\ ~Fires(n) => jobs[n] = <<>>

\* Under CatchUpAll the next run follows the last tick, or the cap was reached.
gap(s, J, i) == J[i + 1] # next(s, J[i])
InStreak(s, J, i) == i >= CatchUpAllMax /\ \A k \in i - CatchUpAllMax + 1 .. i - 1 : ~gap(s, J, k)
Streak(s, J, x) ==
  /\ \A i \in 1 .. Len(J) - 1 : gap(s, J, i) => InStreak(s, J, i)
  /\ Len(J) > 0 => x = next(s, J[Len(J)]) \/ InStreak(s, J, Len(J))
StreakInv(n) ==
  sched[n] # Absent /\ n \notin Singleton /\ sched[n].catchUp = "all" =>
    Streak(sched[n].spec, jobs[n], sched[n].next)

\* A process: what it has upserted is settled; what it has not declared is among the
\* names it prunes; a row it read, whose LastRunAt is still the one it read, has
\* the NextRunAt it read, or nothing fires.
Pcs == {"down", "upserting", "pruning", "idle", "firing"}

Over(S) == UNION {[D -> S] : D \in SUBSET Names}
ProcState == [pc : Pcs, todo : SUBSET Names, first : Over(Nat), due : Over(Row), at : Nat,
              seen : Seq(Row \cup {Absent})]

ReadRow(p, n) ==
  LET r == proc[p].due[n] IN
  /\ r \in Row /\ r.next <= proc[p].at /\ r.last < r.next
  /\ r.spec = sched[n].spec /\ r.catchUp = sched[n].catchUp
  /\ r.last <= sched[n].last
  /\ Fires(n) /\ r.last = sched[n].last => r.next = sched[n].next

ProcInv(p) ==
  /\ proc[p].pc = "upserting" =>
       /\ proc[p].todo \subseteq DOMAIN Declares[p]
       /\ \A n \in DOMAIN Declares[p] : proc[p].first[n] \in Nat \ {0}
       /\ \A n \in DOMAIN Declares[p] \ proc[p].todo : Settled(n)
  /\ proc[p].pc \in {"pruning", "idle", "firing"} =>
       \A n \in DOMAIN Declares[p] : Settled(n)
  /\ proc[p].pc = "pruning" =>
       proc[p].todo \cap DOMAIN Declares[p] = {} /\ Orphans(p) \subseteq proc[p].todo
  /\ proc[p].pc \in {"idle", "firing"} => Orphans(p) = {}
  /\ proc[p].pc = "firing" =>
       /\ proc[p].todo # {} /\ proc[p].todo \subseteq DOMAIN proc[p].due
       /\ proc[p].todo \subseteq DOMAIN Declares[p]
       /\ \A n \in proc[p].todo : ReadRow(p, n)

TableOK ==
  /\ sched \in [Names -> Row \cup {Absent}] /\ jobs \in [Names -> Seq(Nat)]
  /\ open \in [Names -> BOOLEAN] /\ now \in Nat
  /\ proc \in [Processes -> ProcState]

IInv ==
  /\ TableOK
  /\ \A n \in Names : (Settled(n) \/ Untouched(n)) /\ TicksInv(n) /\ StreakInv(n)
  /\ \A p \in Processes : ProcInv(p)

-----------------------------------------------------------------------------
(* What a fire emits *)

Ascending(s) == \A i \in 1 .. Len(s) - 1 : s[i] < s[i + 1]

\* What planFires makes of a due row, for each policy.
LEMMA PlanFacts ==
  ASSUME NEW r \in Row, NEW at \in Nat, r.next <= at
  PROVE  LET P == planFires(r, at) IN
         /\ P.next \in Nat /\ P.next > at
         /\ P.ticks \in Seq(Nat) /\ Ascending(P.ticks)
         /\ \A i \in 1 .. Len(P.ticks) : P.ticks[i] <= at
         /\ r.catchUp = "skip" => P.ticks = <<>>
         /\ r.catchUp # "skip" => Len(P.ticks) > 0 /\ P.ticks[1] = r.next
         /\ r.catchUp = "all" =>
              /\ \A i \in 1 .. Len(P.ticks) - 1 : P.ticks[i + 1] = next(r.spec, P.ticks[i])
              /\ P.next = next(r.spec, P.ticks[Len(P.ticks)]) \/ Len(P.ticks) = CatchUpAllMax
<1> DEFINE P == planFires(r, at)
<1>1. r.spec \in Specs /\ r.next \in Nat /\ r.catchUp \in {"once", "skip", "all"}
  BY DEF Row, Policies
<1>2. next(r.spec, at) \in Nat /\ next(r.spec, at) > at
  BY <1>1, NextAfter
<1>3. CASE r.catchUp = "skip"
  <2>1. P.ticks = <<>> /\ P.next = next(r.spec, at)
    BY <1>1, <1>3 DEF planFires
  <2> QED BY <1>2, <1>3, <2>1 DEF Ascending
<1>4. CASE r.catchUp = "once"
  <2>1. P.ticks = <<r.next>> /\ P.next = next(r.spec, at)
    BY <1>1, <1>4 DEF planFires
  <2> QED BY <1>1, <1>2, <1>4, <2>1 DEF Ascending
<1>5. CASE r.catchUp = "all"
  <2> DEFINE B(i) == Backlog(r.spec, r.next, i)
  <2>1. PICK m \in Nat \ {0} :
           /\ P.ticks = [i \in 1 .. m |-> B(i - 1)]
           /\ B(m - 1) <= at
           /\ P.next \in Nat /\ P.next > at
           /\ P.next = B(m) \/ m = CatchUpAllMax
    BY <1>5, PlanAll, Zenon
  <2>2. \A i \in Nat : /\ B(i) \in Nat /\ B(i) < B(i + 1) /\ B(i + 1) = next(r.spec, B(i))
    BY <1>1, BacklogStep, Zenon
  <2>3. \A i \in Nat : i <= m - 1 => B(i) <= B(m - 1)
    BY <1>1, BacklogMono
  <2>4. B(0) = r.next
    BY DEF Backlog
  <2> HIDE DEF B
  <2>5. Len(P.ticks) = m /\ P.ticks \in Seq(Nat)
    <3>1. \A i \in 1 .. m : B(i - 1) \in Nat
      BY <2>2
    <3>2. P.ticks \in [1 .. m -> Nat]
      BY <2>1, <3>1
    <3> QED BY <3>2
  <2>6. \A i \in 1 .. m : P.ticks[i] = B(i - 1)
    BY <2>1
  <2>7. \A i \in 1 .. m : P.ticks[i] <= at
    <3> TAKE i \in 1 .. m
    <3>1. i - 1 \in Nat /\ m - 1 \in Nat /\ i - 1 <= m - 1
      OBVIOUS
    <3>2. B(i - 1) \in Nat /\ B(m - 1) \in Nat /\ B(i - 1) <= B(m - 1)
      BY <2>2, <2>3, <3>1
    <3> QED BY <2>1, <2>6, <3>2
  <2>8. \A i \in 1 .. m - 1 : P.ticks[i] < P.ticks[i + 1] /\ P.ticks[i + 1] = next(r.spec, P.ticks[i])
    <3> TAKE i \in 1 .. m - 1
    <3>1. P.ticks[i] = B(i - 1) /\ P.ticks[i + 1] = B(i)
      BY <2>6
    <3>2. B(i - 1) < B(i) /\ B(i) = next(r.spec, B(i - 1))
      BY <2>2, i - 1 \in Nat, (i - 1) + 1 = i
    <3> QED BY <3>1, <3>2
  <2>9. B(m) = next(r.spec, P.ticks[m])
    <3>1. B(m) = next(r.spec, B(m - 1))
      BY <2>2, m - 1 \in Nat, (m - 1) + 1 = m
    <3> QED BY <2>6, <3>1
  <2>10. P.ticks[1] = r.next
    BY <2>4, <2>6
  <2>11. Ascending(P.ticks)
    BY <2>5, <2>8 DEF Ascending
  <2>12. /\ \A i \in 1 .. Len(P.ticks) - 1 : P.ticks[i + 1] = next(r.spec, P.ticks[i])
         /\ P.next = next(r.spec, P.ticks[Len(P.ticks)]) \/ Len(P.ticks) = CatchUpAllMax
    BY <2>1, <2>5, <2>8, <2>9, Zenon
  <2>13. Len(P.ticks) > 0 /\ \A i \in 1 .. Len(P.ticks) : P.ticks[i] <= at
    BY <2>5, <2>7
  <2> HIDE DEF P
  <2>14. /\ P.next \in Nat /\ P.next > at
         /\ P.ticks \in Seq(Nat)
    BY <2>1, <2>5
  <2> USE DEF P
  <2> QED BY <1>5, <2>10, <2>11, <2>12, <2>13, <2>14
<1> QED BY <1>1, <1>3, <1>4, <1>5

\* Fired ticks stay in order when later ones are appended.
LEMMA AppendAscending ==
  ASSUME NEW s \in Seq(Nat), NEW u \in Seq(Nat), NEW x \in Nat, NEW y \in Nat,
         Ascending(s), Ascending(u), x < y \/ u = <<>>, x <= y,
         \A i \in 1 .. Len(s) : s[i] < x,
         Len(u) > 0 => u[1] >= x,
         \A i \in 1 .. Len(u) : u[i] < y
  PROVE  /\ s \o u \in Seq(Nat) /\ Ascending(s \o u)
         /\ \A i \in 1 .. Len(s \o u) : (s \o u)[i] < y
<1>1. s \o u \in Seq(Nat) /\ Len(s \o u) = Len(s) + Len(u)
  OBVIOUS
<1>2. \A i \in 1 .. Len(s) : (s \o u)[i] = s[i]
  OBVIOUS
<1>3. \A i \in 1 .. Len(u) : (s \o u)[Len(s) + i] = u[i]
  OBVIOUS
<1>4. ASSUME NEW i \in 1 .. Len(s \o u) - 1 PROVE (s \o u)[i] < (s \o u)[i + 1]
  <2>1. CASE i + 1 <= Len(s)
    BY <1>2, <2>1 DEF Ascending
  <2>2. CASE i = Len(s)
    <3>1. Len(u) > 0 /\ (s \o u)[i + 1] = u[1] /\ (s \o u)[i] = s[i] /\ i \in 1 .. Len(s)
      BY <1>1, <1>2, <1>3, <2>2
    <3>2. u[1] \in Nat /\ s[i] \in Nat
      BY <3>1
    <3> QED BY <3>1, <3>2
  <2>3. CASE i > Len(s)
    <3> DEFINE k == i - Len(s)
    <3>1. k \in 1 .. Len(u) - 1 /\ i = Len(s) + k /\ i + 1 = Len(s) + (k + 1)
      BY <1>1, <2>3
    <3>2. (s \o u)[i] = u[k] /\ (s \o u)[i + 1] = u[k + 1]
      <4> HIDE DEF k
      <4> QED BY <1>3, <3>1
    <3> HIDE DEF k
    <3> QED BY <3>1, <3>2 DEF Ascending
  <2> QED BY <1>1, <2>1, <2>2, <2>3
<1>5. ASSUME NEW i \in 1 .. Len(s \o u) PROVE (s \o u)[i] < y
  <2>1. CASE i <= Len(s)
    <3>1. (s \o u)[i] = s[i] /\ s[i] \in Nat /\ s[i] < x
      BY <1>2, <2>1
    <3> QED BY <3>1
  <2>2. CASE i > Len(s)
    <3> DEFINE k == i - Len(s)
    <3>1. k \in 1 .. Len(u) /\ i = Len(s) + k
      BY <1>1, <2>2
    <3> HIDE DEF k
    <3> QED BY <1>3, <3>1
  <2> QED BY <2>1, <2>2
<1> QED BY <1>1, <1>4, <1>5 DEF Ascending


LEMMA NothingOver == ASSUME NEW S PROVE <<>> \in Over(S)
<1>1. <<>> \in [{} -> S]
  OBVIOUS
<1> QED BY <1>1 DEF Over

\* The states of a process that its steps build.
Rest(s) == [Down EXCEPT !.pc = s]
Booted(D, F) == [Down EXCEPT !.pc = "upserting", !.todo = D, !.first = F]
With(q, s, S) == [q EXCEPT !.pc = s, !.todo = S]
Reading(q, t, S, F) == [q EXCEPT !.pc = "firing", !.at = t, !.todo = S, !.due = F]

LEMMA RestState ==
  ASSUME NEW s \in Pcs
  PROVE  Rest(s) \in ProcState /\ Rest(s).pc = s
<1>1. <<>> \in Over(Nat) /\ <<>> \in Over(Row)
  BY NothingOver
<1>2. <<>> \in Seq(Row \cup {Absent})
  OBVIOUS
<1> QED BY <1>1, <1>2, Zenon DEF Rest, Down, ProcState

LEMMA BootedState ==
  ASSUME NEW D \in SUBSET Names, NEW F \in [D -> Nat]
  PROVE  LET r == Booted(D, F) IN
         r \in ProcState /\ r.pc = "upserting" /\ r.todo = D /\ r.first = F
<1>1. F \in Over(Nat)
  BY DEF Over
<1>2. <<>> \in Over(Row)
  BY NothingOver
<1>3. <<>> \in Seq(Row \cup {Absent}) /\ "upserting" \in Pcs
  BY DEF Pcs
<1> QED BY <1>1, <1>2, <1>3, Zenon DEF Booted, Down, ProcState

LEMMA WithState ==
  ASSUME NEW q \in ProcState, NEW s \in Pcs, NEW S \in SUBSET Names
  PROVE  LET r == With(q, s, S) IN
         /\ r \in ProcState /\ r.pc = s /\ r.todo = S
         /\ r.first = q.first /\ r.due = q.due /\ r.at = q.at
BY Zenon DEF With, ProcState

LEMMA ReadingState ==
  ASSUME NEW q \in ProcState, NEW t \in Nat, NEW S \in SUBSET Names, NEW F \in [S -> Row]
  PROVE  LET r == Reading(q, t, S, F) IN
         r \in ProcState /\ r.pc = "firing" /\ r.todo = S /\ r.due = F /\ r.at = t
<1>1. F \in Over(Row)
  BY DEF Over
<1> QED BY <1>1, Zenon DEF Reading, ProcState, Pcs

-----------------------------------------------------------------------------
(* What steps leave alone *)

\* A step that leaves the table and a process alone leaves what is said of them.
LEMMA ProcFrame ==
  ASSUME NEW q \in Processes, ProcInv(q), proc'[q] = proc[q], sched' = sched
  PROVE  ProcInv(q)'
BY DEF ProcInv, Settled, ReadRow, Orphans, Stored, Fires

LEMMA TableFrame ==
  ASSUME IInv, sched' = sched, jobs' = jobs
  PROVE  \A n \in Names : ((Settled(n) \/ Untouched(n)) /\ TicksInv(n) /\ StreakInv(n))'
BY DEF IInv, Settled, Untouched, TicksInv, StreakInv, Fires

\* A step that changes the table and leaves a process alone leaves what is said of the
\* process, if what is settled stays, no undeclared row appears, and the rows it read
\* stay good.
LEMMA ProcKept ==
  ASSUME NEW q \in Processes, ProcInv(q), proc'[q] = proc[q],
         \A n \in Names : Settled(n) => Settled(n)',
         \A n \in Names : sched'[n] # Absent => sched[n] # Absent \/ n \in DOMAIN Declares[q],
         \A n \in Names : Settled(n) /\ ReadRow(q, n) => ReadRow(q, n)'
  PROVE  ProcInv(q)'
<1> DEFINE D == DOMAIN Declares[q]
<1>1. D \subseteq Names
  BY DeclaresAssumption
<1>2. Orphans(q)' \subseteq Orphans(q)
  BY DEF Orphans, Stored
<1>4. (proc[q].pc = "upserting" =>
        /\ proc[q].todo \subseteq D
        /\ \A n \in D : proc[q].first[n] \in Nat \ {0}
        /\ \A n \in D \ proc[q].todo : Settled(n))'
  BY <1>1 DEF ProcInv
<1>5. (proc[q].pc \in {"pruning", "idle", "firing"} => \A n \in D : Settled(n))'
  BY <1>1 DEF ProcInv
<1>6. (proc[q].pc = "pruning" => proc[q].todo \cap D = {} /\ Orphans(q) \subseteq proc[q].todo)'
  BY <1>2 DEF ProcInv
<1>7. (proc[q].pc \in {"idle", "firing"} => Orphans(q) = {})'
  BY <1>2 DEF ProcInv
<1>8. (proc[q].pc = "firing" =>
        /\ proc[q].todo # {} /\ proc[q].todo \subseteq DOMAIN proc[q].due
        /\ proc[q].todo \subseteq D
        /\ \A n \in proc[q].todo : ReadRow(q, n))'
  BY <1>1 DEF ProcInv
<1> QED BY <1>4, <1>5, <1>6, <1>7, <1>8 DEF ProcInv

\* A step of p that changes only p's own state.
LEMMA OwnStep ==
  ASSUME IInv, NEW p \in Processes, NEW r \in ProcState,
         proc' = [proc EXCEPT ![p] = r], UNCHANGED <<sched, jobs, open, now>>,
         ProcInv(p)'
  PROVE  IInv'
<1>1. TableOK'
  BY DEF IInv, TableOK
<1>2. \A n \in Names : ((Settled(n) \/ Untouched(n)) /\ TicksInv(n) /\ StreakInv(n))'
  BY TableFrame
<1>3. ASSUME NEW q \in Processes, q # p PROVE ProcInv(q)'
  <2>1. proc'[q] = proc[q]
    BY <1>3 DEF IInv, TableOK
  <2> QED BY <2>1, ProcFrame DEF IInv
<1> QED BY <1>1, <1>2, <1>3 DEF IInv


-----------------------------------------------------------------------------
(* The steps that leave the table alone *)

LEMMA BootKeeps ==
  ASSUME IInv, NEW p \in Processes, NEW t \in Clock, Boot(p, t)
  PROVE  IInv'
<1> DEFINE D == DOMAIN Declares[p]
           F == [n \in D |-> next(Declares[p][n].spec, t)]
           r == Booted(D, F)
<1>1. proc' = [proc EXCEPT ![p] = r] /\ UNCHANGED <<sched, jobs, open, now>>
  BY DEF Boot, Booted
<1>2. D \in SUBSET Names /\ \A n \in D : Declares[p][n].spec \in Specs
  BY DeclaresAssumption
<1>3. t \in Nat
  BY DEF Clock, IInv, TableOK
<1>4. \A n \in D : next(Declares[p][n].spec, t) \in Nat \ {0}
  BY <1>2, <1>3, NextAfter
<1>5. F \in [D -> Nat] /\ \A n \in D : F[n] \in Nat \ {0}
  BY <1>4
<1>6. r \in ProcState /\ r.pc = "upserting" /\ r.todo = D /\ r.first = F
  <2> HIDE DEF F, D
  <2> QED BY <1>2, <1>5, BootedState
<1> HIDE DEF r, F
<1>7. proc'[p] = r
  BY <1>1 DEF IInv, TableOK
<1>8. ProcInv(p)'
  BY <1>5, <1>6, <1>7 DEF ProcInv
<1> QED BY <1>1, <1>6, <1>8, OwnStep, Zenon

\* A process that is down, or idle over a table that is settled for it.
LEMMA RestInv ==
  ASSUME NEW p \in Processes, NEW s \in {"down", "idle"}, proc'[p] = Rest(s),
         s = "idle" => (\A n \in DOMAIN Declares[p] : Settled(n)') /\ Orphans(p)' = {}
  PROVE  ProcInv(p)'
<1>1. proc'[p].pc = s
  BY RestState DEF Pcs
<1> QED BY <1>1 DEF ProcInv

LEMMA ListKeeps ==
  ASSUME IInv, NEW p \in Processes, ListSchedules(p)
  PROVE  IInv'
<1> DEFINE r == With(proc[p], "pruning", Orphans(p))
<1>1. proc' = [proc EXCEPT ![p] = r] /\ UNCHANGED <<sched, jobs, open, now>>
  BY Zenon DEF ListSchedules, With, IInv, TableOK
<1>2. ProcInv(p) /\ proc[p].pc = "upserting" /\ proc[p].todo = {}
  BY DEF ListSchedules, IInv
<1>3. r \in ProcState /\ r.pc = "pruning" /\ r.todo = Orphans(p)
  <2>1. proc[p] \in ProcState /\ Orphans(p) \in SUBSET Names /\ "pruning" \in Pcs
    BY DEF IInv, TableOK, Orphans, Stored, Pcs
  <2> QED BY <2>1, WithState
<1> HIDE DEF r
<1>4. proc'[p] = r
  BY <1>1 DEF IInv, TableOK
<1>5. \A n \in DOMAIN Declares[p] : Settled(n)'
  BY <1>1, <1>2 DEF ProcInv, Settled
<1>6. Orphans(p)' = Orphans(p) /\ Orphans(p) \cap DOMAIN Declares[p] = {}
  BY <1>1 DEF Orphans, Stored
<1>7. ProcInv(p)'
  BY <1>3, <1>4, <1>5, <1>6 DEF ProcInv
<1> QED BY <1>1, <1>3, <1>7, OwnStep, Zenon

LEMMA StartKeeps ==
  ASSUME IInv, NEW p \in Processes, StartScheduler(p)
  PROVE  IInv'
<1>1. proc' = [proc EXCEPT ![p] = Rest("idle")] /\ UNCHANGED <<sched, jobs, open, now>>
  BY DEF StartScheduler, Rest
<1>2. proc'[p] = Rest("idle") /\ Rest("idle") \in ProcState
  BY <1>1, RestState DEF IInv, TableOK, Pcs
<1>3. ProcInv(p) /\ proc[p].pc = "pruning" /\ proc[p].todo = {}
  BY DEF StartScheduler, IInv
<1>4. (\A n \in DOMAIN Declares[p] : Settled(n)') /\ Orphans(p)' = {}
  BY <1>1, <1>3 DEF ProcInv, Settled, Orphans, Stored
<1>5. ProcInv(p)'
  BY <1>2, <1>4, RestInv
<1> QED BY <1>1, <1>2, <1>5, OwnStep, Zenon

LEMMA DieKeeps ==
  ASSUME IInv, NEW p \in Processes, Die(p)
  PROVE  IInv'
<1>1. proc' = [proc EXCEPT ![p] = Rest("down")] /\ UNCHANGED <<sched, jobs, open, now>>
  BY Zenon DEF Die, Rest, Down
<1>2. proc'[p] = Rest("down") /\ Rest("down") \in ProcState
  BY <1>1, RestState DEF IInv, TableOK, Pcs
<1>3. ProcInv(p)'
  BY <1>2, RestInv
<1> QED BY <1>1, <1>2, <1>3, OwnStep, Zenon

LEMMA TickKeeps ==
  ASSUME IInv, NEW p \in Processes, NEW t \in Clock, schedulerTick(p, t)
  PROVE  IInv'
<1> DEFINE S == DueSchedules(t)
           F == [n \in S |-> sched[n]]
           r == Reading(proc[p], t, S, F)
<1>1. proc' = [proc EXCEPT ![p] = r] /\ UNCHANGED <<sched, jobs, open, now>>
  BY Zenon DEF schedulerTick, Reading, IInv, TableOK
<1>2. ProcInv(p) /\ proc[p].pc = "idle" /\ S # {}
  BY DEF schedulerTick, IInv
<1>3. t \in Nat /\ proc[p] \in ProcState
  BY DEF Clock, IInv, TableOK
<1>4. S \in SUBSET Names /\ F \in [S -> Row] /\ \A n \in S : F[n] = sched[n]
  BY Zenon DEF IInv, TableOK, DueSchedules, Stored
<1>5. r \in ProcState /\ r.pc = "firing" /\ r.todo = S /\ r.due = F /\ r.at = t
  <2> HIDE DEF F, S
  <2> QED BY <1>3, <1>4, ReadingState
<1> HIDE DEF r, F
<1>6. proc'[p] = r
  BY <1>1 DEF IInv, TableOK
<1>7. (\A n \in DOMAIN Declares[p] : Settled(n)') /\ Orphans(p)' = {}
  BY <1>1, <1>2 DEF ProcInv, Settled, Orphans, Stored
<1>8. S \subseteq DOMAIN Declares[p]
  BY <1>2 DEF ProcInv, Orphans, DueSchedules, Stored
<1>9. ASSUME NEW n \in S PROVE ReadRow(p, n)'
  <2>1. n \in Names /\ sched[n] # Absent /\ sched[n].next <= t
    BY DEF DueSchedules, Stored
  <2>2. sched[n] \in Row /\ sched[n].last < sched[n].next
    BY <2>1 DEF IInv, TableOK, TicksInv, Row
  <2>3. proc'[p].due[n] = sched[n] /\ proc'[p].at = t /\ sched' = sched
    BY <1>1, <1>4, <1>5, <1>6
  <2> QED BY <2>1, <2>2, <2>3 DEF ReadRow, Row
<1> HIDE DEF S
<1>10. ProcInv(p)'
  BY <1>2, <1>4, <1>5, <1>6, <1>7, <1>8, <1>9 DEF ProcInv
<1> QED BY <1>1, <1>5, <1>10, OwnStep, Zenon


\* A process that is done with one of the names it has to do.
Left(q, n) == [q EXCEPT !.todo = @ \ {n}]

LEMMA LeftState ==
  ASSUME NEW q \in ProcState, NEW n
  PROVE  LET r == Left(q, n) IN
         /\ r \in ProcState /\ r.pc = q.pc /\ r.todo = q.todo \ {n}
         /\ r.first = q.first /\ r.due = q.due /\ r.at = q.at
BY DEF Left, ProcState

\* After a fire, applied or not, the process goes on to the next of the rows it read.
After(q, n) == IF q.todo = {n} THEN Rest("idle") ELSE Left(q, n)

LEMMA DoneStep ==
  ASSUME IInv, NEW p \in Processes, NEW n, DoneWith(p, n)
  PROVE  /\ proc' = [proc EXCEPT ![p] = After(proc[p], n)]
         /\ After(proc[p], n) \in ProcState
         /\ proc'[p] = After(proc[p], n)
         /\ \A q \in Processes : q # p => proc'[q] = proc[q]
<1>1. proc[p] \in ProcState
  BY DEF IInv, TableOK
<1>2. After(proc[p], n) \in ProcState
  BY <1>1, LeftState, RestState DEF After, Pcs
<1>3. proc' = [proc EXCEPT ![p] = After(proc[p], n)]
  <2>1. CASE proc[p].todo = {n}
    <3>1. proc' = [proc EXCEPT ![p] = Rest("idle")]
      BY <2>1 DEF DoneWith, Rest, IInv, TableOK
    <3> QED BY <2>1, <3>1 DEF After
  <2>2. CASE proc[p].todo # {n}
    <3>1. proc' = [proc EXCEPT ![p] = Left(proc[p], n)]
      BY <2>2 DEF DoneWith, Left, IInv, TableOK
    <3> QED BY <2>2, <3>1 DEF After
  <2> QED BY <2>1, <2>2
<1> QED BY <1>2, <1>3 DEF IInv, TableOK

LEMMA DoneInv ==
  ASSUME NEW p \in Processes, NEW n, proc[p] \in ProcState, proc'[p] = After(proc[p], n),
         proc[p].pc = "firing", n \in proc[p].todo, ProcInv(p),
         \A m \in DOMAIN Declares[p] : Settled(m)', Orphans(p)' = {},
         \A m \in proc[p].todo \ {n} : ReadRow(p, m)'
  PROVE  ProcInv(p)'
<1>1. CASE proc[p].todo = {n}
  <2>1. proc'[p] = Rest("idle")
    BY <1>1 DEF After
  <2> QED BY <2>1, RestInv
<1>2. CASE proc[p].todo # {n}
  <2>1. proc'[p] = Left(proc[p], n)
    BY <1>2 DEF After
  <2>2. proc'[p].pc = "firing" /\ proc'[p].todo = proc[p].todo \ {n} /\ proc'[p].due = proc[p].due
    BY <2>1, LeftState
  <2>3. /\ proc'[p].todo # {} /\ proc'[p].todo \subseteq DOMAIN proc'[p].due
        /\ proc'[p].todo \subseteq DOMAIN Declares[p]
    BY <1>2, <2>2 DEF ProcInv
  <2> QED BY <2>2, <2>3 DEF ProcInv
<1> QED BY <1>1, <1>2

LEMMA FireFailsKeeps ==
  ASSUME IInv, NEW p \in Processes, FireFails(p)
  PROVE  IInv'
<1> DEFINE n == FirstOf(proc[p].todo)
<1>1. proc[p].pc = "firing" /\ DoneWith(p, n) /\ UNCHANGED <<sched, jobs, open, now>>
  BY DEF FireFails
<1>2. proc[p] \in ProcState /\ ProcInv(p) /\ n \in proc[p].todo
  BY <1>1, FirstIsOne DEF IInv, TableOK, ProcInv, ProcState
<1> HIDE DEF n
<1>3. /\ proc' = [proc EXCEPT ![p] = After(proc[p], n)]
      /\ After(proc[p], n) \in ProcState /\ proc'[p] = After(proc[p], n)
  BY <1>1, DoneStep
<1>4. (\A m \in DOMAIN Declares[p] : Settled(m)') /\ Orphans(p)' = {}
  BY <1>1, <1>2 DEF ProcInv, Settled, Orphans, Stored
<1>5. ASSUME NEW m \in proc[p].todo \ {n} PROVE ReadRow(p, m)'
  <2>1. ReadRow(p, m) /\ sched' = sched
    BY <1>1, <1>2 DEF ProcInv
  <2>2. proc'[p].due = proc[p].due /\ proc'[p].at = proc[p].at
    BY <1>2, <1>3, LeftState DEF After
  <2> QED BY <2>1, <2>2 DEF ReadRow, Fires
<1>6. ProcInv(p)'
  BY <1>1, <1>2, <1>3, <1>4, <1>5, DoneInv
<1> QED BY <1>1, <1>3, <1>6, OwnStep, Zenon

-----------------------------------------------------------------------------
(* The steps that change the table *)

\* The row of n alone changes: what is said of other names stays.
LEMMA OtherNames ==
  ASSUME IInv, NEW n \in Names,
         \A m \in Names : m # n => sched'[m] = sched[m] /\ jobs'[m] = jobs[m]
  PROVE  \A m \in Names : m # n =>
           ((Settled(m) \/ Untouched(m)) /\ TicksInv(m) /\ StreakInv(m))'
<1> SUFFICES ASSUME NEW m \in Names, m # n
             PROVE  ((Settled(m) \/ Untouched(m)) /\ TicksInv(m) /\ StreakInv(m))'
  OBVIOUS
<1>1. sched'[m] = sched[m] /\ jobs'[m] = jobs[m] /\ (Settled(m) \/ Untouched(m)) /\ TicksInv(m) /\ StreakInv(m)
  BY DEF IInv
<1>2. (Settled(m) \/ Untouched(m))'
  BY <1>1 DEF Settled, Untouched
<1>3. TicksInv(m)'
  BY <1>1 DEF TicksInv, Fires
<1>4. StreakInv(m)'
  BY <1>1 DEF StreakInv
<1> QED BY <1>2, <1>3, <1>4

\* The row that an upsert of a settled name writes is the one that is there.
LEMMA SettledUpsert ==
  ASSUME NEW p \in Processes, NEW n \in Names, NEW x, Settled(n), sched[n] \in Row
  PROVE  Upserted(n, sched[n], Declares[p][n].spec, Declares[p][n].catchUp, x) = sched[n]
<1>1. /\ sched[n] # Absent /\ sched[n].spec = Declares[p][n].spec
      /\ sched[n].catchUp = Declares[p][n].catchUp
  BY DEF Settled
<1> QED BY <1>1 DEF Upserted, Row


\* An upsert writes what the process declares; on a settled row it changes nothing.
LEMMA UpsertKeeps ==
  ASSUME IInv, OneVersion, NEW p \in Processes, NEW n, n = FirstOf(proc[p].todo), UpsertSchedule(p)
  PROVE  IInv'
<1> DEFINE d == Declares[p][n]
           x == proc[p].first[n]
           u == Upserted(n, sched[n], d.spec, d.catchUp, x)
<1>1. /\ proc[p].pc = "upserting" /\ proc[p].todo # {}
      /\ sched' = [sched EXCEPT ![n] = u]
      /\ proc' = [proc EXCEPT ![p] = Left(proc[p], n)]
      /\ UNCHANGED <<jobs, open, now>>
  BY DEF UpsertSchedule, Left, IInv, TableOK
<1>2. proc[p] \in ProcState /\ ProcInv(p) /\ proc[p].todo \subseteq Names
  BY DEF IInv, TableOK, ProcState
<1>3. n \in proc[p].todo /\ n \in Names
  BY <1>1, <1>2, FirstIsOne
<1>4. n \in DOMAIN Declares[p] /\ x \in Nat \ {0}
  BY <1>1, <1>2, <1>3 DEF ProcInv
<1>5. d.spec \in Specs /\ d.catchUp \in Policies
  BY <1>4, DeclaresAssumption
<1>6. \A q \in Processes : Declares[q] = Declares[p]
  BY DEF OneVersion
<1>7. sched[n] \in Row \cup {Absent} /\ jobs[n] \in Seq(Nat)
  BY <1>3 DEF IInv, TableOK
<1>8. u \in Row /\ u.spec = d.spec /\ u.catchUp = d.catchUp
  <2>1. CASE sched[n] = Absent
    BY <1>4, <1>5, <2>1 DEF Upserted, Row
  <2>2. CASE sched[n] # Absent
    BY <1>4, <1>5, <1>7, <2>2 DEF Upserted, Row
  <2> QED BY <2>1, <2>2, Zenon
<1>9. CASE Settled(n)
  <2>1. u = sched[n]
    BY <1>3, <1>7, <1>9, SettledUpsert DEF Settled
  <2>2. sched' = sched
    BY <1>1, <1>3, <2>1 DEF IInv, TableOK
  <2>3. Left(proc[p], n) \in ProcState
    BY <1>2, LeftState
  <2>4. ProcInv(p)'
    <3>1. proc'[p] = Left(proc[p], n)
      BY <1>1 DEF IInv, TableOK
    <3>2. proc'[p].pc = "upserting" /\ proc'[p].todo = proc[p].todo \ {n} /\ proc'[p].first = proc[p].first
      BY <1>1, <1>2, <3>1, LeftState
    <3>3. \A m \in DOMAIN Declares[p] \ (proc[p].todo \ {n}) : Settled(m)
      BY <1>1, <1>2, <1>9 DEF ProcInv
    <3>4. \A m \in DOMAIN Declares[p] \ (proc[p].todo \ {n}) : Settled(m)'
      BY <2>2, <3>3 DEF Settled
    <3> QED BY <1>1, <1>2, <3>2, <3>4 DEF ProcInv
  <2> QED BY <1>1, <2>2, <2>3, <2>4, OwnStep, Zenon
<1>10. CASE ~Settled(n)
  <2>1. Untouched(n)
    BY <1>3, <1>10 DEF IInv
  <2>2. u.next \in Nat \ {0} /\ u.last = 0
    BY <1>4, <1>7, <2>1 DEF Untouched, Upserted, Row
  <2> HIDE DEF u, x, d
  <2>3. sched'[n] = u /\ \A m \in Names : m # n => sched'[m] = sched[m]
    BY <1>1, <1>3 DEF IInv, TableOK
  <2>4. u # Absent
    BY <1>8, NamesAssumption
  <2>5. jobs' = jobs /\ jobs[n] = <<>>
    BY <1>1, <2>1 DEF Untouched
  <2>6. Settled(n)'
    BY <1>4, <1>6, <1>8, <2>3, <2>4 DEF Settled, d
  <2>7. TicksInv(n)' /\ StreakInv(n)'
    BY <2>2, <2>3, <2>5 DEF TicksInv, StreakInv, Streak
  <2>8. \A m \in Names : ((Settled(m) \/ Untouched(m)) /\ TicksInv(m) /\ StreakInv(m))'
    BY <1>3, <2>3, <2>5, <2>6, <2>7, OtherNames
  <2>9. TableOK'
    BY <1>1, <1>2, <1>8, LeftState, Zenon DEF IInv, TableOK
  <2>10. \A m \in Names : Settled(m) => Settled(m)'
    BY <2>3, <2>6 DEF Settled
  <2>11. \A m \in Names : sched'[m] # Absent => sched[m] # Absent \/ m \in DOMAIN Declares[p]
    BY <1>4, <2>3
  <2>12. ASSUME NEW q \in Processes, q # p PROVE ProcInv(q)'
    <3>1. proc'[q] = proc[q] /\ ProcInv(q)
      BY <1>1, <2>12 DEF IInv, TableOK
    <3>2. \A m \in Names : sched'[m] # Absent => sched[m] # Absent \/ m \in DOMAIN Declares[q]
      BY <1>6, <2>11
    <3>3. \A m \in Names : Settled(m) /\ ReadRow(q, m) => ReadRow(q, m)'
      BY <1>10, <2>3, <3>1 DEF ReadRow, Fires
    <3> QED BY <2>10, <3>1, <3>2, <3>3, ProcKept
  <2>13. ProcInv(p)'
    <3>1. proc'[p] = Left(proc[p], n)
      BY <1>1 DEF IInv, TableOK
    <3>2. proc'[p].pc = "upserting" /\ proc'[p].todo = proc[p].todo \ {n} /\ proc'[p].first = proc[p].first
      BY <1>1, <1>2, <3>1, LeftState
    <3>3. \A m \in DOMAIN Declares[p] \ (proc[p].todo \ {n}) : Settled(m)'
      BY <1>1, <1>2, <2>6, <2>10, DeclaresAssumption DEF ProcInv
    <3> QED BY <1>1, <1>2, <3>2, <3>3 DEF ProcInv
  <2> QED BY <2>8, <2>9, <2>12, <2>13 DEF IInv
<1> QED BY <1>9, <1>10

\* Only names that nobody declares are pruned.
LEMMA DeleteKeeps ==
  ASSUME IInv, OneVersion, NEW p \in Processes, NEW n, n = FirstOf(proc[p].todo), DeleteSchedule(p)
  PROVE  IInv'
<1>1. /\ proc[p].pc = "pruning" /\ proc[p].todo # {}
      /\ sched' = [sched EXCEPT ![n] = Absent]
      /\ proc' = [proc EXCEPT ![p] = Left(proc[p], n)]
      /\ UNCHANGED <<jobs, open, now>>
  BY DEF DeleteSchedule, Left, IInv, TableOK
<1>2. proc[p] \in ProcState /\ ProcInv(p) /\ proc[p].todo \subseteq Names
  BY DEF IInv, TableOK, ProcState
<1>3. n \in proc[p].todo /\ n \in Names
  BY <1>1, <1>2, FirstIsOne
<1>4. ~Settled(n)
  BY <1>1, <1>2, <1>3 DEF ProcInv, Settled
<1>5. jobs[n] = <<>>
  BY <1>3, <1>4 DEF IInv, Untouched
<1>6. sched'[n] = Absent /\ \A m \in Names : m # n => sched'[m] = sched[m]
  BY <1>1, <1>3 DEF IInv, TableOK
<1>7. (Untouched(n) /\ TicksInv(n) /\ StreakInv(n))'
  BY <1>1, <1>5, <1>6 DEF Untouched, TicksInv, StreakInv
<1>8. \A m \in Names : ((Settled(m) \/ Untouched(m)) /\ TicksInv(m) /\ StreakInv(m))'
  BY <1>1, <1>3, <1>6, <1>7, OtherNames
<1>9. TableOK'
  BY <1>1, <1>2, LeftState, Zenon DEF IInv, TableOK
<1>10. \A m \in Names : Settled(m) => Settled(m)'
  BY <1>4, <1>6 DEF Settled
<1>11. \A m \in Names : sched'[m] # Absent => sched[m] # Absent
  BY <1>6
<1>12. ASSUME NEW q \in Processes, q # p PROVE ProcInv(q)'
  <2>1. proc'[q] = proc[q] /\ ProcInv(q)
    BY <1>1, <1>12 DEF IInv, TableOK
  <2>2. \A m \in Names : Settled(m) /\ ReadRow(q, m) => ReadRow(q, m)'
    BY <1>4, <1>6, <2>1 DEF ReadRow, Fires
  <2> QED BY <1>10, <1>11, <2>1, <2>2, ProcKept
<1>13. ProcInv(p)'
  <2>1. proc'[p] = Left(proc[p], n)
    BY <1>1 DEF IInv, TableOK
  <2>2. proc'[p].pc = "pruning" /\ proc'[p].todo = proc[p].todo \ {n}
    BY <1>1, <1>2, <2>1, LeftState
  <2>3. \A m \in DOMAIN Declares[p] : Settled(m)'
    BY <1>1, <1>2, <1>10, DeclaresAssumption DEF ProcInv
  <2>4. Orphans(p)' \subseteq proc[p].todo \ {n}
    BY <1>1, <1>2, <1>6 DEF ProcInv, Orphans, Stored
  <2> QED BY <1>1, <1>2, <2>2, <2>3, <2>4 DEF ProcInv
<1> QED BY <1>8, <1>9, <1>12, <1>13 DEF IInv
=============================================================================
