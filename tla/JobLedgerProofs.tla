-------------------------- MODULE JobLedgerProofs ---------------------------
(***************************************************************************)
(* The ledger of attempts, the end of a lease and the order of claims, for  *)
(* every set of jobs and workers.                                           *)
(***************************************************************************)
EXTENDS MCJobStore, JobStoreProofs, FiniteSetTheorems

-----------------------------------------------------------------------------
(* How row, ledger and lease count of one job move together in one step. *)

\* Heartbeat, Cancel, Retry and every step that is not about j.
Undisturbed(j) ==
  /\ ledger'[j] = ledger[j] /\ leases'[j] = leases[j] /\ row'[j].attempt = row[j].attempt
  /\ row'[j].state \in NoRow <=> row[j].state \in NoRow
  /\ row'[j].state = "unused" <=> row[j].state = "unused"
  /\ row'[j].state = "running" => row[j].state = "running" /\ row'[j].lockedBy = row[j].lockedBy

Begun(j) ==
  /\ ledger'[j] = ledger[j] /\ leases'[j] = leases[j]
  /\ row[j].state = "unused" /\ row'[j].state \in Queued /\ row'[j].attempt = 0

GrantedTo(j, w) ==
  /\ ledger'[j] = ledger[j] /\ leases'[j] = leases[j] + 1
  /\ row[j].state \in Queued /\ row'[j].state = "running"
  /\ row'[j].attempt = row[j].attempt /\ row'[j].lockedBy = w

\* Complete with a release, Complete with an outcome, SweepExpired.
Released(j) ==
  /\ ledger'[j] = ledger[j] /\ leases'[j] = leases[j] /\ row'[j].attempt = row[j].attempt
  /\ row[j].state = "running" /\ row'[j].state \in Queued \cup Terminal

Ended(j, a) ==
  /\ ledger'[j] = Append(ledger[j], Entry(j, a)) /\ leases'[j] = leases[j] /\ row'[j].attempt = a
  /\ row[j].state = "running" /\ row'[j].state \in Queued \cup Terminal

\* The number of an attempt: the row's next, or the claim's next.
Numbered(j, a) ==
  a = row[j].attempt + 1 \/ \E c \in claims : c.job = j /\ Owns(c) /\ a = c.attempt + 1

Dropped(j) == ledger'[j] = <<>> /\ leases'[j] = leases[j] /\ row'[j].state = "deleted"

LedgerMoves(j) ==
  \/ Undisturbed(j) \/ Begun(j) \/ (\E w \in Workers : GrantedTo(j, w)) \/ Released(j)
  \/ (\E a \in Nat : Ended(j, a) /\ Numbered(j, a)) \/ Dropped(j)

LEMMA Untouched ==
  ASSUME NEW j \in Jobs, row'[j] = row[j], ledger'[j] = ledger[j], leases'[j] = leases[j]
  PROVE  LedgerMoves(j)
BY DEF LedgerMoves, Undisturbed

LEMMA CompleteMoves ==
  ASSUME TypeOK, NEW c \in claims, NEW t \in Nat, NEW o \in Outcomes(c, t), Complete(c, o)
  PROVE  LedgerMoves(c.job)
<1> DEFINE j == c.job
           a == Resolve(row[j], o)
<1>1. c \in Claimed /\ j \in Jobs /\ row[j] \in Row /\ ledger[j] \in Seq([attempt : Nat, lease : Nat])
  BY DEF TypeOK, Claimed
<1>2. o \in Outcome /\ a \in Outcome
  BY <1>1, OutcomesType, ResolveType
<1>3. a.record => Numbered(j, a.attempt)
  <2>1. Owns(c)
    BY DEF Complete
  <2>2. o.record => o.attempt = c.attempt + 1
    BY DEF Outcomes
  <2>3. CASE ~row[j].cancelRequested
    <3>1. a = o
      BY <2>3 DEF Resolve
    <3> QED BY <2>1, <2>2, <3>1 DEF Numbered
  <2>4. CASE row[j].cancelRequested
    <3>1. a.attempt = IF o.record THEN o.attempt ELSE row[j].attempt + 1
      BY <1>2, <2>4 DEF Resolve, Outcome
    <3> HIDE DEF a
    <3>2. CASE o.record
      BY <2>1, <2>2, <3>1, <3>2 DEF Numbered
    <3>3. CASE ~o.record
      BY <3>1, <3>3 DEF Numbered
    <3> QED BY <3>2, <3>3
  <2> QED BY <2>3, <2>4
<1>4. /\ row'[j] = Completed(row[j], a) /\ row[j].state = "running"
      /\ ledger'[j] = IF a.record THEN Append(ledger[j], Entry(j, a.attempt)) ELSE ledger[j]
      /\ leases'[j] = leases[j]
  BY <1>1 DEF Complete, Owns, TypeOK
<1> HIDE DEF a
<1>5. row'[j].state = a.state /\ row'[j].attempt = IF a.record THEN a.attempt ELSE row[j].attempt
  BY <1>1, <1>2, <1>4 DEF Completed, Unlocked, Row
<1>6. a.state \in Queued \cup Terminal /\ a.attempt \in Nat /\ a.record \in BOOLEAN
  BY <1>2 DEF Outcome
<1>7. CASE a.record
  <2>1. Ended(j, a.attempt)
    BY <1>4, <1>5, <1>6, <1>7 DEF Ended
  <2> QED BY <1>3, <1>6, <1>7, <2>1 DEF LedgerMoves
<1>8. CASE ~a.record
  BY <1>4, <1>5, <1>6, <1>8 DEF LedgerMoves, Released
<1> QED BY <1>7, <1>8

LEMMA SweepMoves ==
  ASSUME TypeOK, NEW t \in Nat, SweepExpired(t), NEW j \in Jobs
  PROVE  LedgerMoves(j)
<1>1. row[j] \in Row /\ row[j].attempt + 1 \in Nat
  BY DEF TypeOK, Row
<1>2. CASE j \notin Expired(t)
  BY <1>2, Untouched DEF SweepExpired
<1>3. CASE j \in Expired(t)
  <2>1. /\ row'[j] = Swept(row[j], t) /\ ledger'[j] = Append(ledger[j], Entry(j, row[j].attempt + 1))
        /\ leases'[j] = leases[j] /\ row[j].state = "running"
    BY <1>3 DEF SweepExpired, Expired
  <2>2. row'[j].attempt = row[j].attempt + 1 /\ row'[j].state = SweptState(row[j])
    BY <1>1, <2>1 DEF Swept, Unlocked, Row
  <2>3. row'[j].state \in Queued \cup Terminal
    BY <1>1, <2>2, SweptStateType DEF Queued, Terminal
  <2>4. Ended(j, row[j].attempt + 1)
    BY <2>1, <2>2, <2>3 DEF Ended
  <2> QED BY <1>1, <2>4 DEF LedgerMoves, Numbered
<1> QED BY <1>2, <1>3

LEMMA LedgerStep == TypeOK /\ [Next]_vars => \A j \in Jobs : LedgerMoves(j)
<1> SUFFICES ASSUME TypeOK, [Next]_vars, NEW i \in Jobs PROVE LedgerMoves(i)
  OBVIOUS
<1>0. /\ row[i] \in Row
      /\ \A t \in Readings \cup (0 .. now) : t \in Nat
  BY ReadingsNat DEF TypeOK
<1>1. ASSUME NEW B \in SUBSET Jobs, NEW t \in Readings,
             NEW at \in [B -> {0} \cup {t + d : d \in Delays}], Insert(B, at, t)
      PROVE LedgerMoves(i)
  <2>1. CASE i \notin B
    BY <1>1, <2>1, Untouched DEF Insert
  <2>2. CASE i \in B
    BY <1>1, <2>2 DEF Insert, NewRow, LedgerMoves, Begun, Queued
  <2> QED BY <2>1, <2>2
<1>2. ASSUME NEW w \in Workers, NEW t \in Readings, NEW delivered \in BOOLEAN,
             NEW C \in SUBSET Eligible(w, t), NEW limit, NEW ql, Claim(w, C, limit, ql, t, delivered)
      PROVE LedgerMoves(i)
  <2>1. CASE i \notin C
    BY <1>2, <2>1, Untouched DEF Claim
  <2>2. CASE i \in C
    <3>1. /\ row[i].state \in Queued /\ row'[i] = Leased(row[i], w, t)
          /\ ledger'[i] = ledger[i] /\ leases'[i] = leases[i] + 1
      BY <1>2, <2>2 DEF Claim, Eligible
    <3>2. GrantedTo(i, w)
      BY <1>0, <3>1 DEF GrantedTo, Leased, Row
    <3> QED BY <3>2 DEF LedgerMoves
  <2> QED BY <2>1, <2>2
<1>3. ASSUME NEW c \in claims, NEW t \in Readings, Heartbeat(c, t)
      PROVE LedgerMoves(i)
  BY <1>0, <1>3 DEF Heartbeat, TypeOK, Row, LedgerMoves, Undisturbed
<1>4. ASSUME NEW c \in claims, NEW t \in 0 .. now, NEW o \in Outcomes(c, t), Complete(c, o)
      PROVE LedgerMoves(i)
  <2>1. CASE i # c.job
    BY <1>4, <2>1, Untouched DEF Complete, TypeOK
  <2> QED BY <1>0, <1>4, <2>1, CompleteMoves
<1>5. ASSUME NEW t \in Readings, SweepExpired(t)
      PROVE LedgerMoves(i)
  BY <1>0, <1>5, SweepMoves
<1>6. ASSUME NEW j \in Jobs, NEW t \in Readings, Retry(j, t)
      PROVE LedgerMoves(i)
  <2>1. CASE i # j
    BY <1>6, <2>1, Untouched DEF Retry, TypeOK
  <2>2. CASE i = j
    <3>1. row'[i].state = "available" /\ row'[i].attempt = row[i].attempt /\ row[i].state \in Terminal
      BY <1>0, <1>6, <2>2 DEF Retry, TypeOK, Revived, Unlocked, Row
    <3> QED BY <1>6, <3>1 DEF Retry, LedgerMoves, Undisturbed, NoRow, Terminal
  <2> QED BY <2>1, <2>2
<1>7. ASSUME NEW j \in Jobs, Cancel(j)
      PROVE LedgerMoves(i)
  <2>1. CASE i # j
    BY <1>7, <2>1, Untouched DEF Cancel, TypeOK
  <2>2. CASE i = j /\ row' = [row EXCEPT ![j] = [@ EXCEPT !.cancelRequested = TRUE]]
                   /\ row[j].state = "running"
    BY <1>0, <1>7, <2>2 DEF Cancel, TypeOK, Row, LedgerMoves, Undisturbed
  <2>3. CASE i = j /\ row' = [row EXCEPT ![j] = [@ EXCEPT !.state = "cancelled"]]
                   /\ row[j].state \in Queued
    BY <1>0, <1>7, <2>3 DEF Cancel, TypeOK, Row, LedgerMoves, Undisturbed, Queued, NoRow
  <2> QED BY <1>7, <2>1, <2>2, <2>3 DEF Cancel
<1>8. ASSUME NEW j \in Jobs, Delete(j)
      PROVE LedgerMoves(i)
  <2>1. CASE i # j
    BY <1>8, <2>1, Untouched DEF Delete, TypeOK
  <2> QED BY <1>8, <2>1 DEF Delete, NewRow, TypeOK, LedgerMoves, Dropped
<1>9. ASSUME NEW D \in SUBSET claims, Drop(D)
      PROVE LedgerMoves(i)
  BY <1>9, Untouched DEF Drop
<1>10. CASE Tick
  BY <1>10, Untouched DEF Tick
<1>11. CASE UNCHANGED vars
  BY <1>11, Untouched DEF vars
<1> QED
  BY <1>1, <1>2, <1>3, <1>4, <1>5, <1>6, <1>7, <1>8, <1>9, <1>10, <1>11 DEF Next

-----------------------------------------------------------------------------
(* One outcome per lease. *)

\* An entry ends a lease that was granted, and the lease that is running has none.
LedgerBounded ==
  \A j \in Jobs :
    /\ \A n \in 1 .. Len(ledger[j]) :
         /\ ledger[j][n].lease <= leases[j]
         /\ row[j].state = "running" => ledger[j][n].lease < leases[j]
    /\ row[j].state = "unused" => ledger[j] = <<>>

LEMMA ElementType ==
  ASSUME NEW S, NEW s \in Seq(S)
  PROVE  \A n \in 1 .. Len(s) : s[n] \in S
OBVIOUS

LEMMA OneOutcomeStep ==
  TypeOK /\ OneOutcomePerLease /\ LedgerBounded /\ [Next]_vars => (OneOutcomePerLease /\ LedgerBounded)'
<1> SUFFICES ASSUME TypeOK, OneOutcomePerLease, LedgerBounded, [Next]_vars, NEW j \in Jobs
             PROVE  /\ \A m, n \in 1 .. Len(ledger'[j]) : m < n => ledger'[j][m].lease < ledger'[j][n].lease
                    /\ \A n \in 1 .. Len(ledger'[j]) :
                         /\ ledger'[j][n].lease <= leases'[j]
                         /\ row'[j].state = "running" => ledger'[j][n].lease < leases'[j]
                    /\ row'[j].state = "unused" => ledger'[j] = <<>>
  BY DEF OneOutcomePerLease, LedgerBounded
<1> DEFINE L == ledger[j]
<1>1. /\ \A m, n \in 1 .. Len(L) : m < n => L[m].lease < L[n].lease
      /\ \A n \in 1 .. Len(L) : /\ L[n].lease <= leases[j]
                                /\ row[j].state = "running" => L[n].lease < leases[j]
      /\ row[j].state = "unused" => L = <<>>
      /\ L \in Seq([attempt : Nat, lease : Nat]) /\ leases[j] \in Nat /\ row[j] \in Row
      /\ \A n \in 1 .. Len(L) : L[n].lease \in Nat
  <2>1. L \in Seq([attempt : Nat, lease : Nat]) /\ leases[j] \in Nat /\ row[j] \in Row
    BY DEF TypeOK
  <2>2. \A n \in 1 .. Len(L) : L[n] \in [attempt : Nat, lease : Nat]
    BY <2>1, ElementType, Zenon
  <2>3. \A m, n \in 1 .. Len(L) : m < n => L[m].lease < L[n].lease
    BY DEF OneOutcomePerLease
  <2>4. /\ \A n \in 1 .. Len(L) : /\ L[n].lease <= leases[j]
                                  /\ row[j].state = "running" => L[n].lease < leases[j]
        /\ row[j].state = "unused" => L = <<>>
    BY DEF LedgerBounded
  <2> HIDE DEF L
  <2> QED BY <2>1, <2>2, <2>3, <2>4
<1>2. LedgerMoves(j)
  BY LedgerStep
<1> HIDE DEF L
<1>3. CASE Undisturbed(j)
  BY <1>1, <1>3 DEF L, Undisturbed
<1>4. CASE Begun(j)
  BY <1>1, <1>4 DEF L, Begun, Queued
<1>5. ASSUME NEW w \in Workers, GrantedTo(j, w)
      PROVE  /\ \A m, n \in 1 .. Len(ledger'[j]) : m < n => ledger'[j][m].lease < ledger'[j][n].lease
             /\ \A n \in 1 .. Len(ledger'[j]) :
                  /\ ledger'[j][n].lease <= leases'[j]
                  /\ row'[j].state = "running" => ledger'[j][n].lease < leases'[j]
             /\ row'[j].state = "unused" => ledger'[j] = <<>>
  BY <1>1, <1>5 DEF L, GrantedTo
<1>6. CASE Released(j)
  BY <1>1, <1>6 DEF L, Released, Queued, Terminal
<1>7. ASSUME NEW a \in Nat, Ended(j, a)
      PROVE  /\ \A m, n \in 1 .. Len(ledger'[j]) : m < n => ledger'[j][m].lease < ledger'[j][n].lease
             /\ \A n \in 1 .. Len(ledger'[j]) :
                  /\ ledger'[j][n].lease <= leases'[j]
                  /\ row'[j].state = "running" => ledger'[j][n].lease < leases'[j]
             /\ row'[j].state = "unused" => ledger'[j] = <<>>
  <2> DEFINE e == Entry(j, a)
  <2>1. ledger'[j] = Append(L, e) /\ e.lease = leases[j] /\ leases'[j] = leases[j]
    BY <1>7 DEF L, Ended, Entry
  <2>2. row[j].state = "running" /\ row'[j].state \notin {"running", "unused"}
    BY <1>7 DEF Ended, Queued, Terminal
  <2> HIDE DEF e
  <2>3. Len(Append(L, e)) = Len(L) + 1 /\ Len(L) \in Nat
    BY <1>1
  <2>4. \A n \in 1 .. Len(L) : Append(L, e)[n] = L[n]
    BY <1>1
  <2>5. Append(L, e)[Len(L) + 1] = e
    BY <1>1
  <2>6. \A n \in 1 .. Len(L) + 1 : n \in 1 .. Len(L) \/ n = Len(L) + 1
    BY <2>3
  <2>7. \A n \in 1 .. Len(L) + 1 : Append(L, e)[n].lease <= leases[j]
    BY <1>1, <2>1, <2>4, <2>5, <2>6
  <2>8. ASSUME NEW m \in 1 .. Len(L) + 1, NEW n \in 1 .. Len(L) + 1, m < n
        PROVE  Append(L, e)[m].lease < Append(L, e)[n].lease
    <3>1. m \in 1 .. Len(L)
      BY <2>3, <2>8
    <3>2. CASE n \in 1 .. Len(L)
      BY <1>1, <2>4, <2>8, <3>1, <3>2
    <3>3. CASE n = Len(L) + 1
      BY <1>1, <2>1, <2>2, <2>4, <2>5, <3>1, <3>3
    <3> QED BY <2>6, <3>2, <3>3
  <2> QED BY <2>1, <2>2, <2>3, <2>7, <2>8
<1>8. CASE Dropped(j)
  BY <1>8 DEF Dropped
<1> QED BY <1>2, <1>3, <1>4, <1>5, <1>6, <1>7, <1>8 DEF LedgerMoves

\* However many claims of a lease pass the ownership test of Complete, and whatever
\* SweepExpired does meanwhile, a lease gets one entry of the ledger at most.
THEOREM OneOutcome == Spec => []OneOutcomePerLease
<1>1. Init => OneOutcomePerLease /\ LedgerBounded
  BY DEF Init, OneOutcomePerLease, LedgerBounded
<1> QED BY <1>1, TypeCorrect, OneOutcomeStep, PTL DEF Spec

-----------------------------------------------------------------------------
(* Attempts are numbered without a gap until a worker is leased a job back. *)

\* What a claim of a lease that still runs knows of its job is what the row says.
ClaimsCurrent ==
  \A c \in claims :
    /\ c.lease <= leases[c.job]
    /\ Owns(c) => c.lease = leases[c.job] /\ c.attempt = row[c.job].attempt

LEMMA NewClaim ==
  ASSUME TypeOK, [Next]_vars, NEW c \in claims', c \notin claims
  PROVE  /\ c \in Claimed /\ c.job \in Jobs /\ GrantedTo(c.job, c.worker)
         /\ c.attempt = row[c.job].attempt /\ c.lease = leases[c.job] + 1
<1>1. PICK w \in Workers, t \in Readings, delivered \in BOOLEAN :
        \E C \in SUBSET Eligible(w, t), limit \in Limits, ql \in QueueLimits :
          Claim(w, C, limit, ql, t, delivered)
  BY Zenon DEF Next, vars, Insert, Heartbeat, Complete, SweepExpired, Retry, Cancel, Delete, Drop, Tick
<1>2. PICK C \in SUBSET Eligible(w, t), limit \in Limits, ql \in QueueLimits :
        Claim(w, C, limit, ql, t, delivered)
  BY <1>1
<1>3. PICK j \in C : c = ClaimOf(j, w)
  BY <1>2 DEF Claim
<1>4. /\ j \in Jobs /\ row[j].state \in Queued /\ row'[j] = Leased(row[j], w, t)
      /\ ledger'[j] = ledger[j] /\ leases'[j] = leases[j] + 1
  BY <1>2, ColumnsAssumption DEF Claim, Eligible
<1>5. /\ c.job = j /\ c.attempt = row[j].attempt /\ c.worker = w /\ c.lease = leases[j] + 1
  BY <1>3 DEF ClaimOf
<1>6. row[j] \in Row
  BY <1>4 DEF TypeOK
<1>7. row'[j].state = "running" /\ row'[j].attempt = row[j].attempt /\ row'[j].lockedBy = w
  BY <1>4, <1>6 DEF Leased, Row
<1>8. c \in Claimed
  BY TypeStep DEF TypeOK
<1> QED BY <1>4, <1>5, <1>7, <1>8 DEF GrantedTo

LEMMA ClaimsCurrentStep ==
  ASSUME TypeOK, ClaimsCurrent, [Next]_vars, NoReclaim
  PROVE  ClaimsCurrent'
<1> SUFFICES ASSUME NEW c \in claims'
             PROVE  /\ c.lease <= leases'[c.job]
                    /\ Owns(c)' => c.lease = leases'[c.job] /\ c.attempt = row'[c.job].attempt
  BY DEF ClaimsCurrent
<1>1. CASE c \notin claims
  <2>1. c \in Claimed /\ c.job \in Jobs /\ leases[c.job] \in Nat
    BY <1>1, NewClaim DEF TypeOK
  <2> QED BY <1>1, <2>1, NewClaim DEF GrantedTo
<1>2. CASE c \in claims
  <2> DEFINE j == c.job
  <2>1. /\ j \in Jobs /\ c.lease \in Nat /\ leases[j] \in Nat /\ c.lease <= leases[j]
        /\ Owns(c) => c.lease = leases[j] /\ c.attempt = row[j].attempt
    BY <1>2 DEF ClaimsCurrent, TypeOK, Claimed
  <2>2. LedgerMoves(j)
    BY <2>1, LedgerStep
  <2>3. leases'[j] # leases[j] => row'[j].lockedBy # c.worker
    BY <1>2 DEF NoReclaim
  <2>4. leases'[j] = leases[j] \/ leases'[j] = leases[j] + 1
    BY <2>2 DEF LedgerMoves, Undisturbed, Begun, GrantedTo, Released, Ended, Dropped
  <2>5. ASSUME Owns(c)' PROVE Undisturbed(j)
    <3>1. row'[j].state = "running" /\ row'[j].lockedBy = c.worker
      BY <2>5 DEF Owns
    <3>2. ~Begun(j) /\ ~Released(j) /\ ~Dropped(j) /\ \A a \in Nat : ~Ended(j, a)
      BY <3>1 DEF Begun, Released, Dropped, Ended, Queued, Terminal
    <3>3. \A w \in Workers : ~GrantedTo(j, w)
      BY <2>1, <2>3, <3>1 DEF GrantedTo
    <3> QED BY <2>2, <3>2, <3>3 DEF LedgerMoves
  <2>6. ASSUME Owns(c)' PROVE Owns(c) /\ leases'[j] = leases[j] /\ row'[j].attempt = row[j].attempt
    BY <2>5, <2>6 DEF Undisturbed, Owns
  <2> QED BY <2>1, <2>4, <2>6
<1> QED BY <1>1, <1>2

LEMMA GaplessStep ==
  ASSUME TypeOK, LedgerBounded, ClaimsCurrent, LedgerGapless, [Next]_vars
  PROVE  LedgerGapless'
<1> SUFFICES ASSUME NEW j \in Jobs
             PROVE  /\ Len(ledger'[j]) = row'[j].attempt \/ row'[j].state \in NoRow
                    /\ \A n \in 1 .. Len(ledger'[j]) : ledger'[j][n].attempt = n
  BY DEF LedgerGapless
<1> DEFINE L == ledger[j]
<1>1. /\ Len(L) = row[j].attempt \/ row[j].state \in NoRow
      /\ \A n \in 1 .. Len(L) : L[n].attempt = n
      /\ row[j].state = "unused" => L = <<>>
      /\ L \in Seq([attempt : Nat, lease : Nat])
  BY DEF LedgerGapless, LedgerBounded, TypeOK
<1>2. LedgerMoves(j)
  BY LedgerStep
<1> HIDE DEF L
<1>3. CASE Undisturbed(j)
  BY <1>1, <1>3 DEF L, Undisturbed
<1>4. CASE Begun(j)
  BY <1>1, <1>4 DEF L, Begun
<1>5. ASSUME NEW w \in Workers, GrantedTo(j, w)
      PROVE  /\ Len(ledger'[j]) = row'[j].attempt
             /\ \A n \in 1 .. Len(ledger'[j]) : ledger'[j][n].attempt = n
  BY <1>1, <1>5 DEF L, GrantedTo, Queued, NoRow
<1>6. CASE Released(j)
  BY <1>1, <1>6 DEF L, Released, NoRow
<1>7. ASSUME NEW a \in Nat, Ended(j, a), Numbered(j, a)
      PROVE  /\ Len(ledger'[j]) = row'[j].attempt
             /\ \A n \in 1 .. Len(ledger'[j]) : ledger'[j][n].attempt = n
  <2> DEFINE e == Entry(j, a)
  <2>1. ledger'[j] = Append(L, e) /\ e.attempt = a /\ row'[j].attempt = a
    BY <1>7 DEF L, Ended, Entry
  <2>2. Len(L) = row[j].attempt
    BY <1>1, <1>7 DEF Ended, NoRow
  <2>3. a = Len(L) + 1
    BY <1>7, <2>2 DEF Numbered, ClaimsCurrent
  <2> HIDE DEF e
  <2>4. Len(Append(L, e)) = Len(L) + 1 /\ Len(L) \in Nat
    BY <1>1
  <2>5. \A n \in 1 .. Len(L) : Append(L, e)[n] = L[n]
    BY <1>1
  <2>6. Append(L, e)[Len(L) + 1] = e
    BY <1>1
  <2>7. \A n \in 1 .. Len(L) + 1 : n \in 1 .. Len(L) \/ n = Len(L) + 1
    BY <2>4
  <2> QED BY <1>1, <2>1, <2>3, <2>4, <2>5, <2>6, <2>7
<1>8. CASE Dropped(j)
  BY <1>8 DEF Dropped, NoRow
<1> QED BY <1>2, <1>3, <1>4, <1>5, <1>6, <1>7, <1>8 DEF LedgerMoves

\* Until a worker is leased back a job of which it still holds a claim, Heartbeat and
\* Complete accept claims of the current lease only and the ledger numbers the
\* attempts without a gap; and always, a lease gets one outcome at most.
THEOREM LedgerAlwaysExact == MCSpec => []LedgerExact
<1> DEFINE Inv == /\ TypeOK /\ OneOutcomePerLease /\ LedgerBounded
                  /\ ~reclaimed => ClaimsCurrent /\ LedgerGapless
<1>1. MCInit => Inv
  BY TypeInit DEF MCInit, Init, OneOutcomePerLease, LedgerBounded, ClaimsCurrent, LedgerGapless, NewRow, NoRow
<1>2. Inv /\ [MCNext]_mcVars => Inv'
  <2> SUFFICES ASSUME Inv, [MCNext]_mcVars PROVE Inv'
    OBVIOUS
  <2>1. [Next]_vars /\ (TypeOK /\ OneOutcomePerLease /\ LedgerBounded)'
    BY TypeStep, OneOutcomeStep DEF MCNext, mcVars
  <2>2. ASSUME ~reclaimed' PROVE (ClaimsCurrent /\ LedgerGapless)'
    <3>1. CASE MCNext
      <4>1. ~reclaimed /\ NoReclaim
        BY <2>2, <3>1, Zenon DEF MCNext
      <4> QED BY <2>1, <4>1, ClaimsCurrentStep, GaplessStep
    <3>2. CASE UNCHANGED mcVars
      BY <2>2, <3>2 DEF mcVars, vars, ClaimsCurrent, LedgerGapless, Owns
    <3> QED BY <3>1, <3>2
  <2> QED BY <2>1, <2>2
<1>3. Inv => LedgerExact
  BY DEF LedgerExact, OwnsUntilReclaimed, GaplessUntilReclaimed, OwnsCurrentLease, ClaimsCurrent
<1> QED BY <1>1, <1>2, <1>3, PTL DEF MCSpec

-----------------------------------------------------------------------------
(* How a lease ends. *)

LEMMA LeaseEndsStep == TypeOK /\ [Next]_vars => [LeaseEnds]_vars
<1> SUFFICES ASSUME TypeOK, Next, NEW j \in Jobs
             PROVE  /\ row[j].state = "running" /\ row'[j].state # "running" =>
                         \/ row[j].lockedUntil <= now
                         \/ \E c \in claims : c.job = j /\ c.worker = row[j].lockedBy
                    /\ row[j].state \in Terminal /\ row'[j].state # row[j].state =>
                         \/ row'[j].state = "deleted"
                         \/ row'[j].state = "available" /\ row[j].state # "succeeded"
  BY DEF LeaseEnds, LeaseRespected, TerminalFinal
<1>0. row[j] \in Row /\ Moves(j)
  BY RowMoves DEF TypeOK
<1>1. ASSUME row[j].state \in Terminal, row'[j].state # row[j].state
      PROVE  \/ row'[j].state = "deleted"
             \/ row'[j].state = "available" /\ row[j].state # "succeeded"
  <2>1. row[j].state \notin Queued \cup {"running", "unused"}
    BY <1>1 DEF Terminal, Queued
  <2>2. ~Enqueued(j) /\ ~Granted(j) /\ ~Kept(j) /\ ~Expiring(j) /\ ~Dequeued(j)
    BY <2>1 DEF Enqueued, Granted, Kept, Expiring, Dequeued
  <2>3. ~Finished(j)
    BY <2>1, FinishedFields
  <2>4. CASE Reviving(j)
    BY <1>0, <2>4, RevivedFields, Zenon DEF Reviving
  <2>5. CASE Removed(j)
    BY <2>5 DEF Removed
  <2> QED BY <1>0, <1>1, <2>2, <2>3, <2>4, <2>5 DEF Moves
<1>2. ASSUME row[j].state = "running", row'[j].state # "running"
      PROVE  row[j].lockedUntil <= now \/ \E c \in claims : c.job = j /\ c.worker = row[j].lockedBy
  <2>1. row'[j] # row[j] /\ row[j].state \notin Queued \cup Terminal \cup {"unused"}
    BY <1>2 DEF Queued, Terminal
  <2>2. ASSUME NEW c \in claims, NEW o, Complete(c, o)
        PROVE  c.job = j /\ c.worker = row[j].lockedBy
    BY <2>1, <2>2 DEF Complete, Owns, TypeOK
  <2>3. ASSUME NEW t \in Readings, SweepExpired(t)
        PROVE  row[j].lockedUntil <= now
    <3>1. j \in Expired(t)
      BY <1>2, <2>3 DEF SweepExpired
    <3>2. row[j].lockedUntil <= t /\ t <= now /\ t \in Nat /\ row[j].lockedUntil \in Nat /\ now \in Nat
      BY <1>0, <3>1, ReadingsNat DEF Expired, Readings, TypeOK, Row
    <3> QED BY <3>2
  <2>4. ASSUME NEW B \in SUBSET Jobs, NEW at, NEW t, Insert(B, at, t) PROVE FALSE
    BY <2>1, <2>4 DEF Insert
  <2>5. ASSUME NEW w, NEW t, NEW C \in SUBSET Eligible(w, t), NEW limit, NEW ql, NEW delivered,
               Claim(w, C, limit, ql, t, delivered)
        PROVE  FALSE
    BY <2>1, <2>5 DEF Claim, Eligible
  <2>6. ASSUME NEW c \in claims, NEW t, Heartbeat(c, t) PROVE FALSE
    BY <1>0, <1>2, <2>6 DEF Heartbeat, TypeOK, Row
  <2>7. ASSUME NEW k \in Jobs, NEW t, Retry(k, t) PROVE FALSE
    BY <2>1, <2>7 DEF Retry, TypeOK
  <2>8. ASSUME NEW k \in Jobs, Cancel(k) \/ Delete(k) PROVE FALSE
    BY <1>0, <1>2, <2>1, <2>8 DEF Cancel, Delete, TypeOK, Row
  <2>9. ASSUME Tick \/ \E D \in SUBSET claims : Drop(D) PROVE FALSE
    BY <2>1, <2>9 DEF Tick, Drop
  <2> QED
    BY <2>2, <2>3, <2>4, <2>5, <2>6, <2>7, <2>8, <2>9 DEF Next
<1> QED BY <1>1, <1>2

\* A lease ends before its deadline only by a call of the worker that holds it, and a
\* finished job changes only by Retry or Delete: the late calls of Complete and
\* SweepExpired change nothing.
THEOREM LeasesEndOnceOnly == Spec => LeasesEndOnce
BY TypeCorrect, LeaseEndsStep, PTL DEF Spec, LeasesEndOnce

-----------------------------------------------------------------------------
(* The order of claims. *)

\* The loop of Claim that takes a job takes every candidate of its queue that comes
\* before it: the two limits leave room for it.
LEMMA TakenInOrder ==
  ASSUME TypeOK, NEW cands \in SUBSET Jobs, NEW C \in SUBSET cands, IsFiniteSet(C),
         NEW limit \in Nat, NEW ql, \A q \in DOMAIN ql : ql[q] \in Nat,
         Taken(C, cands, limit, ql),
         NEW i \in cands, NEW j \in C, Before(i, j), Queue[i] = Queue[j]
  PROVE  i \in C
<1> DEFINE ei == {k \in C : Before(k, i)}
           ej == {k \in C : Before(k, j)}
           qi == {k \in ei : Queue[k] = Queue[i]}
           qj == {k \in ej : Queue[k] = Queue[j]}
<1>1. \A k \in Jobs : k \in Nat /\ Priority[k] \in Int /\ row[k].availableAt \in Nat
  BY JobsAssumption, ColumnsAssumption DEF TypeOK, Row
<1>2. ei \subseteq ej
  <2> SUFFICES ASSUME NEW k \in C, Before(k, i) PROVE Before(k, j)
    OBVIOUS
  <2> QED BY <1>1 DEF Before
<1>3. qi \subseteq qj
  BY <1>2
<1>4. IsFiniteSet(ej) /\ IsFiniteSet(qj)
  BY FS_Subset
<1>5. /\ Cardinality(ei) <= Cardinality(ej) /\ Cardinality(qi) <= Cardinality(qj)
      /\ Cardinality(ei) \in Nat /\ Cardinality(qi) \in Nat /\ Cardinality(ej) \in Nat /\ Cardinality(qj) \in Nat
  BY <1>2, <1>3, <1>4, FS_Subset, FS_CardinalityType
<1>6. /\ Cardinality(ej) < limit
      /\ Queue[j] \in DOMAIN ql => Cardinality(qj) < ql[Queue[j]]
  BY DEF Taken
<1>7. /\ Cardinality(ei) < limit
      /\ Queue[i] \in DOMAIN ql => Cardinality(qi) < ql[Queue[i]]
  <2> HIDE DEF ei, ej, qi, qj
  <2> QED BY <1>5, <1>6
<1> QED BY <1>7 DEF Taken

\* Claim never passes over a job that is due no later, with no lower priority, in the
\* same queue and for the same worker, whatever limits the worker asks with.
THEOREM ClaimsInOrder ==
  ASSUME IsFiniteSet(Jobs)
  PROVE  Spec => NoOvertaking
<1> DEFINE Ahead(i, j) ==
             /\ Queue[i] = Queue[j] /\ Priority[i] >= Priority[j]
             /\ leases'[j] # leases[j] /\ i \in Serves[row'[j].lockedBy]
             /\ row[i].state \in Queued /\ row[i].availableAt <= row[j].availableAt
             /\ Priority[i] > Priority[j] \/ row[i].availableAt < row[j].availableAt \/ i < j
<1>1. ASSUME TypeOK, Next, NEW i \in Jobs, NEW j \in Jobs, Ahead(i, j)
      PROVE  leases'[i] # leases[i]
  <2>1. PICK w \in Workers, t \in Readings, delivered \in BOOLEAN :
          \E C \in SUBSET Eligible(w, t), limit \in Limits, ql \in QueueLimits :
            Claim(w, C, limit, ql, t, delivered)
    BY <1>1, Zenon DEF Next, Insert, Heartbeat, Complete, SweepExpired, Retry, Cancel, Delete, Drop, Tick
  <2>2. PICK C \in SUBSET Eligible(w, t), limit \in Limits, ql \in QueueLimits :
          Claim(w, C, limit, ql, t, delivered)
    BY <2>1
  <2>3. j \in C /\ row'[j] = Leased(row[j], w, t) /\ row[j] \in Row /\ row[i] \in Row
    BY <1>1, <2>2 DEF Claim, TypeOK
  <2>4. row'[j].lockedBy = w
    BY <2>3 DEF Leased, Row
  <2>5. i \in Eligible(w, t)
    <3>1. row[j].availableAt <= t /\ t \in Nat /\ row[i].availableAt \in Nat /\ row[j].availableAt \in Nat
      BY <1>1, <2>3, ReadingsNat DEF Eligible, TypeOK, Row
    <3> QED BY <1>1, <2>4, <3>1 DEF Eligible
  <2>6. Before(i, j)
    BY <1>1, <2>3, JobsAssumption, ColumnsAssumption DEF Before, Row
  <2>7. Eligible(w, t) \subseteq Jobs /\ IsFiniteSet(C)
    <3>1. Eligible(w, t) \subseteq Jobs
      BY ColumnsAssumption DEF Eligible
    <3> QED BY <3>1, FS_Subset
  <2>8. limit \in Nat /\ \A q \in DOMAIN ql : ql[q] \in Nat
    <3>1. PICK Q \in SUBSET {Queue[k] : k \in Jobs} : ql \in [Q -> Limits \cup {0}]
      BY DEF QueueLimits
    <3>2. Limits \cup {0} \subseteq Nat
      BY TimeAssumption
    <3> QED BY <3>1, <3>2
  <2>9. i \in C
    BY <1>1, <2>2, <2>3, <2>5, <2>6, <2>7, <2>8, TakenInOrder, SMTT(30) DEF Claim
  <2>10. leases'[i] = leases[i] + 1 /\ leases[i] \in Nat
    BY <1>1, <2>2, <2>9 DEF Claim, TypeOK
  <2> QED BY <2>10
<1>2. TypeOK /\ [Next]_vars => [\A i, j \in Jobs : Ahead(i, j) => leases'[i] # leases[i]]_vars
  BY <1>1
<1> QED BY <1>2, TypeCorrect, PTL DEF Spec, NoOvertaking
=============================================================================
