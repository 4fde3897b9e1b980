--------------------------- MODULE JobStoreProofs ---------------------------
(***************************************************************************)
(* What JobStore promises for every set of jobs and workers.               *)
(***************************************************************************)
EXTENDS JobStore, TLAPS

LEMMA ReadingsNat == ASSUME now \in Nat PROVE Readings \subseteq Nat
BY DEF Readings

LEMMA OutcomesType ==
  ASSUME NEW c \in Claimed, NEW t \in Nat
  PROVE Outcomes(c, t) \subseteq Outcome
<1>1. c.attempt \in Nat /\ c.attempt + 1 \in Nat
  BY DEF Claimed
<1>2. \A d \in Delays : t + d \in Nat
  BY TimeAssumption
<1> SUFFICES ASSUME NEW o \in Outcomes(c, t) PROVE o \in Outcome
  OBVIOUS
<1> DEFINE n == c.attempt + 1
<1>3. ASSUME NEW s \in Terminal,
             o = [state |-> s, attempt |-> n, record |-> TRUE, availableAt |-> 0]
      PROVE o \in Outcome
  BY <1>1, <1>3 DEF Outcome
<1>4. ASSUME NEW d \in Delays,
             o = [state |-> "pending", attempt |-> n, record |-> TRUE, availableAt |-> t + d]
      PROVE o \in Outcome
  BY <1>1, <1>2, <1>4 DEF Outcome, Queued
<1>5. CASE o = [state |-> "available", attempt |-> c.attempt, record |-> FALSE,
                availableAt |-> t]
  BY <1>1, <1>5 DEF Outcome, Queued
<1> QED BY <1>3, <1>4, <1>5 DEF Outcomes

LEMMA ResolveType ==
  ASSUME NEW r \in Row, NEW o \in Outcome
  PROVE Resolve(r, o) \in Outcome
<1> DEFINE n == IF o.record THEN o.attempt ELSE r.attempt + 1
<1>1. n \in Nat
  BY DEF Row, Outcome
<1>2. Resolve(r, o) = IF ~r.cancelRequested THEN o
                      ELSE [o EXCEPT !.state = "cancelled", !.record = TRUE, !.attempt = n]
  BY DEF Resolve
<1> HIDE DEF n
<1> QED BY <1>1, <1>2 DEF Outcome, Terminal

LEMMA UnlockedType ==
  ASSUME NEW r \in Row, NEW s \in States
  PROVE Unlocked(r, s) \in Row
BY DEF Unlocked, Row

LEMMA SweptStateType ==
  ASSUME NEW r \in Row
  PROVE SweptState(r) \in {"cancelled", "discarded", "available"} /\ SweptState(r) \in States
BY DEF SweptState, States, Live, Queued, Terminal

LEMMA CountersType ==
  ASSUME NEW r \in Row, NEW n \in Nat, NEW t \in Nat
  PROVE [r EXCEPT !.attempt = n, !.availableAt = t] \in Row
BY DEF Row

LEMMA AppendType ==
  ASSUME NEW S, NEW s \in Seq(S), NEW e \in S
  PROVE Append(s, e) \in Seq(S)
OBVIOUS

LEMMA TypeInit == Init => TypeOK
BY ColumnsAssumption, JobsAssumption
   DEF Init, TypeOK, NewRow, Row, States, NoRow, Keys

LEMMA TypeStep == TypeOK /\ [Next]_vars => TypeOK'
<1> SUFFICES ASSUME TypeOK, [Next]_vars PROVE TypeOK'
  OBVIOUS
<1> USE DEF TypeOK
<1>0. /\ \A t \in Readings : t \in Nat
      /\ \A t \in 0 .. now : t \in Nat
      /\ \A t \in Nat : t + Lease \in Nat
      /\ \A t \in Nat, d \in Delays : t + d \in Nat
  BY ReadingsNat, TimeAssumption
<1>1. ASSUME NEW B \in SUBSET Jobs, NEW t \in Readings,
             NEW at \in [B -> {0} \cup {t + d : d \in Delays}], Insert(B, at, t)
      PROVE TypeOK'
  <2>1. \A j \in B : at[j] \in Nat
    <3>1. t \in Nat
      BY <1>0
    <3>2. {t + d : d \in Delays} \subseteq Nat
      BY <1>0, <3>1
    <3> DEFINE D == {t + d : d \in Delays}
    <3> HIDE DEF D, TypeOK
    <3> SUFFICES ASSUME NEW j \in B PROVE at[j] \in Nat
      OBVIOUS
    <3>3. at \in [B -> {0} \cup D]
      BY DEF D
    <3> QED BY <3>2, <3>3 DEF D
  <2>2. row' \in [Jobs -> Row]
    BY <1>1, <2>1, ColumnsAssumption
       DEF Insert, NewRow, Row, States, Live, Queued
  <2>3. uniq' \in [Keys -> Jobs \cup {NoJob}]
    <3> SUFFICES ASSUME NEW k \in Keys
                 PROVE (IF \E j \in B : Key[j] = k THEN CHOOSE j \in B : Key[j] = k ELSE uniq[k])
                         \in Jobs \cup {NoJob}
      BY <1>1 DEF Insert
    <3> QED OBVIOUS
  <2> QED BY <1>1, <2>2, <2>3 DEF Insert
<1>2. ASSUME NEW w \in Workers, NEW t \in Readings, NEW delivered \in BOOLEAN,
             NEW C \in SUBSET Eligible(w, t), NEW limit, NEW ql, Claim(w, C, limit, ql, t, delivered)
      PROVE TypeOK'
  <2>1. row' \in [Jobs -> Row]
    BY <1>0, <1>2 DEF Claim, Leased, Row, States, Live
  <2>2. C \subseteq Jobs
    BY ColumnsAssumption DEF Eligible
  <2>3. claims' \subseteq Claimed
    BY <1>2, <2>2 DEF Claim, ClaimOf, Claimed, Row
  <2> QED BY <1>2, <2>1, <2>3 DEF Claim
<1>3. ASSUME NEW c \in claims, NEW t \in Readings, Heartbeat(c, t)
      PROVE TypeOK'
  BY <1>0, <1>3 DEF Heartbeat, Row, Claimed
<1>4. ASSUME NEW c \in claims, NEW t \in 0 .. now, NEW o \in Outcomes(c, t), Complete(c, o)
      PROVE TypeOK'
  <2> DEFINE a == Resolve(row[c.job], o)
  <2>1. o \in Outcome /\ c.job \in Jobs /\ row[c.job] \in Row
    BY <1>0, OutcomesType DEF Claimed
  <2>2. a \in Outcome
    BY <2>1, ResolveType
  <2>3. Completed(row[c.job], a) \in Row
    BY <2>1, <2>2 DEF Completed, Unlocked, Row, Outcome, States, Live
  <2>4. row' \in [Jobs -> Row]
    BY <1>4, <2>1, <2>3 DEF Complete
  <2>5. ledger' \in [Jobs -> Seq([attempt : Nat, lease : Nat])]
    <3>1. Entry(c.job, a.attempt) \in [attempt : Nat, lease : Nat]
      BY <2>1, <2>2 DEF Entry, Outcome
    <3>2. Append(ledger[c.job], Entry(c.job, a.attempt)) \in Seq([attempt : Nat, lease : Nat])
      BY <2>1, <3>1, AppendType
    <3>3. ledger' = [ledger EXCEPT ![c.job] =
                       IF a.record THEN Append(@, Entry(c.job, a.attempt)) ELSE @]
      BY <1>4 DEF Complete
    <3> HIDE DEF a
    <3> QED BY <3>2, <3>3
  <2>6. uniq' \in [Keys -> Jobs \cup {NoJob}]
    BY <1>4 DEF Complete, freeUniq
  <2> QED BY <1>4, <2>4, <2>5, <2>6 DEF Complete
<1>5. ASSUME NEW t \in Readings, SweepExpired(t)
      PROVE TypeOK'
  <2>1. \A j \in Jobs : Swept(row[j], t) \in Row
    <3> SUFFICES ASSUME NEW j \in Jobs PROVE Swept(row[j], t) \in Row
      OBVIOUS
    <3>1. Unlocked(row[j], SweptState(row[j])) \in Row
      BY UnlockedType, SweptStateType
    <3>2. row[j].attempt + 1 \in Nat /\ row[j].availableAt \in Nat
      BY DEF Row
    <3>3. t \in Nat
      BY <1>0
    <3> QED BY <3>1, <3>2, <3>3, CountersType DEF Swept
  <2>2. row' \in [Jobs -> Row]
    BY <1>5, <2>1 DEF SweepExpired
  <2>3. \A j \in Jobs : Entry(j, row[j].attempt + 1) \in [attempt : Nat, lease : Nat]
    BY DEF Entry, Row
  <2>4. ledger' \in [Jobs -> Seq([attempt : Nat, lease : Nat])]
    <3>1. \A j \in Jobs : Append(ledger[j], Entry(j, row[j].attempt + 1))
                            \in Seq([attempt : Nat, lease : Nat])
      BY <2>3, AppendType
    <3> QED BY <1>5, <3>1 DEF SweepExpired
  <2>5. uniq' \in [Keys -> Jobs \cup {NoJob}]
    BY <1>5 DEF SweepExpired, freeUniq
  <2> QED BY <1>5, <2>2, <2>4, <2>5 DEF SweepExpired
<1>6. ASSUME NEW j \in Jobs, NEW t \in Readings, Retry(j, t)
      PROVE TypeOK'
  <2>1. Revived(row[j], t) \in Row
    <3> DEFINE r == Unlocked(row[j], "available")
               m == IF row[j].attempt >= row[j].maxAttempts
                    THEN row[j].attempt + 1 ELSE row[j].maxAttempts
    <3>1. r \in Row
      BY UnlockedType DEF States, Live, Queued
    <3>2. m \in Nat
      BY DEF Row
    <3>3. Revived(row[j], t) = [r EXCEPT !.maxAttempts = m, !.availableAt = t]
      BY DEF Revived
    <3> HIDE DEF r, m
    <3> QED BY <1>0, <3>1, <3>2, <3>3 DEF Row
  <2>4. row' \in [Jobs -> Row]
    BY <1>6, <2>1 DEF Retry
  <2>5. uniq' \in [Keys -> Jobs \cup {NoJob}]
    BY <1>6 DEF Retry
  <2> QED BY <1>6, <2>4, <2>5 DEF Retry
<1>7. ASSUME NEW j \in Jobs, Cancel(j)
      PROVE TypeOK'
  <2>1. row' \in [Jobs -> Row]
    <3>1. /\ [row[j] EXCEPT !.cancelRequested = TRUE] \in Row
          /\ [row[j] EXCEPT !.state = "cancelled"] \in Row
      BY DEF Row, States, Terminal
    <3> QED BY <1>7, <3>1 DEF Cancel
  <2>2. uniq' \in [Keys -> Jobs \cup {NoJob}]
    BY <1>7 DEF Cancel, freeUniq
  <2> QED BY <1>7, <2>1, <2>2 DEF Cancel
<1>8. ASSUME NEW j \in Jobs, Delete(j)
      PROVE TypeOK'
  <2>1. row' \in [Jobs -> Row]
    BY <1>8, ColumnsAssumption DEF Delete, NewRow, Row, States, NoRow
  <2>2. uniq' \in [Keys -> Jobs \cup {NoJob}]
    BY <1>8 DEF Delete, freeUniq
  <2>3. ledger' \in [Jobs -> Seq([attempt : Nat, lease : Nat])]
    BY <1>8 DEF Delete
  <2> QED BY <1>8, <2>1, <2>2, <2>3 DEF Delete
<1>9. ASSUME NEW D \in SUBSET claims, Drop(D)
      PROVE TypeOK'
  BY <1>9 DEF Drop
<1>10. CASE Tick
  BY <1>10 DEF Tick
<1>11. CASE UNCHANGED vars
  BY <1>11 DEF vars
<1> QED
  BY <1>1, <1>2, <1>3, <1>4, <1>5, <1>6, <1>7, <1>8, <1>9, <1>10, <1>11 DEF Next

\* Type correctness of the job table, for every caller history.
THEOREM TypeCorrect == Spec => []TypeOK
BY TypeInit, TypeStep, PTL DEF Spec

-----------------------------------------------------------------------------
(* What each operation writes into a row. *)

LEMMA UnlockedFields ==
  ASSUME NEW r \in Row, NEW s
  PROVE /\ Unlocked(r, s).state = s /\ Unlocked(r, s).lockedBy = NoWorker
        /\ Unlocked(r, s).lockedUntil = 0 /\ Unlocked(r, s).cancelRequested = FALSE
        /\ Unlocked(r, s).maxAttempts = r.maxAttempts /\ Unlocked(r, s).attempt = r.attempt
BY DEF Unlocked, Row

LEMMA CompletedFields ==
  ASSUME NEW r \in Row, NEW a \in Outcome
  PROVE LET n == Completed(r, a) IN
        /\ n.state = a.state /\ n.lockedBy = NoWorker /\ n.lockedUntil = 0
        /\ n.cancelRequested = FALSE /\ n.maxAttempts = r.maxAttempts
        /\ n.attempt = IF a.record THEN a.attempt ELSE r.attempt
BY DEF Completed, Unlocked, Row

LEMMA SweptFields ==
  ASSUME NEW r \in Row, NEW t
  PROVE LET n == Swept(r, t) IN
        /\ n.state = SweptState(r) /\ n.lockedBy = NoWorker /\ n.lockedUntil = 0
        /\ n.cancelRequested = FALSE /\ n.maxAttempts = r.maxAttempts
        /\ n.attempt = r.attempt + 1
<1> DEFINE u == Unlocked(r, SweptState(r))
<1>1. u \in Row
  BY SweptStateType, UnlockedType
<1>2. /\ u.state = SweptState(r) /\ u.lockedBy = NoWorker /\ u.lockedUntil = 0
      /\ u.cancelRequested = FALSE /\ u.maxAttempts = r.maxAttempts
  BY UnlockedFields
<1> HIDE DEF u
<1>3. Swept(r, t) = [u EXCEPT !.attempt = r.attempt + 1,
                       !.availableAt = IF SweptState(r) = "available" THEN t ELSE r.availableAt]
  BY DEF Swept, u
<1> QED BY <1>1, <1>2, <1>3 DEF Row

LEMMA RevivedFields ==
  ASSUME NEW r \in Row, NEW t
  PROVE LET n == Revived(r, t) IN
        /\ n.state = "available" /\ n.lockedBy = NoWorker /\ n.lockedUntil = 0
        /\ n.cancelRequested = FALSE /\ n.attempt = r.attempt
        /\ n.maxAttempts >= r.maxAttempts /\ n.attempt < n.maxAttempts
BY DEF Revived, Unlocked, Row

LEMMA LeasedFields ==
  ASSUME NEW r \in Row, NEW w, NEW t
  PROVE LET n == Leased(r, w, t) IN
        /\ n.state = "running" /\ n.lockedBy = w /\ n.lockedUntil = t + Lease
        /\ n.cancelRequested = r.cancelRequested /\ n.attempt = r.attempt
        /\ n.maxAttempts = r.maxAttempts
BY DEF Leased, Row

-----------------------------------------------------------------------------
(* The unique-key index. *)

LEMMA IndexInit == Init => UniqIndexExact
BY JobsAssumption DEF Init, UniqIndexExact, NewRow, Live, Queued

\* A step that ends the life of the jobs of S, and only of those, and frees their
\* index entries keeps the index exact.
LEMMA FreeKeepsIndex ==
  ASSUME TypeOK, UniqIndexExact, NEW S \in SUBSET Jobs,
         \A j \in S : row'[j].state \notin Live,
         \A j \in Jobs \ S : row'[j].state \in Live <=> row[j].state \in Live,
         uniq' = freeUniq(S)
  PROVE UniqIndexExact'
<1> SUFFICES ASSUME NEW k \in Keys, NEW j \in Jobs
             PROVE uniq'[k] = j <=> row'[j].state \in Live /\ Key[j] = k
  BY DEF UniqIndexExact
<1>1. uniq'[k] = IF uniq[k] \in S /\ Key[uniq[k]] = k THEN NoJob ELSE uniq[k]
  BY DEF freeUniq
<1>2. uniq[k] = j <=> row[j].state \in Live /\ Key[j] = k
  BY DEF UniqIndexExact
<1> QED BY <1>1, <1>2, JobsAssumption

\* So does a step that leaves the index and the set of live jobs alone.
LEMMA SameLiveKeepsIndex ==
  ASSUME UniqIndexExact, uniq' = uniq,
         \A j \in Jobs : row'[j].state \in Live <=> row[j].state \in Live
  PROVE UniqIndexExact'
BY DEF UniqIndexExact

LEMMA IndexStep == TypeOK /\ UniqIndexExact /\ [Next]_vars => UniqIndexExact'
<1> SUFFICES ASSUME TypeOK, UniqIndexExact, [Next]_vars PROVE UniqIndexExact'
  OBVIOUS
<1>1. ASSUME NEW B \in SUBSET Jobs, NEW t \in Readings,
             NEW at \in [B -> {0} \cup {t + d : d \in Delays}], Insert(B, at, t)
      PROVE UniqIndexExact'
  <2> SUFFICES ASSUME NEW k \in Keys, NEW j \in Jobs
               PROVE uniq'[k] = j <=> row'[j].state \in Live /\ Key[j] = k
    BY DEF UniqIndexExact
  <2>1. \A i \in B : row'[i].state \in Live /\ row[i].state \notin Live
    BY <1>1 DEF Insert, NewRow, Live, Queued
  <2>2. \A i \in Jobs \ B : row'[i] = row[i]
    BY <1>1 DEF Insert
  <2>3. uniq[k] = j <=> row[j].state \in Live /\ Key[j] = k
    BY DEF UniqIndexExact
  <2>4. CASE \E i \in B : Key[i] = k
    <3>1. PICK i \in B : Key[i] = k /\ uniq'[k] = i
      BY <1>1, <2>4 DEF Insert
    <3>2. ~HeldLive(k)
      BY <1>1, <3>1 DEF Insert
    <3>3. ~(row[j].state \in Live /\ Key[j] = k)
      BY <2>3, <3>2, JobsAssumption DEF HeldLive, Holder
    <3>4. j \in B /\ Key[j] = k => i = j
      BY <1>1, <3>1 DEF Insert
    <3> QED BY <2>1, <2>2, <3>1, <3>3, <3>4
  <2>5. CASE ~\E i \in B : Key[i] = k
    <3>1. uniq'[k] = uniq[k]
      BY <1>1, <2>5 DEF Insert
    <3> QED BY <2>1, <2>2, <2>3, <2>5, <3>1
  <2> QED BY <2>4, <2>5
<1>2. ASSUME NEW w \in Workers, NEW t \in Readings, NEW delivered \in BOOLEAN,
             NEW C \in SUBSET Eligible(w, t), NEW limit, NEW ql, Claim(w, C, limit, ql, t, delivered)
      PROVE UniqIndexExact'
  <2>1. \A j \in Jobs : row'[j].state \in Live <=> row[j].state \in Live
    BY <1>2, LeasedFields DEF TypeOK, Claim, Eligible, Live
  <2> QED BY <1>2, <2>1, SameLiveKeepsIndex DEF Claim
<1>3. ASSUME NEW c \in claims, NEW t \in Readings, Heartbeat(c, t)
      PROVE UniqIndexExact'
  <2>1. \A j \in Jobs : row'[j].state = row[j].state
    BY <1>3 DEF Heartbeat, TypeOK, Row
  <2> QED BY <1>3, <2>1, SameLiveKeepsIndex DEF Heartbeat
<1>4. ASSUME NEW c \in claims, NEW t \in 0 .. now, NEW o \in Outcomes(c, t), Complete(c, o)
      PROVE UniqIndexExact'
  <2> DEFINE a == Resolve(row[c.job], o)
  <2>1. c.job \in Jobs /\ row[c.job] \in Row /\ t \in Nat /\ c \in Claimed
    BY DEF TypeOK, Claimed
  <2>2. a \in Outcome
    BY <2>1, OutcomesType, ResolveType
  <2>3. row[c.job].state \in Live /\ row'[c.job].state = a.state
    BY <1>4, <2>1, <2>2, CompletedFields DEF TypeOK, Complete, Owns, Live
  <2>4. \A j \in Jobs \ {c.job} : row'[j] = row[j]
    BY <1>4 DEF TypeOK, Complete
  <2>5. uniq' = IF a.state \in Terminal THEN freeUniq({c.job}) ELSE uniq
    BY <1>4 DEF Complete
  <2> HIDE DEF a
  <2>6. CASE a.state \in Terminal
    BY <2>1, <2>3, <2>4, <2>5, <2>6, FreeKeepsIndex DEF Terminal, Live, Queued
  <2>7. CASE a.state \in Queued
    BY <2>1, <2>3, <2>4, <2>5, <2>7, SameLiveKeepsIndex DEF Terminal, Live, Queued
  <2> QED BY <2>2, <2>6, <2>7 DEF Outcome
<1>5. ASSUME NEW t \in Readings, SweepExpired(t)
      PROVE UniqIndexExact'
  <2> DEFINE S == {j \in Expired(t) : SweptState(row[j]) \in Terminal}
  <2>1. S \subseteq Jobs
    BY DEF Expired
  <2>2. \A j \in Jobs : row'[j] = IF j \in Expired(t) THEN Swept(row[j], t) ELSE row[j]
    BY <1>5 DEF SweepExpired
  <2>3. \A j \in Expired(t) : row[j].state \in Live /\ row'[j].state = SweptState(row[j])
    <3> SUFFICES ASSUME NEW j \in Expired(t)
                 PROVE row[j].state \in Live /\ row'[j].state = SweptState(row[j])
      OBVIOUS
    <3>1. j \in Jobs /\ row[j] \in Row /\ row[j].state = "running"
      BY DEF Expired, TypeOK
    <3>2. Swept(row[j], t).state = SweptState(row[j])
      BY <3>1, SweptFields
    <3> QED BY <2>2, <3>1, <3>2 DEF Live
  <2>4. \A j \in Expired(t) : SweptState(row[j]) \in Terminal \/ SweptState(row[j]) = "available"
    BY SweptStateType DEF Terminal, Expired, TypeOK
  <2>5. \A j \in S : row'[j].state \notin Live
    BY <2>3 DEF Terminal, Live, Queued
  <2>6. \A j \in Jobs \ S : row'[j].state \in Live <=> row[j].state \in Live
    BY <2>2, <2>3, <2>4 DEF Live, Queued
  <2>7. uniq' = freeUniq(S)
    BY <1>5 DEF SweepExpired
  <2> HIDE DEF S
  <2> QED BY <2>1, <2>5, <2>6, <2>7, FreeKeepsIndex
<1>6. ASSUME NEW j \in Jobs, NEW t \in Readings, Retry(j, t)
      PROVE UniqIndexExact'
  <2>1. row'[j].state \in Live /\ row[j].state \notin Live
    BY <1>6, RevivedFields DEF Retry, TypeOK, Live, Queued, Terminal
  <2>2. \A i \in Jobs \ {j} : row'[i] = row[i]
    BY <1>6 DEF Retry, TypeOK
  <2> SUFFICES ASSUME NEW k \in Keys, NEW i \in Jobs
               PROVE uniq'[k] = i <=> row'[i].state \in Live /\ Key[i] = k
    BY DEF UniqIndexExact
  <2>3. uniq[k] = i <=> row[i].state \in Live /\ Key[i] = k
    BY DEF UniqIndexExact
  <2>4. CASE Key[j] = k
    <3>1. uniq'[k] = j
      BY <1>6, <2>4 DEF Retry, TypeOK
    <3>2. i # j => ~(row[i].state \in Live /\ Key[i] = k)
      BY <1>6, <2>3, <2>4, JobsAssumption DEF Retry, HeldLive, Holder
    <3> QED BY <2>1, <2>2, <2>4, <3>1, <3>2
  <2>5. CASE Key[j] # k
    <3>1. uniq'[k] = uniq[k]
      BY <1>6, <2>5 DEF Retry, TypeOK
    <3> QED BY <2>1, <2>2, <2>3, <2>5, <3>1
  <2> QED BY <2>4, <2>5
<1>7. ASSUME NEW j \in Jobs, Cancel(j)
      PROVE UniqIndexExact'
  <2>1. CASE row[j].state = "running"
    <3>1. uniq' = uniq /\ row' = [row EXCEPT ![j] = [@ EXCEPT !.cancelRequested = TRUE]]
      BY <1>7, <2>1 DEF Cancel, Queued
    <3>2. \A i \in Jobs : row'[i].state = row[i].state
      BY <3>1 DEF TypeOK, Row
    <3> QED BY <3>1, <3>2, SameLiveKeepsIndex
  <2>2. CASE row[j].state \in Queued
    <3>1. uniq' = freeUniq({j}) /\ row' = [row EXCEPT ![j] = [@ EXCEPT !.state = "cancelled"]]
      BY <1>7, <2>2 DEF Cancel, Queued
    <3>2. row'[j].state = "cancelled" /\ \A i \in Jobs \ {j} : row'[i] = row[i]
      BY <3>1 DEF TypeOK, Row
    <3> QED BY <3>1, <3>2, FreeKeepsIndex DEF Live, Queued
  <2> QED BY <1>7, <2>1, <2>2 DEF Cancel
<1>8. ASSUME NEW j \in Jobs, Delete(j)
      PROVE UniqIndexExact'
  <2>1. row'[j].state = "deleted" /\ \A i \in Jobs \ {j} : row'[i] = row[i]
    BY <1>8 DEF Delete, NewRow, TypeOK
  <2> QED BY <1>8, <2>1, FreeKeepsIndex DEF Delete, Live, Queued
<1>9. ASSUME NEW D \in SUBSET claims, Drop(D)
      PROVE UniqIndexExact'
  BY <1>9, SameLiveKeepsIndex DEF Drop
<1>10. CASE Tick
  BY <1>10, SameLiveKeepsIndex DEF Tick
<1>11. CASE UNCHANGED vars
  BY <1>11, SameLiveKeepsIndex DEF vars
<1> QED
  BY <1>1, <1>2, <1>3, <1>4, <1>5, <1>6, <1>7, <1>8, <1>9, <1>10, <1>11 DEF Next

\* The index maintained by insertLocked, freeUniq and Retry names exactly the live
\* keyed jobs, in every reachable state of every job table.
THEOREM IndexExact == Spec => []UniqIndexExact
BY TypeCorrect, IndexInit, IndexStep, PTL DEF Spec

\* Hence no two live jobs ever share a unique key: Insert and Retry dedupe soundly.
THEOREM LiveKeysUnique == Spec => []UniqueLive
<1>1. UniqIndexExact => UniqueLive
  BY DEF UniqIndexExact, UniqueLive
<1> QED BY <1>1, IndexExact, PTL

-----------------------------------------------------------------------------
(* How one row may move in one step: the other invariants need no more. *)

Enqueued(j) ==
  /\ row[j].state = "unused" /\ row'[j].state \in Queued
  /\ row'[j].attempt = 0 /\ row'[j].maxAttempts > 0
  /\ row'[j].lockedBy = NoWorker /\ row'[j].lockedUntil = 0 /\ row'[j].cancelRequested = FALSE

Granted(j) ==
  /\ row[j].state \in Queued /\ row'[j].state = "running"
  /\ row'[j].attempt = row[j].attempt /\ row'[j].maxAttempts = row[j].maxAttempts
  /\ row'[j].lockedBy # NoWorker /\ row'[j].lockedUntil # 0
  /\ row'[j].cancelRequested = row[j].cancelRequested

Kept(j) ==
  /\ row[j].state = "running" /\ row'[j].state = "running"
  /\ row'[j].attempt = row[j].attempt /\ row'[j].maxAttempts = row[j].maxAttempts
  /\ row'[j].lockedBy = row[j].lockedBy
  /\ row'[j].lockedUntil # 0 \/ row'[j].lockedUntil = row[j].lockedUntil

Finished(j) ==
  \E c \in claims, t \in Nat : \E o \in Outcomes(c, t) :
    /\ c.job = j /\ Owns(c) /\ row'[j] = Completed(row[j], Resolve(row[j], o))

Expiring(j) == row[j].state = "running" /\ \E t \in Nat : row'[j] = Swept(row[j], t)

Reviving(j) ==
  row[j].state \in Terminal \ {"succeeded"} /\ \E t \in Nat : row'[j] = Revived(row[j], t)

Dequeued(j) ==
  /\ row[j].state \in Queued /\ row'[j].state = "cancelled"
  /\ row'[j].attempt = row[j].attempt /\ row'[j].maxAttempts = row[j].maxAttempts
  /\ row'[j].lockedBy = row[j].lockedBy /\ row'[j].lockedUntil = row[j].lockedUntil
  /\ row'[j].cancelRequested = row[j].cancelRequested

Removed(j) ==
  /\ row[j].state \in Queued \cup Terminal /\ row'[j].state = "deleted"
  /\ row'[j].lockedBy = NoWorker /\ row'[j].lockedUntil = 0 /\ row'[j].cancelRequested = FALSE

Moves(j) ==
  \/ row'[j] = row[j]
  \/ Enqueued(j) \/ Granted(j) \/ Kept(j) \/ Finished(j) \/ Expiring(j)
  \/ Reviving(j) \/ Dequeued(j) \/ Removed(j)

LEMMA RowMoves == TypeOK /\ [Next]_vars => \A i \in Jobs : Moves(i)
<1> SUFFICES ASSUME TypeOK, [Next]_vars, NEW i \in Jobs PROVE Moves(i)
  OBVIOUS
<1> USE DEF Moves
<1>0. /\ row[i] \in Row
      /\ \A t \in Readings : t \in Nat /\ t + Lease # 0
      /\ \A t \in 0 .. now : t \in Nat
  BY ReadingsNat, TimeAssumption DEF TypeOK
<1>1. ASSUME NEW B \in SUBSET Jobs, NEW t \in Readings,
             NEW at \in [B -> {0} \cup {t + d : d \in Delays}], Insert(B, at, t)
      PROVE Moves(i)
  <2>1. CASE i \notin B
    BY <1>1, <2>1 DEF Insert
  <2>2. CASE i \in B
    BY <1>1, <2>2, ColumnsAssumption DEF Insert, NewRow, Enqueued, Queued
  <2> QED BY <2>1, <2>2
<1>2. ASSUME NEW w \in Workers, NEW t \in Readings, NEW delivered \in BOOLEAN,
             NEW C \in SUBSET Eligible(w, t), NEW limit, NEW ql, Claim(w, C, limit, ql, t, delivered)
      PROVE Moves(i)
  <2>1. CASE i \notin C
    BY <1>2, <2>1 DEF Claim
  <2>2. CASE i \in C
    <3>1. row[i].state \in Queued /\ row'[i] = Leased(row[i], w, t)
      BY <1>2, <2>2 DEF Claim, Eligible
    <3> QED BY <1>0, <3>1, LeasedFields, WorkersAssumption DEF Granted
  <2> QED BY <2>1, <2>2
<1>3. ASSUME NEW c \in claims, NEW t \in Readings, Heartbeat(c, t)
      PROVE Moves(i)
  BY <1>0, <1>3 DEF Heartbeat, Owns, TypeOK, Row, Kept
<1>4. ASSUME NEW c \in claims, NEW t \in 0 .. now, NEW o \in Outcomes(c, t), Complete(c, o)
      PROVE Moves(i)
  <2>1. CASE i # c.job
    BY <1>4, <2>1 DEF Complete, TypeOK
  <2>2. CASE i = c.job
    <3>1. row'[i] = Completed(row[i], Resolve(row[i], o)) /\ Owns(c)
      BY <1>4, <2>2 DEF Complete, TypeOK
    <3> QED BY <1>0, <2>2, <3>1 DEF Finished
  <2> QED BY <2>1, <2>2
<1>5. ASSUME NEW t \in Readings, SweepExpired(t)
      PROVE Moves(i)
  BY <1>0, <1>5 DEF SweepExpired, Expired, Expiring
<1>6. ASSUME NEW j \in Jobs, NEW t \in Readings, Retry(j, t)
      PROVE Moves(i)
  BY <1>0, <1>6 DEF Retry, TypeOK, Reviving
<1>7. ASSUME NEW j \in Jobs, Cancel(j)
      PROVE Moves(i)
  <2>1. CASE i # j
    BY <1>7, <2>1 DEF Cancel, TypeOK
  <2>2. CASE i = j /\ row' = [row EXCEPT ![j] = [@ EXCEPT !.cancelRequested = TRUE]]
                   /\ row[j].state = "running"
    BY <1>0, <2>2 DEF Kept, TypeOK, Row
  <2>3. CASE i = j /\ row' = [row EXCEPT ![j] = [@ EXCEPT !.state = "cancelled"]]
                   /\ row[j].state \in Queued
    BY <1>0, <2>3 DEF Dequeued, TypeOK, Row
  <2> QED BY <1>7, <2>1, <2>2, <2>3 DEF Cancel
<1>8. ASSUME NEW j \in Jobs, Delete(j)
      PROVE Moves(i)
  BY <1>8 DEF Delete, NewRow, TypeOK, Removed
<1>9. ASSUME NEW D \in SUBSET claims, Drop(D)
      PROVE Moves(i)
  BY <1>9 DEF Drop
<1>10. CASE Tick
  BY <1>10 DEF Tick
<1>11. CASE UNCHANGED vars
  BY <1>11 DEF vars
<1> QED
  BY <1>1, <1>2, <1>3, <1>4, <1>5, <1>6, <1>7, <1>8, <1>9, <1>10, <1>11 DEF Next

LEMMA FinishedFields ==
  ASSUME TypeOK, NEW j \in Jobs, Finished(j)
  PROVE /\ row[j].state = "running" /\ row'[j].state \in Queued \cup Terminal
        /\ row'[j].lockedBy = NoWorker /\ row'[j].lockedUntil = 0 /\ ~row'[j].cancelRequested
        /\ row'[j].maxAttempts = row[j].maxAttempts
        /\ row[j].cancelRequested => row'[j].state = "cancelled"
        /\ row'[j].state \in Queued =>
             \/ row'[j].attempt = row[j].attempt
             \/ \E c \in claims : c.job = j /\ row'[j].attempt < c.maxAttempts
<1>1. PICK c \in claims, t \in Nat :
        \E o \in Outcomes(c, t) :
          c.job = j /\ Owns(c) /\ row'[j] = Completed(row[j], Resolve(row[j], o))
  BY DEF Finished
<1>2. PICK o \in Outcomes(c, t) :
        c.job = j /\ Owns(c) /\ row'[j] = Completed(row[j], Resolve(row[j], o))
  BY <1>1
<1> DEFINE a == Resolve(row[j], o)
<1>3. row[j] \in Row /\ c \in Claimed /\ o \in Outcome
  BY OutcomesType DEF TypeOK
<1>4. a \in Outcome
  BY <1>3, ResolveType
<1>5. row[j].state = "running"
  BY <1>2 DEF Owns
<1>6. row[j].cancelRequested => a.state = "cancelled"
  BY <1>3 DEF Resolve, Outcome
<1>7. ASSUME a.state \in Queued
      PROVE a.record => a.attempt < c.maxAttempts
  <2>1. a = o
    BY <1>3, <1>6, <1>7 DEF Resolve, Queued
  <2> QED BY <1>3, <1>7, <2>1 DEF Outcomes, Queued, Terminal
<1> HIDE DEF a
<1>8. /\ row'[j].state = a.state
      /\ row'[j].lockedBy = NoWorker /\ row'[j].lockedUntil = 0 /\ ~row'[j].cancelRequested
      /\ row'[j].maxAttempts = row[j].maxAttempts
      /\ row'[j].attempt = IF a.record THEN a.attempt ELSE row[j].attempt
  BY <1>2, <1>3, <1>4 DEF Completed, Unlocked, Row, a
<1> QED BY <1>2, <1>4, <1>5, <1>6, <1>7, <1>8 DEF Outcome

LEMMA ExpiringFields ==
  ASSUME TypeOK, NEW j \in Jobs, Expiring(j)
  PROVE /\ row[j].state = "running" /\ row'[j].state \in {"cancelled", "discarded", "available"}
        /\ row'[j].lockedBy = NoWorker /\ row'[j].lockedUntil = 0 /\ ~row'[j].cancelRequested
        /\ row'[j].maxAttempts = row[j].maxAttempts /\ row'[j].attempt = row[j].attempt + 1
        /\ row[j].cancelRequested => row'[j].state = "cancelled"
        /\ row'[j].state = "available" => row'[j].attempt < row'[j].maxAttempts
<1>1. PICK t \in Nat : row'[j] = Swept(row[j], t)
  BY DEF Expiring
<1>2. row[j] \in Row /\ row[j].attempt \in Nat /\ row[j].maxAttempts \in Nat
  BY DEF TypeOK, Row
<1>3. /\ row'[j].state = SweptState(row[j])
      /\ row'[j].lockedBy = NoWorker /\ row'[j].lockedUntil = 0 /\ ~row'[j].cancelRequested
      /\ row'[j].maxAttempts = row[j].maxAttempts /\ row'[j].attempt = row[j].attempt + 1
  BY <1>1, <1>2 DEF Swept, Unlocked, Row
<1>4. row'[j].state \in {"cancelled", "discarded", "available"}
  BY <1>2, <1>3, SweptStateType
<1>5. row[j].cancelRequested => row'[j].state = "cancelled"
  BY <1>3 DEF SweptState
<1>6. row'[j].state = "available" => row'[j].attempt < row'[j].maxAttempts
  BY <1>2, <1>3 DEF SweptState
<1> QED BY <1>3, <1>4, <1>5, <1>6 DEF Expiring

-----------------------------------------------------------------------------
(* The shape of a lease. *)

LEMMA ShapeInit == Init => LeaseShape
BY DEF Init, LeaseShape, NewRow

LEMMA ShapeStep == TypeOK /\ LeaseShape /\ [Next]_vars => LeaseShape'
<1> SUFFICES ASSUME TypeOK, LeaseShape, [Next]_vars, NEW j \in Jobs
             PROVE /\ row'[j].state = "running" <=> row'[j].lockedBy # NoWorker
                   /\ row'[j].state = "running" <=> row'[j].lockedUntil # 0
                   /\ row'[j].cancelRequested => row'[j].state = "running"
  BY DEF LeaseShape
<1>0. /\ row[j] \in Row
      /\ (row[j].state = "running") <=> row[j].lockedBy # NoWorker
      /\ (row[j].state = "running") <=> row[j].lockedUntil # 0
      /\ row[j].cancelRequested => row[j].state = "running"
  BY DEF LeaseShape, TypeOK
<1>1. CASE row'[j] = row[j]
  BY <1>0, <1>1
<1>2. CASE Enqueued(j)
  BY <1>2 DEF Enqueued, Queued
<1>3. CASE Granted(j)
  BY <1>3 DEF Granted
<1>4. CASE Kept(j)
  BY <1>0, <1>4 DEF Kept
<1>5. CASE Finished(j)
  <2>1. row'[j].state \in Queued \cup Terminal /\ ~row'[j].cancelRequested
    BY <1>5, FinishedFields
  <2>2. row'[j].lockedBy = NoWorker /\ row'[j].lockedUntil = 0
    BY <1>5, FinishedFields
  <2>3. row'[j].state # "running"
    BY <2>1 DEF Queued, Terminal
  <2> QED BY <2>1, <2>2, <2>3
<1>6. CASE Expiring(j)
  BY <1>0, <1>6, ExpiringFields
<1>7. CASE Reviving(j)
  BY <1>0, <1>7, RevivedFields DEF Reviving
<1>8. CASE Dequeued(j)
  BY <1>0, <1>8 DEF Dequeued, Queued
<1>9. CASE Removed(j)
  BY <1>9 DEF Removed
<1> QED BY <1>1, <1>2, <1>3, <1>4, <1>5, <1>6, <1>7, <1>8, <1>9, RowMoves DEF Moves

\* Claim, Heartbeat, Complete, SweepExpired, Retry, Cancel and Delete keep lock
\* columns and state in step: no lock or request survives its lease.
THEOREM LeasesWellShaped == Spec => []LeaseShape
BY TypeCorrect, ShapeInit, ShapeStep, PTL DEF Spec

\* Complete and SweepExpired both let a requested cancellation win, for every
\* outcome a worker may report.
THEOREM CancellationAlwaysWins == Spec => CancellationWins
<1>1. TypeOK /\ LeaseShape /\ [Next]_vars =>
        [\A j \in Jobs : row[j].cancelRequested /\ row'[j].state # "running"
                             => row'[j].state = "cancelled"]_vars
  <2> SUFFICES ASSUME TypeOK, LeaseShape, [Next]_vars, NEW j \in Jobs,
                      row[j].cancelRequested, row'[j].state # "running"
               PROVE row'[j].state = "cancelled"
    OBVIOUS
  <2>0. row[j] \in Row /\ row[j].state = "running"
    BY DEF LeaseShape, TypeOK
  <2>1. CASE Finished(j)
    BY <2>1, FinishedFields
  <2>2. CASE Expiring(j)
    BY <2>2, ExpiringFields
  <2> QED
    BY <2>0, <2>1, <2>2, RowMoves
       DEF Moves, Enqueued, Granted, Kept, Reviving, Dequeued, Removed, Queued, Terminal
<1> QED BY <1>1, TypeCorrect, LeasesWellShaped, PTL DEF Spec, CancellationWins

-----------------------------------------------------------------------------
(* The attempt budget. *)

\* A claim was taken with an attempt left, and the row's budget only grows: what
\* makes a late completion harmless to AttemptLeft.
ClaimsInBudget ==
  \A c \in claims :
    /\ row[c.job].state # "unused" /\ c.attempt < c.maxAttempts
    /\ row[c.job].state # "deleted" => c.maxAttempts <= row[c.job].maxAttempts

LEMMA BudgetInit == Init => AttemptLeft /\ ClaimsInBudget
BY DEF Init, AttemptLeft, ClaimsInBudget, NewRow, Live, Queued

LEMMA AttemptLeftStep ==
  TypeOK /\ AttemptLeft /\ ClaimsInBudget /\ [Next]_vars => AttemptLeft'
<1> SUFFICES ASSUME TypeOK, AttemptLeft, ClaimsInBudget, [Next]_vars,
                    NEW j \in Jobs, row'[j].state \in Live
             PROVE row'[j].attempt < row'[j].maxAttempts
  BY DEF AttemptLeft
<1>0. /\ row[j] \in Row /\ row[j].attempt \in Nat /\ row[j].maxAttempts \in Nat
      /\ row[j].state \in Live => row[j].attempt < row[j].maxAttempts
  BY DEF AttemptLeft, TypeOK, Row
<1>1. CASE row'[j] = row[j]
  BY <1>0, <1>1
<1>2. CASE Enqueued(j)
  BY <1>2 DEF Enqueued
<1>3. CASE Granted(j) \/ Kept(j)
  BY <1>0, <1>3 DEF Granted, Kept, Live
<1>4. CASE Finished(j)
  <2>1. /\ row[j].state \in Live /\ row'[j].state \in Queued
        /\ row'[j].maxAttempts = row[j].maxAttempts
    BY <1>4, FinishedFields DEF Live, Queued, Terminal
  <2>2. CASE row'[j].attempt = row[j].attempt
    BY <1>0, <2>1, <2>2
  <2>3. ASSUME NEW c \in claims, c.job = j, row'[j].attempt < c.maxAttempts
        PROVE row'[j].attempt < row'[j].maxAttempts
    <3>1. c.maxAttempts <= row[j].maxAttempts /\ c.maxAttempts \in Nat
      BY <2>1, <2>3 DEF ClaimsInBudget, Live, Queued, TypeOK, Claimed
    <3>2. row'[j].attempt \in Nat
      <4>1. TypeOK'
        BY TypeStep
      <4> QED BY <4>1 DEF TypeOK, Row
    <3> QED BY <1>0, <2>1, <2>3, <3>1, <3>2
  <2> QED BY <1>4, <2>1, <2>2, <2>3, FinishedFields
<1>5. CASE Expiring(j)
  BY <1>5, ExpiringFields DEF Live, Queued
<1>6. CASE Reviving(j)
  BY <1>0, <1>6 DEF Reviving, Revived, Unlocked, Row
<1>7. CASE Dequeued(j) \/ Removed(j)
  BY <1>7 DEF Dequeued, Removed, Live, Queued
<1> QED BY <1>1, <1>2, <1>3, <1>4, <1>5, <1>6, <1>7, RowMoves DEF Moves

\* A row once used stays used, and its budget never shrinks while it exists.
LEMMA BudgetGrows ==
  ASSUME TypeOK, [Next]_vars, NEW j \in Jobs, row[j].state # "unused"
  PROVE /\ row'[j].state # "unused"
        /\ row'[j].state # "deleted" =>
             row[j].state # "deleted" /\ row'[j].maxAttempts >= row[j].maxAttempts
<1>0. row[j] \in Row /\ row[j].attempt \in Nat /\ row[j].maxAttempts \in Nat
  BY DEF TypeOK, Row
<1>1. CASE row'[j] = row[j]
  BY <1>0, <1>1
<1>2. CASE Granted(j) \/ Kept(j) \/ Dequeued(j)
  BY <1>0, <1>2 DEF Granted, Kept, Dequeued, Queued
<1>3. CASE Finished(j)
  BY <1>0, <1>3, FinishedFields DEF Queued, Terminal
<1>4. CASE Expiring(j)
  BY <1>0, <1>4, ExpiringFields
<1>5. CASE Reviving(j)
  BY <1>0, <1>5 DEF Reviving, Revived, Unlocked, Row, Terminal
<1>6. CASE Removed(j)
  BY <1>6 DEF Removed
<1> QED BY <1>1, <1>2, <1>3, <1>4, <1>5, <1>6, RowMoves DEF Moves, Enqueued

LEMMA NewClaims ==
  ASSUME TypeOK, [Next]_vars, NEW c \in claims', c \notin claims
  PROVE /\ c.job \in Jobs /\ row[c.job].state \in Queued /\ row'[c.job].state = "running"
        /\ c.attempt = row[c.job].attempt /\ c.maxAttempts = row[c.job].maxAttempts
        /\ row'[c.job].maxAttempts = row[c.job].maxAttempts
<1>1. PICK w \in Workers, t \in Readings, delivered \in BOOLEAN :
        \E C \in SUBSET Eligible(w, t), limit \in Limits, ql \in QueueLimits :
          Claim(w, C, limit, ql, t, delivered)
  BY DEF Next, vars, Insert, Heartbeat, Complete, SweepExpired, Retry, Cancel, Delete, Drop, Tick
<1>2. PICK C \in SUBSET Eligible(w, t), limit \in Limits, ql \in QueueLimits :
        Claim(w, C, limit, ql, t, delivered)
  BY <1>1
<1>3. PICK j \in C : c = ClaimOf(j, w)
  BY <1>2 DEF Claim
<1>4. j \in Jobs /\ row[j].state \in Queued /\ row'[j] = Leased(row[j], w, t)
  BY <1>2, ColumnsAssumption DEF Claim, Eligible
<1>5. c.job = j /\ c.attempt = row[j].attempt /\ c.maxAttempts = row[j].maxAttempts
  BY <1>3 DEF ClaimOf
<1>6. row[j] \in Row
  BY <1>4 DEF TypeOK
<1>7. row'[j].state = "running" /\ row'[j].maxAttempts = row[j].maxAttempts
  BY <1>4, <1>6 DEF Leased, Row
<1> QED BY <1>4, <1>5, <1>7

LEMMA ClaimsInBudgetStep ==
  TypeOK /\ AttemptLeft /\ ClaimsInBudget /\ [Next]_vars => ClaimsInBudget'
<1> SUFFICES ASSUME TypeOK, AttemptLeft, ClaimsInBudget, [Next]_vars, NEW c \in claims'
             PROVE /\ row'[c.job].state # "unused" /\ c.attempt < c.maxAttempts
                   /\ row'[c.job].state # "deleted" => c.maxAttempts <= row'[c.job].maxAttempts
  BY DEF ClaimsInBudget
<1>0. TypeOK'
  BY TypeStep
<1>1. CASE c \in claims
  <2>1. c.job \in Jobs /\ c.maxAttempts \in Nat
    BY <1>1 DEF TypeOK, Claimed
  <2>2. /\ row[c.job].state # "unused" /\ c.attempt < c.maxAttempts
        /\ row[c.job].state # "deleted" => c.maxAttempts <= row[c.job].maxAttempts
    BY <1>1 DEF ClaimsInBudget
  <2>3. row[c.job].maxAttempts \in Nat /\ row'[c.job].maxAttempts \in Nat
    BY <1>0, <2>1 DEF TypeOK, Row
  <2> QED BY <2>1, <2>2, <2>3, BudgetGrows
<1>2. CASE c \notin claims
  <2>1. /\ c.job \in Jobs /\ row[c.job].state \in Queued /\ row'[c.job].state = "running"
        /\ c.attempt = row[c.job].attempt /\ c.maxAttempts = row[c.job].maxAttempts
        /\ row'[c.job].maxAttempts = row[c.job].maxAttempts
    BY <1>2, NewClaims
  <2>2. row[c.job].attempt < row[c.job].maxAttempts /\ row[c.job].maxAttempts \in Nat
    BY <2>1 DEF AttemptLeft, Live, TypeOK, Row
  <2> QED BY <2>1, <2>2
<1> QED BY <1>1, <1>2

\* A job that Claim may still lease, or that is leased, has an attempt left: no
\* history of sweeps, late completions, releases and revivals exhausts it silently.
THEOREM AttemptAlwaysLeft == Spec => []AttemptLeft
BY TypeCorrect, BudgetInit, AttemptLeftStep, ClaimsInBudgetStep, PTL DEF Spec

\* Rows stay well formed under every history of claims, completions, sweeps,
\* cancellations and retries, for any jobs, workers and bounds.
THEOREM RowsWellFormed == Spec => []WellFormed
BY TypeCorrect, LeasesWellShaped, AttemptAlwaysLeft, PTL DEF WellFormed
=============================================================================
