------------------------- MODULE SessionStoresProofs -------------------------
(***************************************************************************)
(* The session stores implement the contract of SessionStore, for any       *)
(* identifiers, users, payloads and deadlines: StoreInv is inductive, and    *)
(* every step of a backend maps to a step of the contract or to a stutter.   *)
(***************************************************************************)
EXTENDS SessionStores, TLAPS

\* The index follows the table, and a row that a BumpTTL of MySQL has locked is there
\* and was live at the time its caller read.
StoreInv ==
  /\ records \in [Sids -> Rec \cup {NoRec}] /\ now \in Nat
  /\ IndexExact
  /\ backend # "mysql" => bump = NoBump
  /\ bump # NoBump =>
       /\ bump.sid \in Sids /\ bump.row = bump.sid /\ bump.until \in Contract!Until
       /\ records[bump.sid] # NoRec
       /\ \E t \in 0 .. now : ~Contract!Lapsed(records[bump.sid], t)

(* The index by user *)

LEMMA IndexSame ==
  ASSUME NEW R, NEW Q, \A s \in Sids : UserOf(Q, s) = UserOf(R, s)
  PROVE  IndexOf(Q) = IndexOf(R)
BY DEF IndexOf

LEMMA IndexRemove ==
  ASSUME ConstantsOK, NEW R, NEW Q, NEW s \in Sids,
         UserOf(R, s) \in Users, UserOf(Q, s) = NoUser,
         \A x \in Sids : x # s => UserOf(Q, x) = UserOf(R, x)
  PROVE  userIndexRemoveLocked(IndexOf(R), UserOf(R, s), s) = IndexOf(Q)
<1> DEFINE u == UserOf(R, s)
           idx == IndexOf(R)
           of(v) == {x \in Sids : UserOf(R, x) = v}
           on(v) == {x \in Sids : UserOf(Q, x) = v}
<1>1. u \in Users /\ u # NoUser /\ u \in DOMAIN idx /\ idx[u] = of(u)
  BY DEF ConstantsOK, IndexOf
<1>2. \A v \in Users : v # u => on(v) = of(v)
  BY <1>1 DEF ConstantsOK
<1>3. on(u) = of(u) \ {s}
  BY <1>1 DEF ConstantsOK
<1>4. DOMAIN IndexOf(Q) = {v \in Users : on(v) # {}} /\ \A v \in DOMAIN IndexOf(Q) : IndexOf(Q)[v] = on(v)
  BY DEF IndexOf
<1>5. DOMAIN idx = {v \in Users : of(v) # {}} /\ \A v \in DOMAIN idx : idx[v] = of(v)
  BY DEF IndexOf
<1>6. IndexOf(Q) = [v \in {x \in Users : on(x) # {}} |-> on(v)]
  BY DEF IndexOf
<1>7. idx = [v \in {x \in Users : of(x) # {}} |-> of(v)]
  BY DEF IndexOf
<1> HIDE DEF idx, of, on, u
<1>8. CASE idx[u] \subseteq {s}
  <2>1. userIndexRemoveLocked(idx, u, s) = [v \in DOMAIN idx \ {u} |-> idx[v]]
    BY <1>1, <1>8 DEF userIndexRemoveLocked
  <2>2. on(u) = {}
    BY <1>1, <1>3, <1>8
  <2>3. {x \in Users : on(x) # {}} = DOMAIN idx \ {u}
    BY <1>2, <1>5, <2>2
  <2>4. \A v \in DOMAIN idx \ {u} : on(v) = idx[v]
    BY <1>2, <1>5
  <2> QED BY <1>6, <2>1, <2>3, <2>4 DEF u, idx
<1>9. CASE ~(idx[u] \subseteq {s})
  <2>1. userIndexRemoveLocked(idx, u, s) = [idx EXCEPT ![u] = idx[u] \ {s}]
    BY <1>1, <1>9 DEF userIndexRemoveLocked
  <2>2. on(u) # {} /\ on(u) = idx[u] \ {s}
    BY <1>1, <1>3, <1>9
  <2>3. {x \in Users : on(x) # {}} = DOMAIN idx
    BY <1>1, <1>2, <1>5, <2>2
  <2>4. \A v \in DOMAIN idx : v # u => on(v) = idx[v]
    BY <1>2, <1>5
  <2> QED BY <1>1, <1>6, <1>7, <2>1, <2>2, <2>3, <2>4 DEF u, idx
<1> QED BY <1>8, <1>9

LEMMA IndexAdd ==
  ASSUME ConstantsOK, NEW R, NEW Q, NEW s \in Sids,
         UserOf(R, s) = NoUser, UserOf(Q, s) \in Users,
         \A x \in Sids : x # s => UserOf(Q, x) = UserOf(R, x)
  PROVE  userIndexAddLocked(IndexOf(R), UserOf(Q, s), s) = IndexOf(Q)
<1> DEFINE u == UserOf(Q, s)
           idx == IndexOf(R)
           of(v) == {x \in Sids : UserOf(R, x) = v}
           on(v) == {x \in Sids : UserOf(Q, x) = v}
<1>1. u \in Users /\ u # NoUser
  BY DEF ConstantsOK
<1>2. \A v \in Users : v # u => on(v) = of(v)
  BY <1>1 DEF ConstantsOK
<1>3. on(u) = of(u) \cup {s}
  BY <1>1 DEF ConstantsOK
<1>4. DOMAIN idx = {v \in Users : of(v) # {}} /\ \A v \in DOMAIN idx : idx[v] = of(v)
  BY DEF IndexOf
<1>5. IndexOf(Q) = [v \in {x \in Users : on(x) # {}} |-> on(v)]
  BY DEF IndexOf
<1> HIDE DEF idx, of, on, u
<1>6. {x \in Users : on(x) # {}} = DOMAIN idx \cup {u}
  BY <1>1, <1>2, <1>3, <1>4
<1>7. \A v \in DOMAIN idx \cup {u} :
        on(v) = IF v \notin DOMAIN idx THEN {s} ELSE IF v = u THEN idx[u] \cup {s} ELSE idx[v]
  BY <1>1, <1>2, <1>3, <1>4
<1> QED BY <1>5, <1>6, <1>7 DEF userIndexAddLocked, u, idx


\* deleteLocked takes the session ids of S from the table and from the index.
LEMMA Deleted ==
  ASSUME ConstantsOK, records \in [Sids -> Rec \cup {NoRec}], userIndex = IndexOf(records),
         NEW S \in SUBSET Sids, deleteLocked(S)
  PROVE  /\ records' = Contract!Without(S) /\ records' \in [Sids -> Rec \cup {NoRec}]
         /\ userIndex' = IndexOf(records')
<1>1. records' = [s \in Sids |-> IF s \in S THEN NoRec ELSE records[s]]
  BY DEF deleteLocked
<1>2. records' = Contract!Without(S) /\ records' \in [Sids -> Rec \cup {NoRec}]
  BY <1>1 DEF Contract!Without
<1> DEFINE Q == records'
           of(v) == {x \in Sids : UserOf(records, x) = v}
           on(v) == {x \in Sids : UserOf(Q, x) = v}
           gone(v) == {s \in S : present(s) /\ records[s].user = v}
<1>3. \A x \in Sids : UserOf(Q, x) = IF x \in S THEN NoUser ELSE UserOf(records, x)
  BY <1>1 DEF UserOf
<1>4. \A v \in Users : on(v) = of(v) \ S /\ gone(v) = S \cap of(v)
  BY <1>3 DEF ConstantsOK, UserOf, present
<1>5. DOMAIN userIndex = {v \in Users : of(v) # {}} /\ \A v \in DOMAIN userIndex : userIndex[v] = of(v)
  BY DEF IndexOf
<1>6. IndexOf(Q) = [v \in {x \in Users : on(x) # {}} |-> on(v)]
  BY DEF IndexOf
<1>7. userIndex' = [u \in {v \in DOMAIN userIndex : userIndex[v] \ gone(v) # {}} |-> userIndex[u] \ gone(u)]
  BY DEF deleteLocked
<1> HIDE DEF of, on, gone, Q
<1>8. {v \in DOMAIN userIndex : userIndex[v] \ gone(v) # {}} = {x \in Users : on(x) # {}}
  BY <1>4, <1>5
<1>9. \A v \in {x \in Users : on(x) # {}} : userIndex[v] \ gone(v) = on(v)
  BY <1>4, <1>5
<1>10. userIndex' = IndexOf(Q)
  BY <1>6, <1>7, <1>8, <1>9
<1> QED BY <1>2, <1>10 DEF Q

LEMMA DraftRec ==
  ASSUME ConstantsOK, NEW d \in Contract!Draft
  PROVE  /\ [d EXCEPT !.version = @ + 1] \in Rec /\ [d EXCEPT !.version = @ + 1].user = d.user
         /\ d.user \in Users \cup {NoUser} /\ d.version \in Nat
BY DEF Contract!Draft, Rec, ConstantsOK

\* A step of the memory store that leaves the table alone.
LEMMA MemoryReads ==
  ASSUME StoreInv, backend = "memory", UNCHANGED <<backend, records, now, userIndex, bump>>
  PROVE  StoreInv'
BY DEF StoreInv, IndexExact

\* A step of the memory store that writes the table and keeps the index with it.
LEMMA MemoryWrites ==
  ASSUME StoreInv, backend = "memory", UNCHANGED <<backend, now, bump>>,
         records' \in [Sids -> Rec \cup {NoRec}], userIndex' = IndexOf(records')
  PROVE  StoreInv'
<1>1. bump' = NoBump
  BY DEF StoreInv
<1> QED BY <1>1 DEF StoreInv, IndexExact

LEMMA MemorySaveStep ==
  ASSUME ConstantsOK, StoreInv, backend = "memory", UNCHANGED <<backend, bump>>,
         NEW s \in Sids, NEW d \in Contract!Draft, MemorySave(s, d)
  PROVE  StoreInv' /\ Contract!Save(s, d)
<1> DEFINE new == [d EXCEPT !.version = @ + 1]
           old == UserOf(records, s)
           idx1 == IF old # NoUser /\ old # d.user THEN userIndexRemoveLocked(userIndex, old, s) ELSE userIndex
           fits == (present(s) /\ records[s].version = d.version) \/ (~present(s) /\ d.version = 0)
<1>1. /\ UNCHANGED now
      /\ fits => /\ records' = [records EXCEPT ![s] = new] /\ reply' = <<"record", new>>
                 /\ userIndex' = IF d.user # NoUser /\ (~present(s) \/ records[s].user # d.user)
                                 THEN userIndexAddLocked(idx1, d.user, s) ELSE idx1
      /\ ~fits => reply' = <<"conflict">> /\ UNCHANGED <<records, userIndex>>
  BY DEF MemorySave, UserOf, present
<1>2. fits <=> Contract!VersionOf(s) = d.version
  BY DraftRec DEF present, Contract!VersionOf, Contract!Held
<1>3. CASE ~fits
  <2>1. StoreInv'
    BY <1>1, <1>3, MemoryReads
  <2> QED BY <1>1, <1>2, <1>3, <2>1 DEF Contract!Save
<1>4. CASE fits
  <2>1. records \in [Sids -> Rec \cup {NoRec}] /\ userIndex = IndexOf(records)
    BY DEF StoreInv, IndexExact
  <2>2. new \in Rec /\ new.user = d.user /\ d.user \in Users \cup {NoUser} /\ new # NoRec
    BY DraftRec DEF ConstantsOK
  <2> DEFINE Q == records'
             M == [records EXCEPT ![s] = NoRec]
  <2>3. Q[s] = new /\ \A x \in Sids : x # s => Q[x] = records[x]
    BY <1>1, <1>4, <2>1
  <2>4. Q \in [Sids -> Rec \cup {NoRec}]
    BY <1>1, <1>4, <2>1, <2>2
  <2>5. UserOf(Q, s) = d.user /\ \A x \in Sids : x # s => UserOf(Q, x) = UserOf(records, x)
    BY <2>2, <2>3 DEF UserOf
  <2>6. UserOf(M, s) = NoUser /\ \A x \in Sids : x # s => UserOf(M, x) = UserOf(records, x)
    BY <2>1 DEF UserOf
  <2>7. old \in Users \cup {NoUser} /\ (old # NoUser => present(s) /\ records[s].user = old)
    BY <2>1 DEF UserOf, present, Rec
  <2>8. d.user # NoUser => ((~present(s) \/ records[s].user # d.user) <=> old # d.user)
    BY DEF UserOf, present
  <2> HIDE DEF Q, M, old
  <2>9. userIndex' = IndexOf(Q)
    <3>1. CASE old = d.user
      <4>1. userIndex' = userIndex
        BY <1>1, <1>4, <2>8, <3>1
      <4>2. \A x \in Sids : UserOf(Q, x) = UserOf(records, x)
        BY <2>5, <3>1 DEF old
      <4> QED BY <2>1, <4>1, <4>2, IndexSame
    <3>2. CASE old # d.user /\ old = NoUser
      <4>1. userIndex' = userIndexAddLocked(IndexOf(records), UserOf(Q, s), s)
        BY <1>1, <1>4, <2>1, <2>5, <2>8, <3>2
      <4>2. UserOf(records, s) = NoUser /\ UserOf(Q, s) \in Users
        BY <2>2, <2>5, <3>2 DEF old
      <4> QED BY <2>5, <4>1, <4>2, IndexAdd
    <3>3. CASE old # d.user /\ old # NoUser
      <4>1. idx1 = IndexOf(M)
        <5>1. idx1 = userIndexRemoveLocked(IndexOf(records), UserOf(records, s), s)
          BY <2>1, <3>3 DEF old
        <5>2. UserOf(records, s) \in Users
          BY <2>7, <3>3 DEF old
        <5> HIDE DEF idx1
        <5> QED BY <2>6, <5>1, <5>2, IndexRemove
      <4> HIDE DEF idx1
      <4>2. CASE d.user = NoUser
        <5>1. userIndex' = idx1
          BY <1>1, <1>4, <4>2
        <5>2. \A x \in Sids : UserOf(Q, x) = UserOf(M, x)
          BY <2>5, <2>6, <4>2
        <5> QED BY <4>1, <5>1, <5>2, IndexSame
      <4>3. CASE d.user # NoUser
        <5>1. userIndex' = userIndexAddLocked(IndexOf(M), UserOf(Q, s), s)
          BY <1>1, <1>4, <2>5, <2>8, <3>3, <4>1, <4>3
        <5>2. UserOf(Q, s) \in Users /\ \A x \in Sids : x # s => UserOf(Q, x) = UserOf(M, x)
          BY <2>2, <2>5, <2>6, <4>3
        <5> QED BY <2>6, <5>1, <5>2, IndexAdd
      <4> QED BY <4>2, <4>3
    <3> QED BY <3>1, <3>2, <3>3
  <2>10. StoreInv'
    BY <1>1, <2>4, <2>9, MemoryWrites DEF Q
  <2>11. Contract!Save(s, d)
    BY <1>1, <1>2, <1>4, <2>3 DEF Contract!Save, Q
  <2> QED BY <2>10, <2>11
<1> QED BY <1>3, <1>4


LEMMA BumpedRec ==
  ASSUME ConstantsOK, records \in [Sids -> Rec \cup {NoRec}], NEW s \in Sids, records[s] # NoRec,
         NEW until \in Contract!Until, records' = [records EXCEPT ![s].idle = until]
  PROVE  /\ records' \in [Sids -> Rec \cup {NoRec}]
         /\ \A x \in Sids : UserOf(records', x) = UserOf(records, x)
<1>1. records[s] \in Rec /\ until \in Idle
  BY DEF Contract!Until
<1>2. [records[s] EXCEPT !.idle = until] \in Rec /\ [records[s] EXCEPT !.idle = until].user = records[s].user
  BY <1>1 DEF Rec
<1>3. records' = [records EXCEPT ![s] = [records[s] EXCEPT !.idle = until]]
  OBVIOUS
<1>4. [records[s] EXCEPT !.idle = until] # NoRec
  BY <1>2 DEF ConstantsOK
<1> HIDE <1>1
<1>5. records' \in [Sids -> Rec \cup {NoRec}]
  BY <1>2, <1>3
<1> QED BY <1>2, <1>3, <1>4, <1>5 DEF UserOf

\* The memory store: every critical section is an operation of the contract, or nothing
\* that a caller can see.
LEMMA MemoryStep ==
  ASSUME ConstantsOK, StoreInv, backend = "memory", UNCHANGED <<backend, bump>>, MemoryNext
  PROVE  StoreInv' /\ ContractStep
<1>1. records \in [Sids -> Rec \cup {NoRec}] /\ userIndex = IndexOf(records) /\ now \in Nat /\ now \in 0 .. now
  BY DEF StoreInv, IndexExact
<1>2. \A s \in Sids : present(s) /\ ~expired(records[s]) <=> s \in Contract!LiveAt(now)
  BY DEF present, expired, Contract!LiveAt, Contract!Held, Contract!Lapsed
<1>3. \A u \in Users : indexed(u) = {s \in Contract!Held : records[s].user = u}
  BY <1>1 DEF indexed, IndexOf, UserOf, Contract!Held, ConstantsOK
<1>4. CASE MemoryScan
  <2>1. Contract!Scan(now)
    BY <1>2, <1>4 DEF MemoryScan, Contract!Scan, Contract!LiveAt, Contract!Held
  <2>2. StoreInv'
    BY <1>4, MemoryReads DEF MemoryScan
  <2> QED BY <1>1, <2>1, <2>2 DEF ContractStep, Contract!Next
<1>5. CASE MemorySweep
  <2> DEFINE S == {s \in Sids : present(s) /\ expired(records[s])}
  <2>1. deleteLocked(S) /\ reply' = <<"count", Cardinality(S)>> /\ UNCHANGED now
    BY <1>5 DEF MemorySweep
  <2>2. S = Contract!Held \ Contract!LiveAt(now) /\ S \in SUBSET Sids
    BY <1>2 DEF present, Contract!Held
  <2> HIDE DEF S
  <2>3. records' = Contract!Without(S) /\ StoreInv'
    BY <1>1, <2>1, <2>2, Deleted, MemoryWrites
  <2>4. Contract!Sweep(now)
    BY <2>1, <2>2, <2>3 DEF Contract!Sweep, Cardinality, Contract!Cardinality
  <2> QED BY <1>1, <2>3, <2>4 DEF ContractStep, Contract!Next
<1>6. ASSUME NEW s \in Sids, LoadRead(s) PROVE StoreInv' /\ ContractStep
  <2>1. Contract!Load(s, now)
    BY <1>2, <1>6 DEF LoadRead, Contract!Load
  <2>2. StoreInv'
    BY <1>6, MemoryReads DEF LoadRead
  <2> QED BY <1>1, <2>1, <2>2 DEF ContractStep, Contract!Next
<1>7. ASSUME NEW s \in Sids, LoadPrune(s) PROVE StoreInv' /\ ContractStep
  <2> DEFINE S == {x \in {s} : present(x) /\ expired(records[x])}
  <2>1. deleteLocked(S) /\ UNCHANGED <<now, reply>> /\ S \in SUBSET Sids
    BY <1>7 DEF LoadPrune
  <2>2. records' = Contract!Without(S) /\ StoreInv'
    <3> HIDE DEF S
    <3> QED BY <1>1, <2>1, Deleted, MemoryWrites
  <2>3. CASE present(s) /\ expired(records[s])
    <3>1. S = {s}
      BY <2>3
    <3>2. Contract!Prune(s)
      BY <2>1, <2>2, <2>3, <3>1 DEF Contract!Prune, Contract!Held, Contract!Lapsed, present, expired
    <3> QED BY <2>2, <3>2 DEF ContractStep, Contract!Next
  <2>4. CASE ~(present(s) /\ expired(records[s]))
    <3>1. S = {}
      BY <2>4
    <3>2. records' = records
      BY <1>1, <2>2, <3>1 DEF Contract!Without
    <3> QED BY <2>1, <2>2, <3>2 DEF ContractStep, Contract!storeVars
  <2> QED BY <2>3, <2>4
<1>8. ASSUME NEW s \in Sids, MemoryDelete(s) PROVE StoreInv' /\ ContractStep
  <2>1. deleteLocked({s}) /\ {s} \in SUBSET Sids /\ reply' = <<"deleted">> /\ UNCHANGED now
    BY <1>8 DEF MemoryDelete
  <2>2. records' = Contract!Without({s}) /\ StoreInv'
    BY <1>1, <2>1, Deleted, MemoryWrites
  <2>3. Contract!Delete(s)
    BY <2>1, <2>2 DEF Contract!Delete
  <2> QED BY <2>2, <2>3 DEF ContractStep, Contract!Next
<1>9. ASSUME NEW s \in Sids, NEW d \in Contract!Draft, MemorySave(s, d) PROVE StoreInv' /\ ContractStep
  <2>1. StoreInv' /\ Contract!Save(s, d)
    BY <1>9, MemorySaveStep
  <2> QED BY <2>1 DEF ContractStep, Contract!Next
<1>10. ASSUME NEW s \in Sids, NEW until \in Contract!Until, MemoryBumpTTL(s, until)
       PROVE  StoreInv' /\ ContractStep
  <2>1. Contract!BumpTTL(s, until, now)
    BY <1>2, <1>10 DEF MemoryBumpTTL, Contract!BumpTTL
  <2>2. UNCHANGED <<now, userIndex>>
    BY <1>10 DEF MemoryBumpTTL
  <2>3. CASE s \in Contract!LiveAt(now)
    <3>1. records' = [records EXCEPT ![s].idle = until] /\ records[s] # NoRec
      BY <2>1, <2>3 DEF Contract!BumpTTL, Contract!LiveAt, Contract!Held
    <3>2. records' \in [Sids -> Rec \cup {NoRec}] /\ IndexOf(records') = IndexOf(records)
      BY <1>1, <3>1, BumpedRec, IndexSame
    <3>3. StoreInv'
      BY <1>1, <2>2, <3>2, MemoryWrites
    <3> QED BY <1>1, <2>1, <3>3 DEF ContractStep, Contract!Next
  <2>4. CASE s \notin Contract!LiveAt(now)
    <3>1. StoreInv'
      BY <2>1, <2>2, <2>4, MemoryReads DEF Contract!BumpTTL
    <3> QED BY <1>1, <2>1, <3>1 DEF ContractStep, Contract!Next
  <2> QED BY <2>3, <2>4
<1>11. ASSUME NEW u \in Users, MemoryListByUser(u) PROVE StoreInv' /\ ContractStep
  <2>1. {s \in indexed(u) : present(s) /\ ~expired(records[s])} = {s \in Contract!LiveAt(now) : records[s].user = u}
    BY <1>2, <1>3 DEF Contract!LiveAt, Contract!Held
  <2>2. Contract!ListByUser(u, now)
    BY <1>11, <2>1 DEF MemoryListByUser, Contract!ListByUser
  <2>3. StoreInv'
    BY <1>11, MemoryReads DEF MemoryListByUser
  <2> QED BY <1>1, <2>2, <2>3 DEF ContractStep, Contract!Next
<1>12. ASSUME NEW u \in Users, NEW except \in SUBSET Sids, MemoryRevokeByUser(u, except)
       PROVE  StoreInv' /\ ContractStep
  <2> DEFINE S == indexed(u) \ except
  <2>1. deleteLocked(S) /\ reply' = <<"count", Cardinality(S)>> /\ UNCHANGED now
    BY <1>12 DEF MemoryRevokeByUser
  <2>2. S = {s \in Contract!Held \ except : records[s].user = u} /\ S \in SUBSET Sids
    BY <1>3 DEF Contract!Held
  <2> HIDE DEF S
  <2>3. records' = Contract!Without(S) /\ StoreInv'
    BY <1>1, <2>1, <2>2, Deleted, MemoryWrites
  <2>4. Contract!RevokeByUser(u, except)
    BY <2>1, <2>2, <2>3 DEF Contract!RevokeByUser, Cardinality, Contract!Cardinality
  <2> QED BY <2>3, <2>4 DEF ContractStep, Contract!Next
<1> QED BY <1>4, <1>5, <1>6, <1>7, <1>8, <1>9, <1>10, <1>11, <1>12, Zenon DEF MemoryNext


(* The SQL stores *)

LEMMA SqlReads ==
  ASSUME StoreInv, backend # "memory", UNCHANGED <<backend, records, now, bump>>
  PROVE  StoreInv'
BY DEF StoreInv, IndexExact, Contract!Lapsed

\* A statement that leaves a locked row alone.
LEMMA SqlWrites ==
  ASSUME StoreInv, backend # "memory", UNCHANGED <<backend, now, bump>>,
         records' \in [Sids -> Rec \cup {NoRec}],
         bump # NoBump => records'[bump.sid] = records[bump.sid]
  PROVE  StoreInv'
BY DEF StoreInv, IndexExact, Contract!Lapsed

LEMMA Selected ==
  ASSUME ConstantsOK, StoreInv
  PROVE  /\ \A t \in Readings : t \in 0 .. now
         /\ \A t \in 0 .. now : SelectLive(t) = Contract!LiveAt(t)
         /\ Rows = Contract!Held
<1>1. Rows = Contract!Held
  BY DEF Rows, Contract!Held
<1>2. \A s \in Contract!Held : records[s].abs \in Nat /\ records[s].idle \in Nat
  BY DEF StoreInv, ConstantsOK, Rec, Contract!Held
<1>3. now \in Nat
  BY DEF StoreInv
<1>4. \A t \in 0 .. now, s \in Contract!Held : Unexpired(records[s], t) <=> ~Contract!Lapsed(records[s], t)
  BY <1>2, <1>3 DEF Unexpired, Contract!Lapsed
<1>5. \A t \in 0 .. now : SelectLive(t) = Contract!LiveAt(t)
  BY <1>1, <1>4 DEF SelectLive, Contract!LiveAt
<1> QED BY <1>1, <1>5 DEF Readings

LEMMA SqlDeletes ==
  ASSUME StoreInv, backend # "memory", UNCHANGED <<backend, now, bump>>, NEW S, DeleteRows(S)
  PROVE  records' = Contract!Without(S) /\ StoreInv'
<1>1. records' = [s \in Sids |-> IF s \in S THEN NoRec ELSE records[s]] /\ Unlocked(S)
  BY DEF DeleteRows
<1>2. records' \in [Sids -> Rec \cup {NoRec}]
  BY <1>1 DEF StoreInv
<1>3. bump # NoBump => records'[bump.sid] = records[bump.sid]
  BY <1>1 DEF StoreInv, Unlocked
<1>4. StoreInv'
  BY <1>2, <1>3, SqlWrites
<1> QED BY <1>1, <1>4 DEF Contract!Without

LEMMA SqlSave ==
  ASSUME ConstantsOK, StoreInv, backend # "memory", UNCHANGED <<backend, bump>>,
         NEW s \in Sids, NEW d \in Contract!Draft, Unlocked({s}), SqliteSave(s, d)
  PROVE  StoreInv' /\ ContractStep
<1> DEFINE new == [d EXCEPT !.version = @ + 1]
           fits == Contract!VersionOf(s) = d.version
<1>1. records \in [Sids -> Rec \cup {NoRec}] /\ (records[s] # NoRec => records[s].version \in Nat \ {0})
  BY DEF StoreInv, Rec
<1>2. fits <=> (d.version = 0 /\ Inserted(s) = 1) \/ (d.version # 0 /\ Matched(s, d.version) = 1)
  BY <1>1, DraftRec DEF Inserted, Matched, Contract!VersionOf, Contract!Held
<1>3. /\ UNCHANGED now
      /\ fits => records' = [records EXCEPT ![s] = new] /\ reply' = <<"record", new>>
      /\ ~fits => reply' = <<"conflict">> /\ UNCHANGED records
  <2> HIDE DEF fits
  <2> QED BY <1>2 DEF SqliteSave, Answer, Put
<1>4. new \in Rec
  BY DraftRec
<1>5. Contract!Save(s, d)
  BY <1>1, <1>3 DEF Contract!Save
<1> HIDE DEF new, fits
<1>6. StoreInv'
  <2>1. records' \in [Sids -> Rec \cup {NoRec}]
    BY <1>1, <1>3, <1>4
  <2>2. bump # NoBump => records'[bump.sid] = records[bump.sid]
    BY <1>1, <1>3 DEF StoreInv, Unlocked
  <2> QED BY <1>3, <2>1, <2>2, SqlWrites
<1> QED BY <1>5, <1>6 DEF ContractStep, Contract!Next

\* BumpTTL as one statement, of a store without row locks.
LEMMA SqlBump ==
  ASSUME ConstantsOK, StoreInv, backend \in {"sqlite", "postgres"}, UNCHANGED <<backend, bump>>,
         NEW s \in Sids, NEW until \in Contract!Until, NEW t \in Readings, SqliteBumpTTL(s, until, t)
  PROVE  StoreInv' /\ ContractStep
<1>1. t \in 0 .. now /\ SelectLive(t) = Contract!LiveAt(t)
  BY Selected
<1>2. Contract!BumpTTL(s, until, t)
  BY <1>1 DEF SqliteBumpTTL, Answer, Contract!BumpTTL
<1>3. UNCHANGED now /\ bump = NoBump /\ records \in [Sids -> Rec \cup {NoRec}]
  BY <1>2 DEF Contract!BumpTTL, StoreInv
<1>4. records' \in [Sids -> Rec \cup {NoRec}]
  <2>1. CASE s \in Contract!LiveAt(t)
    <3>1. records' = [records EXCEPT ![s].idle = until] /\ records[s] # NoRec
      BY <1>2, <2>1 DEF Contract!BumpTTL, Contract!LiveAt, Contract!Held
    <3> QED BY <1>3, <3>1, BumpedRec
  <2>2. CASE s \notin Contract!LiveAt(t)
    BY <1>2, <1>3, <2>2 DEF Contract!BumpTTL
  <2> QED BY <2>1, <2>2
<1>5. StoreInv'
  BY <1>3, <1>4, SqlWrites
<1> QED BY <1>1, <1>2, <1>5 DEF ContractStep, Contract!Next

\* The other statements, which the three stores share.
LEMMA SqlStatements ==
  ASSUME ConstantsOK, StoreInv, backend # "memory", UNCHANGED <<backend, bump>>
  PROVE  /\ \A s \in Sids, t \in Readings : SqliteLoad(s, t) => StoreInv' /\ ContractStep
         /\ \A s \in Sids : SqliteDelete(s) => StoreInv' /\ ContractStep
         /\ \A t \in Readings : SqliteScan(t) \/ SqliteSweep(t) => StoreInv' /\ ContractStep
         /\ \A t \in Readings, u \in Users : SqliteListByUser(u, t) => StoreInv' /\ ContractStep
         /\ \A u \in Users, except \in SUBSET Sids : SqliteRevokeByUser(u, except) => StoreInv' /\ ContractStep
<1>1. /\ \A t \in Readings : t \in 0 .. now /\ SelectLive(t) = Contract!LiveAt(t)
      /\ Rows = Contract!Held
  BY Selected
<1>2. ASSUME NEW s \in Sids, NEW t \in Readings, SqliteLoad(s, t) PROVE StoreInv' /\ ContractStep
  <2>1. Contract!Load(s, t)
    BY <1>1, <1>2 DEF SqliteLoad, Answer, Contract!Load
  <2>2. StoreInv'
    BY <1>2, SqlReads DEF SqliteLoad, Answer
  <2> QED BY <1>1, <2>1, <2>2 DEF ContractStep, Contract!Next
<1>3. ASSUME NEW s \in Sids, SqliteDelete(s) PROVE StoreInv' /\ ContractStep
  <2>1. DeleteRows({s}) /\ reply' = <<"deleted">> /\ UNCHANGED now
    BY <1>3 DEF SqliteDelete, Answer
  <2>2. records' = Contract!Without({s}) /\ StoreInv'
    BY <2>1, SqlDeletes
  <2>3. Contract!Delete(s)
    BY <2>1, <2>2 DEF Contract!Delete
  <2> QED BY <2>2, <2>3 DEF ContractStep, Contract!Next
<1>4. ASSUME NEW t \in Readings, SqliteScan(t) PROVE StoreInv' /\ ContractStep
  <2>1. Contract!Scan(t)
    BY <1>1, <1>4 DEF SqliteScan, Answer, Contract!Scan
  <2>2. StoreInv'
    BY <1>4, SqlReads DEF SqliteScan, Answer
  <2> QED BY <1>1, <2>1, <2>2 DEF ContractStep, Contract!Next
<1>5. ASSUME NEW t \in Readings, SqliteSweep(t) PROVE StoreInv' /\ ContractStep
  <2> DEFINE Ended(deadline) == deadline > 0 /\ deadline <= t
             S == {s \in Rows : Ended(records[s].abs) \/ Ended(records[s].idle)}
  <2>1. DeleteRows(S) /\ reply' = <<"count", Cardinality(S)>> /\ UNCHANGED now
    BY <1>5 DEF SqliteSweep, Answer
  <2>2. S = Contract!Held \ Contract!LiveAt(t)
    <3>1. \A s \in Contract!Held : records[s].abs \in Nat /\ records[s].idle \in Nat
      BY DEF StoreInv, ConstantsOK, Rec, Contract!Held
    <3>2. t \in Nat
      BY <1>1 DEF StoreInv
    <3> QED BY <1>1, <3>1, <3>2 DEF Contract!LiveAt, Contract!Lapsed
  <2> HIDE DEF S
  <2>3. records' = Contract!Without(S) /\ StoreInv'
    BY <2>1, SqlDeletes
  <2>4. Contract!Sweep(t)
    BY <2>1, <2>2, <2>3 DEF Contract!Sweep, Cardinality, Contract!Cardinality
  <2> QED BY <1>1, <2>3, <2>4 DEF ContractStep, Contract!Next
<1>6. ASSUME NEW t \in Readings, NEW u \in Users, SqliteListByUser(u, t) PROVE StoreInv' /\ ContractStep
  <2>1. Contract!ListByUser(u, t)
    BY <1>1, <1>6 DEF SqliteListByUser, Answer, Contract!ListByUser
  <2>2. StoreInv'
    BY <1>6, SqlReads DEF SqliteListByUser, Answer
  <2> QED BY <1>1, <2>1, <2>2 DEF ContractStep, Contract!Next
<1>7. ASSUME NEW u \in Users, NEW except \in SUBSET Sids, SqliteRevokeByUser(u, except)
      PROVE  StoreInv' /\ ContractStep
  <2> DEFINE S == {s \in Rows : records[s].user = u} \ except
  <2>1. DeleteRows(S) /\ reply' = <<"count", Cardinality(S)>> /\ UNCHANGED now
    BY <1>7 DEF SqliteRevokeByUser, Answer
  <2>2. S = {s \in Contract!Held \ except : records[s].user = u}
    BY <1>1
  <2> HIDE DEF S
  <2>3. records' = Contract!Without(S) /\ StoreInv'
    BY <2>1, SqlDeletes
  <2>4. Contract!RevokeByUser(u, except)
    BY <2>1, <2>2, <2>3 DEF Contract!RevokeByUser, Cardinality, Contract!Cardinality
  <2> QED BY <2>3, <2>4 DEF ContractStep, Contract!Next
<1> QED BY <1>2, <1>3, <1>4, <1>5, <1>6, <1>7, Zenon

\* MySQL's transaction: the row it locked is as its caller read it, so the bump is the one
\* operation the contract allows.
LEMMA MysqlBumpStep ==
  ASSUME ConstantsOK, StoreInv, backend = "mysql", UNCHANGED backend,
         \/ \E s \in Sids, until \in Contract!Until, t \in Readings : MysqlBumpSelect(s, until, t)
         \/ MysqlBumpUpdate \/ MysqlBumpRollback
  PROVE  StoreInv' /\ ContractStep
<1>1. records \in [Sids -> Rec \cup {NoRec}] /\ now \in Nat
  BY DEF StoreInv
<1>2. ASSUME NEW s \in Sids, NEW until \in Contract!Until, NEW t \in Readings, MysqlBumpSelect(s, until, t)
      PROVE  StoreInv' /\ ContractStep
  <2>1. t \in 0 .. now /\ SelectLive(t) = Contract!LiveAt(t)
    BY Selected
  <2>2. CASE s \in Contract!LiveAt(t)
    <3>1. bump' = [sid |-> s, row |-> s, until |-> until] /\ UNCHANGED <<records, now, reply>>
      BY <1>2, <2>1, <2>2 DEF MysqlBumpSelect
    <3>2. records[s] # NoRec /\ ~Contract!Lapsed(records[s], t)
      BY <2>2 DEF Contract!LiveAt, Contract!Held
    <3>3. bump'.sid = s /\ bump'.row = s /\ bump'.until = until
      BY <3>1
    <3>4. StoreInv'
      BY <1>1, <2>1, <3>1, <3>2, <3>3 DEF StoreInv, IndexExact, Contract!Lapsed
    <3> QED BY <3>1, <3>4 DEF ContractStep, Contract!storeVars
  <2>3. CASE s \notin Contract!LiveAt(t)
    <3>1. reply' = <<"notfound">> /\ UNCHANGED <<now, records, bump>>
      BY <1>2, <2>1, <2>3 DEF MysqlBumpSelect, Answer
    <3>2. Contract!BumpTTL(s, until, t)
      BY <2>3, <3>1 DEF Contract!BumpTTL
    <3>3. StoreInv'
      BY <3>1, SqlReads
    <3> QED BY <2>1, <3>2, <3>3 DEF ContractStep, Contract!Next
  <2> QED BY <2>2, <2>3
<1>3. CASE MysqlBumpUpdate
  <2>1. PICK t \in 0 .. now : ~Contract!Lapsed(records[bump.sid], t)
    BY <1>3 DEF MysqlBumpUpdate, StoreInv
  <2>2. bump.sid \in Sids /\ bump.row = bump.sid /\ bump.until \in Contract!Until /\ records[bump.sid] # NoRec
    BY <1>3 DEF MysqlBumpUpdate, StoreInv
  <2>3. PICK s \in Sids : s = bump.sid
    BY <2>2
  <2>4. PICK until \in Contract!Until : until = bump.until
    BY <2>2
  <2>5. /\ records' = [records EXCEPT ![s].idle = until] /\ reply' = <<"bumped">>
        /\ UNCHANGED now /\ bump' = NoBump
    BY <1>1, <1>3, <2>2, <2>3, <2>4 DEF MysqlBumpUpdate, Answer
  <2>6. s \in Contract!LiveAt(t)
    BY <2>1, <2>2, <2>3 DEF Contract!LiveAt, Contract!Held
  <2>7. Contract!BumpTTL(s, until, t)
    BY <2>5, <2>6 DEF Contract!BumpTTL
  <2>8. records' \in [Sids -> Rec \cup {NoRec}]
    BY <1>1, <2>2, <2>3, <2>5, BumpedRec
  <2>9. StoreInv'
    BY <1>1, <2>5, <2>8 DEF StoreInv, IndexExact
  <2> QED BY <2>7, <2>9 DEF ContractStep, Contract!Next
<1>4. CASE MysqlBumpRollback
  <2>1. UNCHANGED <<records, now, reply>> /\ bump' = NoBump
    BY <1>4 DEF MysqlBumpRollback
  <2>2. StoreInv'
    BY <1>1, <2>1 DEF StoreInv, IndexExact
  <2> QED BY <2>1, <2>2 DEF ContractStep, Contract!storeVars
<1> QED BY <1>2, <1>3, <1>4


LEMMA StoreStep ==
  ASSUME ConstantsOK, StoreInv, [Next]_vars
  PROVE  StoreInv' /\ ContractStep
<1>1. CASE UNCHANGED vars
  <2>1. StoreInv'
    BY <1>1 DEF vars, memVars, StoreInv, IndexExact, Contract!Lapsed
  <2> QED BY <1>1, <2>1 DEF vars, ContractStep, Contract!storeVars
<1>2. CASE Tick /\ UNCHANGED backend
  <2>1. now' = now + 1 /\ UNCHANGED <<records, reply, backend, userIndex, bump>>
    BY <1>2 DEF Tick, memVars, Contract!Tick
  <2>2. now \in Nat /\ 0 .. now \subseteq 0 .. now'
    BY <2>1 DEF StoreInv
  <2>3. StoreInv'
    BY <2>1, <2>2 DEF StoreInv, IndexExact, Contract!Lapsed
  <2> QED BY <1>2, <2>3 DEF Tick, ContractStep, Contract!Next
<1>3. CASE backend = "memory" /\ MemoryNext /\ UNCHANGED <<backend, bump>>
  BY <1>3, MemoryStep
<1>4. CASE backend = "sqlite" /\ SqliteNext /\ UNCHANGED <<backend, bump>>
  <2>1. \A s \in Sids : Unlocked({s})
    BY <1>4 DEF StoreInv, Unlocked
  <2> QED BY <1>4, <2>1, SqlStatements, SqlSave, SqlBump DEF SqliteNext
<1>5. CASE backend = "postgres" /\ PostgresNext /\ UNCHANGED <<backend, bump>>
  <2>1. \A s \in Sids : Unlocked({s})
    BY <1>5 DEF StoreInv, Unlocked
  <2> QED BY <1>5, <2>1, SqlStatements, SqlSave, SqlBump
          DEF PostgresNext, PostgresLoad, PostgresSave, PostgresDelete, PostgresBumpTTL,
              PostgresListByUser, PostgresRevokeByUser, PostgresScan, PostgresSweep
<1>6. CASE backend = "mysql" /\ MysqlNext /\ UNCHANGED <<backend, bump>>
  <2>1. ASSUME NEW s \in Sids, NEW d \in Contract!Draft, MysqlSave(s, d)
        PROVE  Unlocked({s}) /\ SqliteSave(s, d)
    BY <2>1 DEF MysqlSave, SqliteSave, Inserted
  <2> QED BY <1>6, <2>1, SqlStatements, SqlSave
          DEF MysqlNext, MysqlLoad, MysqlDelete, MysqlListByUser, MysqlRevokeByUser, MysqlScan, MysqlSweep
<1>7. CASE /\ backend = "mysql" /\ UNCHANGED backend
           /\ \/ \E s \in Sids, until \in Contract!Until, t \in Readings : MysqlBumpSelect(s, until, t)
              \/ MysqlBumpUpdate \/ MysqlBumpRollback
  BY <1>7, MysqlBumpStep
<1> QED BY <1>1, <1>2, <1>3, <1>4, <1>5, <1>6, <1>7, Zenon DEF Next

LEMMA StoreInit ==
  ASSUME ConstantsOK, Init
  PROVE  StoreInv
<1>1. records = [s \in Sids |-> NoRec] /\ now = 0 /\ bump = NoBump /\ userIndex = [u \in {} |-> {}]
  BY DEF Init, Contract!Init
<1>2. \A s \in Sids : UserOf(records, s) = NoUser
  BY <1>1 DEF UserOf
<1>3. {v \in Users : \E s \in Sids : UserOf(records, s) = v} = {}
  BY <1>2 DEF ConstantsOK
<1>4. IndexOf(records) = [u \in {} |-> {}]
  BY <1>3 DEF IndexOf
<1> QED BY <1>1, <1>4 DEF StoreInv, IndexExact

\* The hand-kept index of the memory store is exact after every method and between the
\* two critical sections of Load.
THEOREM IndexAlwaysExact ==
  ASSUME ConstantsOK
  PROVE  Spec => []IndexExact
<1>1. Init => StoreInv
  BY StoreInit
<1>2. StoreInv /\ [Next]_vars => StoreInv'
  BY StoreStep
<1>3. StoreInv => IndexExact
  BY DEF StoreInv
<1> QED BY <1>1, <1>2, <1>3, PTL DEF Spec

\* Each of the four stores implements the contract of session.Store, whatever is asked
\* of it and whatever else goes on between two critical sections or statements.
THEOREM StoresKeepContract ==
  ASSUME ConstantsOK
  PROVE  Spec => Contract!Spec
<1>1. Init => StoreInv /\ Contract!Init
  BY StoreInit DEF Init
<1>2. StoreInv /\ [Next]_vars => StoreInv' /\ [Contract!Next]_(Contract!storeVars)
  BY StoreStep DEF ContractStep
<1> QED BY <1>1, <1>2, PTL DEF Spec, Contract!Spec
=============================================================================
