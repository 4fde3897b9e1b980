----------------------------- MODULE CacheStores -----------------------------
(***************************************************************************)
(* The stores of src/cache: MemoryStore, a map with a list in order of     *)
(* last use, and the SQL tables.  Each method is atomic: the mutex of the  *)
(* memory store, one statement elsewhere.  An entry is the time it expires *)
(* (0 is never) and the number of the Set that wrote it.  Instants out of  *)
(* the int64 range are refused before anything is read and are left out.   *)
(***************************************************************************)
EXTENDS Integers, Sequences, SequencesExt

CONSTANTS Keys, Expiries, MaxEntries, MaxTime, MaxOps, NoEntry

VARIABLES now, backend, items,
          lru,    \* front first: most recently used
          ops,    \* operations so far
          used    \* history: the operation that last used the key

storeVars == <<now, backend, items, lru, ops, used>>

\* The expiry instant itself is expired.
expired(e, t) == e.exp # 0 /\ t >= e.exp

Held(k) == items[k] # NoEntry

Init ==
  /\ now = 1 /\ ops = 0 /\ lru = <<>>
  /\ backend \in {"memory", "sqlite", "postgres", "mysql"}
  /\ items = [k \in Keys |-> NoEntry]
  /\ used = [k \in Keys |-> 0]

Op == ops < MaxOps /\ ops' = ops + 1 /\ UNCHANGED <<now, backend>>

Use(k) == used' = [used EXCEPT ![k] = ops']

--------------------------------- (* memory *) -------------------------------

Off(k) == Remove(lru, k)

MoveToFront(k) == lru' = <<k>> \o Off(k)

remove(k) == items' = [items EXCEPT ![k] = NoEntry] /\ lru' = Off(k)

\* An expired entry is returned once and pruned.
MemoryGet(k) ==
  IF ~Held(k) THEN UNCHANGED <<items, lru, used>>
  ELSE IF expired(items[k], now) THEN remove(k) /\ UNCHANGED used
  ELSE MoveToFront(k) /\ Use(k) /\ UNCHANGED items

\* A new key beyond the limit evicts the back of the list.
MemorySet(k, e) ==
  LET pushed == <<k>> \o lru
      out == IF Held(k) \/ MaxEntries <= 0 \/ Len(pushed) <= MaxEntries THEN {} ELSE {Last(pushed)}
  IN  /\ items' = [x \in Keys |-> IF x \in out THEN NoEntry ELSE IF x = k THEN e ELSE items[x]]
      /\ lru' = IF Held(k) THEN <<k>> \o Off(k) ELSE SelectSeq(pushed, LAMBDA x : x \notin out)
      /\ Use(k)

MemoryDelete(k) == IF Held(k) THEN remove(k) /\ UNCHANGED used ELSE UNCHANGED <<items, lru, used>>

MemorySweep ==
  LET dead == {k \in Keys : Held(k) /\ expired(items[k], now)}
  IN  /\ items' = [k \in Keys |-> IF k \in dead THEN NoEntry ELSE items[k]]
      /\ lru' = SelectSeq(lru, LAMBDA k : k \notin dead)
      /\ UNCHANGED used

---------------------------------- (* SQL *) ---------------------------------

SqliteGet(k) == UNCHANGED <<items, lru, used>>

SqliteSet(k, e) == items' = [items EXCEPT ![k] = e] /\ UNCHANGED <<lru, used>>

SqliteDelete(k) == items' = [items EXCEPT ![k] = NoEntry] /\ UNCHANGED <<lru, used>>

SqliteSweep ==
  /\ items' = [k \in Keys |-> IF Held(k) /\ items[k].exp # 0 /\ items[k].exp <= now THEN NoEntry ELSE items[k]]
  /\ UNCHANGED <<lru, used>>

PostgresGet(k) == SqliteGet(k)

PostgresSet(k, e) == SqliteSet(k, e)

PostgresDelete(k) == SqliteDelete(k)

PostgresSweep == SqliteSweep

MysqlGet(k) == SqliteGet(k)

MysqlSet(k, e) == SqliteSet(k, e)

MysqlDelete(k) == SqliteDelete(k)

MysqlSweep == SqliteSweep

---------------------------------- (* Next *) --------------------------------

Get(k) == /\ Op
          /\ CASE backend = "memory" -> MemoryGet(k) [] backend = "sqlite" -> SqliteGet(k)
               [] backend = "postgres" -> PostgresGet(k) [] backend = "mysql" -> MysqlGet(k)

Set(k, e) == /\ Op
             /\ CASE backend = "memory" -> MemorySet(k, e) [] backend = "sqlite" -> SqliteSet(k, e)
                  [] backend = "postgres" -> PostgresSet(k, e) [] backend = "mysql" -> MysqlSet(k, e)

Delete(k) == /\ Op
             /\ CASE backend = "memory" -> MemoryDelete(k) [] backend = "sqlite" -> SqliteDelete(k)
                  [] backend = "postgres" -> PostgresDelete(k) [] backend = "mysql" -> MysqlDelete(k)

Sweep == /\ Op
         /\ CASE backend = "memory" -> MemorySweep [] backend = "sqlite" -> SqliteSweep
              [] backend = "postgres" -> PostgresSweep [] backend = "mysql" -> MysqlSweep

Tick == now < MaxTime /\ now' = now + 1 /\ UNCHANGED <<backend, items, lru, ops, used>>

Next ==
  \/ \E k \in Keys : Get(k) \/ Delete(k) \/ \E x \in Expiries : Set(k, [exp |-> x, id |-> ops + 1])
  \/ Sweep
  \/ Tick

Spec == Init /\ [][Next]_storeVars

------------------------------- (* properties *) -----------------------------

\* The list of MemoryStore holds exactly the keys of its map, once each, in order of
\* last use, and no more of them than MaxEntries.
ListExact ==
  backend = "memory" =>
    /\ ToSet(lru) = {k \in Keys : Held(k)} /\ IsInjective(lru)
    /\ \A i, j \in DOMAIN lru : i < j => used[lru[i]] > used[lru[j]]
    /\ MaxEntries > 0 => Len(lru) <= MaxEntries

\* An entry that is not expired leaves the store by its own Delete, by a Set of its
\* key, or, in a full MemoryStore, as the least recently used one when a new key comes.
FreshStays ==
  \A k \in Keys :
    Held(k) /\ ~expired(items[k], now) /\ items'[k] = NoEntry =>
      \/ Delete(k)
      \/ /\ backend = "memory" /\ Len(lru) = MaxEntries /\ Last(lru) = k
         /\ \E j \in Keys : ~Held(j) /\ items'[j] # NoEntry
=============================================================================
