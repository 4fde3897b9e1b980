------------------------------ MODULE RateLimit ------------------------------
(***************************************************************************)
(* The rate limiter (src/ratelimit): GCRA over a store of one time per     *)
(* key.  The time is the theoretical arrival time (TAT): when the bucket   *)
(* will be full again.  A call reads the clock, reads the store, and       *)
(* writes by compare-and-swap; it starts again when another call came in   *)
(* between.  Keys do not interact, so the model has one.                   *)
(***************************************************************************)
EXTENDS Integers, Sequences, FiniteSets, FiniteSetsExt

CONSTANTS Callers,
          Rate, Period, Burst,   \* the Limit
          Horizon,               \* WithReservationHorizon
          MaxInt,                \* math.MaxInt64
          MaxTime, MaxCalls,     \* bounds: the clock, the calls ever made
          NoEntry

VARIABLES now,
          backend,   \* which Store this is
          entry,     \* NoEntry or [value, expiresAt]
          call,      \* the call each caller is in, or its last answer
          calls,     \* the calls made so far
          admitted,  \* history: the events admitted, when they may happen
          dropped    \* history: how often the entry was removed

limVars == <<now, backend, entry, call, calls, admitted, dropped>>

Backends == {"memory", "sqlite", "postgres", "mysql"}

---------------------------------- (* Limit *) -------------------------------

capacity == IF Burst > 0 THEN Burst ELSE Rate

emission == Period \div Rate + (IF Period % Rate # 0 THEN 1 ELSE 0)

Validate == Rate > 0 /\ Period > 0 /\ Burst >= 0 /\ emission > 0 /\ emission <= MaxInt \div capacity

window == capacity * emission

Larger(a, b) == IF a > b THEN a ELSE b

unitsRemaining(fill) == IF window - fill < 0 THEN 0 ELSE (window - fill) \div emission

Idle == [pc |-> "idle"]

Init ==
  /\ Validate
  /\ now = 0 /\ backend \in Backends /\ entry = NoEntry
  /\ call = [c \in Callers |-> Idle]
  /\ calls = 0 /\ admitted = <<>> /\ dropped = 0

---------------------------------- (* Store *) -------------------------------
\* Everywhere, an entry that expires at or before t is absent.

Live(t) == entry # NoEntry /\ entry.expiresAt > t

Removed == entry' = NoEntry /\ dropped' = dropped + 1

Kept == UNCHANGED <<entry, dropped>>

Written(v) == entry' = [value |-> v, expiresAt |-> v] /\ UNCHANGED dropped

MemoryGet(t) == IF entry # NoEntry /\ ~Live(t) THEN Removed ELSE Kept

SqliteGet(t) == Kept

PostgresGet(t) == Kept

MysqlGet(t) == Kept

\* Whether the conditional write takes effect.
MemorySetIfAbsent(t) == ~Live(t)

SqliteSetIfAbsent(t) == entry = NoEntry \/ entry.expiresAt <= t

PostgresSetIfAbsent(t) == entry = NoEntry \/ entry.expiresAt <= t

\* INSERT; on a duplicate key, the row is locked before its expiry is read, so
\* nothing comes between the test and the overwrite.
MysqlSetIfAbsent(t) == ~(entry # NoEntry /\ entry.expiresAt > t)

MemoryCompareAndSwap(old, t) == Live(t) /\ entry.value = old

SqliteCompareAndSwap(old, t) == entry # NoEntry /\ entry.value = old /\ entry.expiresAt > t

PostgresCompareAndSwap(old, t) == SqliteCompareAndSwap(old, t)

\* SELECT ... FOR UPDATE, then UPDATE under the row lock.
MysqlCompareAndSwap(old, t) == entry # NoEntry /\ ~(entry.expiresAt <= t \/ entry.value # old)

Get(t) == CASE backend = "memory" -> MemoryGet(t) [] backend = "sqlite" -> SqliteGet(t)
            [] backend = "postgres" -> PostgresGet(t) [] backend = "mysql" -> MysqlGet(t)

SetIfAbsent(t) ==
  CASE backend = "memory" -> MemorySetIfAbsent(t) [] backend = "sqlite" -> SqliteSetIfAbsent(t)
    [] backend = "postgres" -> PostgresSetIfAbsent(t) [] backend = "mysql" -> MysqlSetIfAbsent(t)

CompareAndSwap(old, t) ==
  CASE backend = "memory" -> MemoryCompareAndSwap(old, t) [] backend = "sqlite" -> SqliteCompareAndSwap(old, t)
    [] backend = "postgres" -> PostgresCompareAndSwap(old, t) [] backend = "mysql" -> MysqlCompareAndSwap(old, t)

\* Every store has the same Sweep.  Its caller reads the clock of the limiter.
Sweep == /\ entry # NoEntry /\ ~Live(now) /\ Removed
         /\ UNCHANGED <<now, backend, call, calls, admitted>>

---------------------------------- (* admit *) -------------------------------

Set(c, r) == call' = [call EXCEPT ![c] = r]

\* AllowN(n) and ReserveN(n); n is checked before anything is read.
AllowN(c, n) == Set(c, [pc |-> "clock", n |-> n, reserve |-> FALSE])

ReserveN(c, n) == Set(c, [pc |-> "clock", n |-> n, reserve |-> TRUE])

Begin(c, n) ==
  /\ call[c].pc \in {"idle", "done"} /\ calls < MaxCalls /\ calls' = calls + 1
  /\ n \in 1..capacity
  /\ AllowN(c, n) \/ ReserveN(c, n)
  /\ UNCHANGED <<now, backend, entry, admitted, dropped>>

ReadClock(c) ==
  /\ call[c].pc = "clock"
  /\ Set(c, [pc |-> "get", n |-> call[c].n, reserve |-> call[c].reserve, now |-> now])
  /\ UNCHANGED <<now, backend, entry, calls, admitted, dropped>>

Denied(k, tat) ==
  [pc |-> "done", allowed |-> FALSE, n |-> k.n, now |-> k.now, tat |-> tat,
   remaining |-> unitsRemaining(tat - k.now),
   retryAfter |-> tat + k.n * emission - window - k.now]

Allowed(k) ==
  [pc |-> "done", allowed |-> TRUE, n |-> k.n, now |-> k.now, tat |-> k.newTAT,
   remaining |-> unitsRemaining(k.newTAT - k.now), retryAfter |-> 0]

\* The store is read; the call is answered, refused or goes on to write.
admit(c) ==
  LET k == call[c]
      exists == Live(k.now)
      tat == IF exists THEN Larger(entry.value, k.now) ELSE k.now
      newTAT == tat + k.n * emission
      wait == newTAT - window - k.now
  IN  /\ k.pc = "get" /\ Get(k.now)
      /\ Set(c, IF newTAT > MaxInt THEN Idle
                ELSE IF ~k.reserve /\ wait > 0 THEN Denied(k, tat)
                ELSE IF k.reserve /\ wait > Horizon THEN Idle
                ELSE [pc |-> "write", n |-> k.n, reserve |-> k.reserve, now |-> k.now,
                      newTAT |-> newTAT, exists |-> exists,
                      stored |-> IF exists THEN entry.value ELSE 0])
      /\ UNCHANGED <<now, backend, calls, admitted>>

\* An admitted event may happen when it was asked for, or at its ReadyAt.
Event(k) == [at |-> Larger(k.now, k.newTAT - window), n |-> k.n, life |-> dropped]

\* Mutant: a lost race is taken for an admission.
loseAnyway(c, k) == Set(c, Allowed(k)) /\ admitted' = Append(admitted, Event(k)) /\ Kept

lose(c, k) == Set(c, [pc |-> "clock", n |-> k.n, reserve |-> k.reserve]) /\ Kept /\ UNCHANGED admitted

admitWrite(c) ==
  LET k == call[c]
      ok == IF k.exists THEN CompareAndSwap(k.stored, k.now) ELSE SetIfAbsent(k.now)
  IN  /\ k.pc = "write"
      /\ IF ok
         THEN /\ Written(k.newTAT) /\ Set(c, Allowed(k))
              /\ admitted' = Append(admitted, Event(k))
         ELSE lose(c, k)
      /\ UNCHANGED <<now, backend, calls>>

Tick == now < MaxTime /\ now' = now + 1 /\ UNCHANGED <<backend, entry, call, calls, admitted, dropped>>

Step(c) == ReadClock(c) \/ (call[c].pc = "get" /\ admit(c)) \/ (call[c].pc = "write" /\ admitWrite(c))

Next ==
  \/ \E c \in Callers : \/ \E n \in 1..capacity : Begin(c, n)
                        \/ Step(c)
  \/ Sweep
  \/ Tick

Spec == Init /\ [][Next]_limVars

------------------------------- (* properties *) -----------------------------

Units(S) == MapThenSumSet(LAMBDA i : admitted[i].n, S)

\* What the Limit permits in a window of length w, times Period.
Permits(w) == capacity * Period + Rate * Larger(0, w)

Between(i, j) ==
  {e \in DOMAIN admitted : admitted[i].at <= admitted[e].at /\ admitted[e].at <= admitted[j].at}

\* "Rate events per Period and Burst events at once" (Limit), for any window that
\* opens and closes with an event, however calls overlap, retry and reserve ahead,
\* and whichever store is used, as long as the entry is not removed meanwhile.
WithinLimit ==
  \A i, j \in DOMAIN admitted :
    Units({e \in Between(i, j) : admitted[e].life = admitted[i].life}) * Period
      <= Permits(admitted[j].at - admitted[i].at)

\* Result tells the truth: Remaining is how many more unit events would be admitted
\* at that instant, and RetryAfter is exactly when the refused call would succeed.
Fits(tat, n, t) == Larger(tat, t) + n * emission - window <= t

ResultExact ==
  \A c \in Callers : LET r == call[c] IN
    r.pc = "done" =>
      /\ \A k \in 1..capacity : k <= r.remaining <=> Fits(r.tat, k, r.now)
      /\ ~r.allowed => \A t \in r.now..(MaxTime + window) : t >= r.now + r.retryAfter <=> Fits(r.tat, r.n, t)

\* A call that began, and one that has its Result.
Began(c) == call[c].pc = "clock"
Answered(c) == call[c].pc \in {"idle", "done"}
=============================================================================
