---------------------------- MODULE MCComponents ----------------------------
(***************************************************************************)
(* The components that keep state for an application - sessions, accounts,  *)
(* caches, limits, migrations, blobs, jobs - each in a small instance. A    *)
(* behaviour is a behaviour of one of them: part names it and the slots v1, *)
(* v2, ... hold its variables.                                              *)
(***************************************************************************)
EXTENDS Integers, Sequences, TLC

CONSTANTS None, Bad, Tomb, Unset, c1, c2, i1, i2, e1, e2, p1, p2, r1, r2, k1, k2

VARIABLES part, v1, v2, v3, v4, v5, v6, v7, v8, v9, v10, v11

vars == <<part, v1, v2, v3, v4, v5, v6, v7, v8, v9, v10, v11>>

from10 == <<v10, v11>>
from9 == <<v9, from10>>
from8 == <<v8, from9>>
from7 == <<v7, from8>>
from6 == <<v6, from7>>
from5 == <<v5, from6>>

Unused10 == v10 = None /\ v11 = None
Unused9 == v9 = None /\ Unused10
Unused8 == v8 = None /\ Unused9
Unused7 == v7 = None /\ Unused8
Unused6 == v6 = None /\ Unused7
Unused5 == v5 = None /\ Unused6

----------------------------------------------------------------------------
(* Sessions and accounts. *)

\* Two requests with one Update call each, beside an out-of-band caller.
SesCells == [App |-> None, Flash |-> {"t"}]
Smg == INSTANCE Session WITH records <- v1, now <- v2, born <- v3, st <- v4, lock <- v5, call <- v6,
         tool <- v7, ops <- v8, truth <- v9, rotated <- v10, got <- v11,
         Requests <- {r1, r2}, Calls <- {k1, k2}, Tools <- {"t"},
         RequestOf <- (k1 :> r1 @@ k2 :> r2), Sids <- 1..4, NoSid <- None, Users <- {"u"},
         NoUser <- None, Cells <- {"App", "Flash"}, App <- "App", Flash <- "Flash", NoCell <- None,
         NoRec <- None, AbsoluteExpiry <- 3, IdleExpiry <- 2, IdleBumpInterval <- 1, MaxRetries <- 1,
         MaxTime <- 0, MaxOps <- 3, Seeds <- {SesCells, Bad}, Rotates <- TRUE, Fails <- TRUE,
         Sequential <- TRUE

\* The same with fewer calls and a clock: idle deadlines slide, sessions lapse.
Sxp == INSTANCE Session WITH records <- v1, now <- v2, born <- v3, st <- v4, lock <- v5, call <- v6,
         tool <- v7, ops <- v8, truth <- v9, rotated <- v10, got <- v11,
         Requests <- {r1, r2}, Calls <- {k1, k2}, Tools <- {"t"},
         RequestOf <- (k1 :> r1 @@ k2 :> r2), Sids <- 1..4, NoSid <- None, Users <- {"u"},
         NoUser <- None, Cells <- {"App", "Flash"}, App <- "App", Flash <- "Flash", NoCell <- None,
         NoRec <- None, AbsoluteExpiry <- 3, IdleExpiry <- 2, IdleBumpInterval <- 1, MaxRetries <- 1,
         MaxTime <- 2, MaxOps <- 2, Seeds <- {SesCells, Bad}, Rotates <- TRUE, Fails <- TRUE,
         Sequential <- TRUE

\* One request that makes two Update calls at once.
Sur == INSTANCE Session WITH records <- v1, now <- v2, born <- v3, st <- v4, lock <- v5, call <- v6,
         tool <- v7, ops <- v8, truth <- v9, rotated <- v10, got <- v11,
         Requests <- {r1}, Calls <- {k1, k2}, Tools <- {}, RequestOf <- (k1 :> r1 @@ k2 :> r1),
         Sids <- 1..5, NoSid <- None, Users <- {"u"}, NoUser <- None, Cells <- {"App", "Flash"},
         App <- "App", Flash <- "Flash", NoCell <- None, NoRec <- None, AbsoluteExpiry <- 3,
         IdleExpiry <- 2, IdleBumpInterval <- 1, MaxRetries <- 1, MaxTime <- 1, MaxOps <- 2,
         Seeds <- {[App |-> None, Flash |-> {k1}]}, Rotates <- FALSE, Fails <- FALSE,
         Sequential <- FALSE

Sto == INSTANCE SessionStores WITH records <- v1, now <- v2, reply <- v3, backend <- v4,
         userIndex <- v5, pruning <- v6, bump <- v7,
         Sids <- {"s1", "s2"}, Users <- {"u"}, NoUser <- None, Payloads <- {"p"}, NoRec <- None,
         Abs <- {2}, Idle <- {0, 1}, MaxVersion <- 2, MaxTime <- 2, Lag <- 1, NoBump <- None
ASSUME StoreConstants == Sto!ConstantsOK

Aut == INSTANCE Auth WITH backend <- v1, identities <- v2, credsByID <- v3, credsByEmail <- v4,
         call <- v5, started <- v6, may <- v7,
         Callers <- {c1, c2}, Ids <- {i1, i2}, Emails <- {e1, e2}, Passwords <- {p1, p2},
         MaxConcurrent <- 1, MaxCalls <- 3,
         record <- None, staged <- None, pc <- None, target <- None, ctx <- None, served <- None,
         requests <- None, login <- None, Subjects <- {}, Roles <- {}, MaxRequests <- 0

Symmetry == Permutations({c1, c2}) \cup Permutations({i1, i2}) \cup Permutations({e1, e2})
              \cup Permutations({p1, p2}) \cup {r1 :> r2 @@ r2 :> r1 @@ k1 :> k2 @@ k2 :> k1}

Ses == INSTANCE Auth WITH record <- v1, staged <- v2, pc <- v3, target <- v4, ctx <- v5,
         served <- v6, requests <- v7, login <- v8,
         Subjects <- {"s1", "s2"}, Roles <- {"r", "q"}, MaxRequests <- 4,
         backend <- None, identities <- None, credsByID <- None, credsByEmail <- None, call <- None,
         started <- None, may <- None, Callers <- {}, Ids <- {}, Emails <- {}, Passwords <- {},
         MaxConcurrent <- 0, MaxCalls <- 0

(* Caching, limits and migrations. *)

Lim == INSTANCE RateLimit WITH now <- v1, backend <- v2, entry <- v3, call <- v4,
         calls <- v5, admitted <- v6, dropped <- v7,
         Callers <- {"c1", "c2"}, Rate <- 2, Period <- 3, Burst <- 0, Horizon <- 3,
         MaxInt <- 9, MaxTime <- 2, MaxCalls <- 3, NoEntry <- None

Cac == INSTANCE Cache WITH source <- v1, stored <- v2, calls <- v3, load <- v4, caller <- v5,
         canceled <- v6, made <- v7, cleared <- v8,
         Callers <- {1, 2}, Instances <- {1}, InstanceOf <- <<1, 1>>, MaxSource <- 1, MaxCalls <- 3
ASSUME CacheConstants == Cac!ConstantsOK

Cst == INSTANCE CacheStores WITH now <- v1, backend <- v2, items <- v3, lru <- v4, ops <- v5,
         used <- v6,
         Keys <- {"k1", "k2", "k3"}, Expiries <- {0, 2}, MaxEntries <- 2, MaxTime <- 2, MaxOps <- 5,
         NoEntry <- None

\* Releases that agree, that add a stream, that edit a file already applied, and
\* that hold a version twice.
F(v, s) == [version |-> v, sum |-> s]
Releases == {<<[stream |-> 1, files |-> {F(1, "a"), F(2, "b")}]>>,
             <<[stream |-> 2, files |-> {F(1, "d")}],
               [stream |-> 1, files |-> {F(1, "a"), F(2, "b")}]>>,
             <<[stream |-> 1, files |-> {F(1, "c"), F(2, "b")}]>>,
             <<[stream |-> 1, files |-> {F(1, "c"), F(1, "b")}]>>}

Mig == INSTANCE Migrations WITH dialect <- v1, history <- v2, effects <- v3, holder <- v4,
         proc <- v5, Procs <- {"p1", "p2"}, Ddl <- {"a"}, MaxEffects <- 3

(* Jobs. *)

Ins == INSTANCE JobInspect WITH now <- v1, backend <- v2, rows <- v3, drawn <- v4, scan <- v5,
         throughout <- v6, workers <- v7, running <- v8, sweeping <- v9,
         JobIds <- {1, 2, 3}, States <- {"a", "b"}, Limits <- {0, 2}, DefaultListLimit <- 1,
         MaxListLimit <- 2, WorkerIds <- {}, Stale <- 1, Lag <- 1, MaxTime <- 1

Reg == INSTANCE JobInspect WITH now <- v1, backend <- v2, rows <- v3, drawn <- v4, scan <- v5,
         throughout <- v6, workers <- v7, running <- v8, sweeping <- v9,
         JobIds <- {}, States <- {}, Limits <- {}, DefaultListLimit <- 1, MaxListLimit <- 2,
         WorkerIds <- {"v", "w"}, Stale <- 1, Lag <- 1, MaxTime <- 4

Sch == INSTANCE SqlSchedules WITH dialect <- v1, now <- v2, calls <- v3, table <- v4, life <- v5,
         conn <- v6, inserted <- v7, putBack <- v8, answer <- v9,
         Groups <- {"g"}, Names <- {1}, Specs <- {1, 2}, Conns <- {c1, c2}, NoRow <- None,
         MaxTime <- 3, MaxCalls <- 5

Man == INSTANCE JobManager WITH kindByType <- v1, typeByKind <- v2, handlers <- v3,
         kindHandlers <- v4, declared <- v5, call <- v6, jobs <- v7, hooked <- v8, calls <- v9,
         Callers <- {"c", "d"}, Types <- {"T", "U"}, Kinds <- {"k", "l"}, Names <- {"m", "n"},
         MaxCalls <- 4

----------------------------------------------------------------------------

Init ==
  \/ part = "sessions" /\ Smg!Init
  \/ part = "session expiry" /\ Sxp!Init
  \/ part = "session stores" /\ Sto!Init /\ Unused8
  \/ part = "auth store" /\ Aut!Init /\ Unused8
  \/ part = "session auth" /\ Ses!LoginInit /\ Unused9
  \/ part = "limiter" /\ Lim!Init /\ Unused8
  \/ part = "cache" /\ Cac!Init /\ Unused9
  \/ part = "cache stores" /\ Cst!Init /\ Unused7
  \/ part = "migrate" /\ Mig!Init /\ Unused6
  \/ part = "inspect" /\ Ins!Init /\ Unused10
  \/ part = "registry" /\ Reg!Init /\ Unused10
  \/ part = "schedules" /\ Sch!Init /\ Unused10
  \/ part = "manager" /\ Man!Init /\ Unused10

Next ==
  \/ part = "sessions" /\ Smg!Next /\ UNCHANGED part
  \/ part = "session expiry" /\ Sxp!Next /\ UNCHANGED part
  \/ part = "session stores" /\ Sto!Next /\ UNCHANGED <<part, from8>>
  \/ part = "auth store" /\ Aut!Next /\ UNCHANGED <<part, from8>>
  \/ part = "session auth" /\ Ses!LoginNext /\ UNCHANGED <<part, from9>>
  \/ part = "limiter" /\ Lim!Next /\ UNCHANGED <<part, from8>>
  \/ part = "cache" /\ Cac!Next /\ UNCHANGED <<part, from9>>
  \/ part = "cache stores" /\ Cst!Next /\ UNCHANGED <<part, from7>>
  \/ part = "migrate" /\ Mig!Next /\ UNCHANGED <<part, from6>>
  \/ part = "inspect" /\ Ins!Next /\ UNCHANGED <<part, from10>>
  \/ part = "registry" /\ Reg!Next /\ UNCHANGED <<part, from10>>
  \/ part = "schedules" /\ Sch!Next /\ UNCHANGED <<part, from10>>
  \/ part = "manager" /\ Man!Next /\ UNCHANGED <<part, from10>>

Spec == Init /\ [][Next]_vars

UpdateRaceInit == part = "update race" /\ Sur!Init
UpdateRaceSpec == UpdateRaceInit /\ [][part = "update race" /\ Sur!Next /\ UNCHANGED part]_vars

----------------------------------------------------------------------------

\* session: every write that a request or an out-of-band call was told is stored, is,
\* whatever commits, Updates and rotations overlap; a flash message is delivered once;
\* no record is left that no client can name; and a session id that was deleted or
\* pruned never names a record again.
SessionsKept ==
  /\ [](part = "sessions" => Smg!UpdatesKept /\ Smg!NoOrphan)
  /\ [](part = "session expiry" => Sxp!UpdatesKept /\ Sxp!NoOrphan)
  /\ [][part = "sessions" => Smg!RevokedStays]_vars
  /\ [][part = "session expiry" => Sxp!RevokedStays]_vars

\* The flash cell holds what the successful calls of one request say, when two of its
\* Updates run at once ("store CAS serializes concurrent updates", cellUpdate).
ConcurrentAddsSurvive == part = "update race" => Sur!ConcurrentAddsSurvive

\* The session stores implement the contract of session.Store (SessionStore): a Load
\* that prunes never takes away a record that was saved meanwhile (MemoryStore), and
\* no statement of the three SQL stores does what the contract does not. The user
\* index of MemoryStore holds exactly the records of each user.
SessionStoresKeepContract ==
  /\ part = "session stores" => Sto!Contract!Init
  /\ [](part = "session stores" => Sto!IndexExact)
  /\ [][part = "session stores" => Sto!ContractStep]_vars

\* auth stores: the tables change only by one whole operation of the contract, the
\* answer of a write is one that the contract gives at some moment of the call, and
\* the email index agrees with the credentials. password.Login: a rehash never brings
\* back a password that was replaced. sessionauth: a request never runs with the
\* claims of an earlier subject, and a guard lets it through only with a principal
\* that satisfies the guard.
AuthKeepsContract ==
  /\ [](part = "auth store" => Aut!EmailIndexExact /\ Aut!AnswerJustified)
  /\ [](part = "session auth" => Ses!NoStaleClaims /\ Ses!GuardNeedsPrincipal)
  /\ [][part = "auth store" => Aut!ChangesByContract /\ Aut!RehashKeepsPassword]_vars

\* ratelimit: no window of the key's events holds more than the Limit permits,
\* however calls of admit overlap, retry and reserve ahead, and the Remaining and
\* RetryAfter of a Result are exact.
LimiterExact == part = "limiter" => Lim!WithinLimit /\ Lim!ResultExact

\* Cache: Delete wins over the loads that were already running or writing, a key has
\* one load at a time in an instance, and a waiter is never answered with another
\* caller's cancellation. Its stores: the list and the map of MemoryStore agree, in
\* the order of use, within the limit, and an entry that is not expired leaves only by
\* Delete, Set or eviction.
CacheDeletionWins ==
  /\ [](part = "cache" => Cac!DeletionWins /\ Cac!OneLoad /\ Cac!OwnCancellation)
  /\ [](part = "cache stores" => Cst!ListExact)
  /\ [][part = "cache stores" => Cst!FreshStays]_vars

\* Migrate: whatever dies, a body has run exactly as often as it is recorded and
\* bodies run in the order of their versions; nil means that every file is applied
\* and none drifted, from then on; nothing is applied over files that disagree with
\* what is recorded; a connection goes back to the pool without its lock.
MigrateExact ==
  /\ [](part = "migrate" => /\ Mig!RecordedRanOnce /\ Mig!AppliedInOrder
                            /\ Mig!MigratedIsApplied /\ Mig!PoolClean)
  /\ [][part = "migrate" => Mig!OverNoDrift]_vars

\* jobs.Manager: every stored job has a handler that decodes its type, the handlers of
\* a kind are listed once each, a declared schedule enqueues a job that some handler
\* takes, and OnEnqueue hears of exactly the jobs that were inserted. ListJobs, page by
\* page, has every row that matched all along, once, in order; ListWorkers has every
\* live worker.
ManagerConsistent ==
  /\ part = "manager" => /\ Man!JobsRunnable /\ Man!HandlersListedOnce
                         /\ Man!DeclaredFires /\ Man!HooksMatchJobs
  /\ part = "inspect" => Ins!ScanExact
  /\ part = "registry" => Reg!LiveListed

\* The schedule tables of the SQL stores: one scheduler fires a row per LastRunAt, NULL
\* included, whoever rewrites and deletes it meanwhile; UpsertSchedule keeps LastRunAt
\* and the cadence; a group lists its own rows.
SchedulesElectOnce ==
  /\ [](part = "schedules" => Sch!OneWinnerPerLastRun /\ Sch!ListsItsGroup)
  /\ [][part = "schedules" => Sch!CadencePreserved]_vars
=============================================================================
