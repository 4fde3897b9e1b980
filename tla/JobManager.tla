---------------------------- MODULE JobManager ----------------------------
(***************************************************************************)
(* jobs/manager.go, jobs/cron.go and the declarations of jobs/schedule.go:  *)
(* the registry that binds message types to kinds and kinds to handlers,    *)
(* used by several goroutines at once, and the enqueues that read it first  *)
(* and insert later, alone or in a caller's transaction.                    *)
(***************************************************************************)
EXTENDS Naturals, Sequences, FiniteSets, SequencesExt

CONSTANTS
    Callers, Types, Kinds, Names,   \* Names: handler ids, and names of crons and schedules
    MaxCalls,
    None

VARIABLES
    kindByType, typeByKind,
    handlers,       \* HandlerKey -> the type its decode makes
    kindHandlers,   \* kind -> handler ids in registration order
    declared,       \* schedule name -> kind
    call,           \* what each goroutine is doing
    jobs,           \* rows of the store, in insertion order
    hooked,         \* jobs OnEnqueue was called for
    calls

managerVars == <<kindByType, typeByKind, handlers, kindHandlers, declared, call, jobs, hooked, calls>>
registry == <<kindByType, typeByKind, handlers, kindHandlers, declared>>

cronKind(n) == <<"cron", n>>
Cron == "struct{}"
MsgKind(k) == <<"message", k>>
MsgKinds == {MsgKind(k) : k \in Kinds}
AllKinds == MsgKinds \cup {cronKind(n) : n \in Names}

Idle == [op |-> "idle", type |-> None, kind |-> None, ids |-> <<>>, key |-> None, tx |-> FALSE, rows |-> {}]

Init ==
    /\ kindByType = [t \in Types |-> None]
    /\ typeByKind = [k \in MsgKinds |-> None]
    /\ handlers = [key \in {} |-> None]
    /\ kindHandlers = [k \in AllKinds |-> <<>>]
    /\ declared = [n \in {} |-> None]
    /\ call = [c \in Callers |-> Idle]
    /\ jobs = {}
    /\ hooked = {}
    /\ calls = 0

Put(f, k, v) == [i \in DOMAIN f \cup {k} |-> IF i = k THEN v ELSE f[i]]

Begins(c) ==
    /\ call[c].op = "idle"
    /\ calls < MaxCalls
    /\ calls' = calls + 1

(***************************************************************************)
(* The registry, under m.mu.                                                *)
(***************************************************************************)
\* Mutant: one kind may serve two types.
bindsBlind(t, k) == kindByType[t] = None
binds(t, k) == kindByType[t] = None /\ typeByKind[k] = None

\* An error leaves both maps alone; the identical pair is accepted again.
Registered(t, k) ==
    IF binds(t, k)
    THEN /\ kindByType' = [kindByType EXCEPT ![t] = k]
         /\ typeByKind' = [typeByKind EXCEPT ![k] = t]
    ELSE UNCHANGED <<kindByType, typeByKind>>

Register(c, t, k) ==
    /\ Begins(c)
    /\ Registered(t, k)
    /\ UNCHANGED <<handlers, kindHandlers, declared, call, jobs, hooked>>

Attached(t, h) ==
    LET k == kindByType[t]
    IN IF k = None \/ <<k, h>> \in DOMAIN handlers THEN UNCHANGED <<handlers, kindHandlers>>
       ELSE /\ handlers' = Put(handlers, <<k, h>>, t)
            /\ kindHandlers' = [kindHandlers EXCEPT ![k] = Append(@, h)]

On(c, t, h) ==
    /\ Begins(c)
    /\ Attached(t, h)
    /\ UNCHANGED <<kindByType, typeByKind, declared, call, jobs, hooked>>

\* Handle is Register and then On: others may come in between.  (The handler id
\* equals the kind in the code; any fixed name does.)
Handle(c, t, k) ==
    /\ Begins(c)
    /\ Registered(t, k)
    /\ call' = IF kindByType'[t] = k THEN [call EXCEPT ![c] = [Idle EXCEPT !.op = "on", !.type = t]] ELSE call
    /\ UNCHANGED <<handlers, kindHandlers, declared, jobs, hooked>>

HandleOn(c) ==
    /\ call[c].op = "on"
    /\ Attached(call[c].type, CHOOSE h \in Names : TRUE)
    /\ call' = [call EXCEPT ![c] = Idle]
    /\ UNCHANGED <<kindByType, typeByKind, declared, jobs, hooked, calls>>

(***************************************************************************)
(* Declarations, under m.schedMu.                                           *)
(***************************************************************************)
declare(n, k) == declared' = Put(declared, n, k)

RegisterCron(c, n) ==
    /\ Begins(c)
    /\ n \notin DOMAIN declared
    /\ declare(n, cronKind(n))
    /\ call' = [call EXCEPT ![c] = [Idle EXCEPT !.op = "cron", !.kind = cronKind(n), !.ids = <<n>>]]
    /\ UNCHANGED <<kindByType, typeByKind, handlers, kindHandlers, jobs, hooked>>

RegisterCronHandler(c) ==
    /\ call[c].op = "cron"
    /\ handlers' = Put(handlers, <<call[c].kind, call[c].ids[1]>>, Cron)
    /\ kindHandlers' = [kindHandlers EXCEPT ![call[c].kind] = call[c].ids]
    /\ call' = [call EXCEPT ![c] = Idle]
    /\ UNCHANGED <<kindByType, typeByKind, declared, jobs, hooked, calls>>

\* resolve: the kind and a copy of its handler ids, under the read lock.
resolve(t) ==
    [kind |-> kindByType[t], ids |-> IF kindByType[t] = None THEN <<>> ELSE kindHandlers[kindByType[t]]]

Schedules(r) == r.kind # None /\ r.ids # <<>>

\* resolve, then declare; nothing is ever taken out of the registry in between.
Schedule(c, n, t) ==
    /\ Begins(c)
    /\ Schedules(resolve(t))
    /\ n \notin DOMAIN declared
    /\ declare(n, resolve(t).kind)
    /\ UNCHANGED <<kindByType, typeByKind, handlers, kindHandlers, call, jobs, hooked>>

(***************************************************************************)
(* Enqueue, Publish, and their Tx forms: resolve, then build and insert.     *)
(***************************************************************************)
\* Enqueue refuses a kind without exactly one handler.
Enqueues(op, r) == r.kind # None /\ (op = "enqueue" => Len(r.ids) = 1)

Enqueue(c, op, t, key, tx) ==
    /\ Begins(c)
    /\ LET r == resolve(t)
       IN /\ Enqueues(op, r)
          /\ r.ids # <<>>
          /\ call' = [call EXCEPT ![c] =
                [op |-> op, type |-> t, kind |-> r.kind, ids |-> r.ids, key |-> key, tx |-> tx, rows |-> {}]]
    /\ UNCHANGED <<registry, jobs, hooked>>

\* One row for each handler; a live job with the key of the same kind and handler
\* makes a row a duplicate.
buildJobs(c) ==
    LET x == call[c]
    IN {[by |-> calls, caller |-> c, kind |-> x.kind, handler |-> h, type |-> x.type, key |-> x.key] : h \in ToSet(x.ids)}
Duplicate(j) == j.key # None /\ \E i \in jobs : i.key = j.key /\ i.kind = j.kind /\ i.handler = j.handler
Inserts(c) == {j \in buildJobs(c) : ~Duplicate(j)}

\* The hooks run for the rows that went in, before the caller's commit too.
fireEnqueueHooks(c) == Inserts(c)

\* A transaction that inserts the same key waits for this one: it is not taken
\* while another caller holds uncommitted rows with it.
Insert(c) ==
    /\ call[c].op \in {"enqueue", "publish"}
    /\ \A d \in Callers \ {c} : \A j \in call[d].rows, i \in buildJobs(c) :
          ~(j.key # None /\ j.key = i.key /\ j.kind = i.kind /\ j.handler = i.handler)
    /\ hooked' = hooked \cup fireEnqueueHooks(c)
    /\ IF call[c].tx
       THEN /\ call' = [call EXCEPT ![c].op = "commit", ![c].rows = Inserts(c)]
            /\ UNCHANGED jobs
       ELSE /\ call' = [call EXCEPT ![c] = Idle]
            /\ jobs' = jobs \cup Inserts(c)
    /\ UNCHANGED <<registry, calls>>

InsertFails(c) ==
    /\ call[c].op \in {"enqueue", "publish"}
    /\ call' = [call EXCEPT ![c] = Idle]
    /\ UNCHANGED <<registry, jobs, hooked, calls>>

\* The caller's transaction: external.  (A rollback takes back what was announced.)
EndTx(c, commits) ==
    /\ call[c].op = "commit"
    /\ jobs' = IF commits THEN jobs \cup call[c].rows ELSE jobs
    /\ hooked' = IF commits THEN hooked ELSE hooked \ call[c].rows
    /\ call' = [call EXCEPT ![c] = Idle]
    /\ UNCHANGED <<registry, calls>>

Next ==
    \E c \in Callers :
      \/ \E t \in Types :
           \/ \E k \in MsgKinds : Register(c, t, k) \/ Handle(c, t, k)
           \/ \E h \in Names : On(c, t, h) \/ Schedule(c, h, t)
           \/ \E op \in {"enqueue", "publish"}, key \in {None, "key"}, tx \in BOOLEAN : Enqueue(c, op, t, key, tx)
      \/ \E n \in Names : RegisterCron(c, n)
      \/ HandleOn(c) \/ RegisterCronHandler(c)
      \/ Insert(c) \/ InsertFails(c)
      \/ \E commits \in BOOLEAN : EndTx(c, commits)

Spec == Init /\ [][Next]_managerVars

(***************************************************************************)
(* Properties.                                                              *)
(***************************************************************************)
\* Every job has a handler, and that handler decodes the type of the message the
\* job was made from: registering, attaching and enqueueing at once never sends a
\* message to a handler of another type (Register, On, resolve).
JobsRunnable ==
    \A j \in jobs : <<j.kind, j.handler>> \in DOMAIN handlers /\ handlers[<<j.kind, j.handler>>] = j.type

\* A kind lists each of its handlers once, and no others: a publish makes one job
\* for each (On keeps handlers and kindHandlers together).
HandlersListedOnce ==
    \A k \in AllKinds :
        /\ IsInjective(kindHandlers[k])
        /\ ToSet(kindHandlers[k]) = {h \in Names : <<k, h>> \in DOMAIN handlers}

\* A declared schedule fires something, once the call that declared it returned
\* ("a schedule that fires nothing is refused").
DeclaredFires ==
    \A n \in DOMAIN declared :
        \/ kindHandlers[declared[n]] # <<>>
        \/ \E c \in Callers : call[c].op = "cron" /\ call[c].kind = declared[n]

\* OnEnqueue is called exactly for the jobs that exist, or are in a transaction
\* that is still open (fireEnqueueHooks skips duplicates).
HooksMatchJobs == hooked = jobs \cup UNION {call[c].rows : c \in Callers}
=============================================================================
