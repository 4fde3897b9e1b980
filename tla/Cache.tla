-------------------------------- MODULE Cache --------------------------------
(***************************************************************************)
(* GetOrLoad, Set and Delete of a typed cache (src/cache/cache.go) and the *)
(* load group that lets concurrent callers share one load (load.go), for   *)
(* one key.  A value is the version of the source it was computed from.    *)
(* Several Cache instances may share the store; each has a load group of   *)
(* its own.                                                                *)
(***************************************************************************)
EXTENDS Integers, FiniteSets

CONSTANTS Callers, Instances,
          InstanceOf,    \* [Callers -> Instances]: the Cache a caller uses
          MaxSource,     \* bound: changes of the source
          MaxCalls,      \* bound: calls ever made
          None

VARIABLES source,    \* the version of what is cached
          stored,    \* the entry of the key, or None: [ver, by]
          calls,     \* loadGroup.calls: the runner of the active load, or None
          load,      \* activeLoad of a runner: invalidated, pubSem taken
          caller,    \* where each caller is
          canceled,  \* callers whose context ended
          made,      \* calls made so far
          cleared    \* history: the source when the last finished Delete began

ConstantsOK ==
  /\ InstanceOf \in [Callers -> Instances] /\ None \notin Callers
  /\ MaxSource \in Nat /\ MaxCalls \in Nat

cacheVars == <<source, stored, calls, load, caller, canceled, made, cleared>>

Idle == [pc |-> "idle"]

Init ==
  /\ source = 0 /\ stored = None /\ made = 0
  /\ calls = [i \in Instances |-> None]
  /\ load = [p \in Callers |-> None]
  /\ caller = [p \in Callers |-> Idle] /\ canceled = {}
  /\ cleared = [i \in Instances |-> 0]

At(p, pc) == caller[p].pc = pc

\* A caller that is in no call makes one.
Calls(p) == caller[p].pc \in {"idle", "returned"} /\ made < MaxCalls /\ made' = made + 1

Goto(p, r) == caller' = [caller EXCEPT ![p] = r]

Return(p, r) == Goto(p, [pc |-> "returned", res |-> r])

Ver(v) == <<"value", v>>

CtxErr(p) == <<"canceled", p>>

------------------------------ (* environment *) -----------------------------

\* Whoever changes the source deletes the key afterwards; here, at any time.
Update == /\ source < MaxSource /\ source' = source + 1
          /\ UNCHANGED <<stored, calls, load, caller, canceled, made, cleared>>

Cancel(p) == /\ p \notin canceled /\ ~At(p, "idle") /\ ~At(p, "returned")
             /\ canceled' = canceled \cup {p}
             /\ UNCHANGED <<source, stored, calls, load, caller, made, cleared>>

\* Expiry, eviction and restart: "the cache may drop any entry".
Drop == /\ stored # None /\ stored' = None
        /\ UNCHANGED <<source, calls, load, caller, canceled, made, cleared>>

--------------------------------- (* lookup *) -------------------------------
\* What lookupOrMiss may answer: the entry; a miss, also for a fault of the store or
\* of the codec; the caller's own cancellation.

lookupOrMiss(p) ==
  (IF stored # None THEN {Ver(stored.ver)} ELSE {}) \cup {<<"miss">>}
    \cup (IF p \in canceled THEN {CtxErr(p)} ELSE {})

------------------------------- (* GetOrLoad *) ------------------------------

GetOrLoad(p) ==
  /\ Calls(p) /\ canceled' = canceled \ {p}
  /\ Goto(p, [pc |-> "lookup"])
  /\ UNCHANGED <<source, stored, calls, load, cleared>>

Lookup(p) ==
  /\ At(p, "lookup")
  /\ IF p \in canceled THEN Return(p, CtxErr(p))
     ELSE \E a \in lookupOrMiss(p) :
            IF a = <<"miss">> THEN Goto(p, [pc |-> "join"]) ELSE Return(p, a)
  /\ UNCHANGED <<source, stored, calls, load, canceled, made, cleared>>

\* once: wait for the active load of the key or become its runner.
once(p) ==
  LET i == InstanceOf[p] IN
  /\ At(p, "join")
  /\ IF calls[i] # None
     THEN Goto(p, [pc |-> "wait", on |-> calls[i]]) /\ UNCHANGED <<calls, load>>
     ELSE /\ calls' = [calls EXCEPT ![i] = p]
          /\ load' = [load EXCEPT ![p] = [invalidated |-> FALSE, sem |-> FALSE]]
          /\ Goto(p, [pc |-> "recheck"])
  /\ UNCHANGED <<source, stored, canceled, made, cleared>>

\* Mutant: a load that panics stays in the group, and its waiters are not woken.
FinishNotOnPanic(p, res) ==
  /\ calls' = IF res = <<"panic">> THEN calls ELSE [calls EXCEPT ![InstanceOf[p]] = None]
  /\ load' = IF res = <<"panic">> THEN load ELSE [load EXCEPT ![p] = None]
  /\ caller' = [q \in Callers |->
       CASE q = p -> [pc |-> "returned", res |-> res]
         [] At(q, "wait") /\ caller[q].on = p /\ res # <<"panic">> ->
              [pc |-> "woken", res |-> res, runner |-> p, runnerCtx |-> p \in canceled]
         [] At(q, "invalidate") /\ caller[q].on = p -> [caller[q] EXCEPT !.on = None]
         [] OTHER -> caller[q]]

\* The deferred function of once: the load leaves the group, and everybody who
\* waits for it, or wants to invalidate it, holds it finished.
Finish(p, res) ==
  LET i == InstanceOf[p]
      waiting == {w \in Callers : At(w, "wait") /\ caller[w].on = p}
      deleting == {d \in Callers : At(d, "invalidate") /\ caller[d].on = p}
  IN  /\ calls' = [calls EXCEPT ![i] = None]
      /\ load' = [load EXCEPT ![p] = None]
      /\ caller' = [q \in Callers |->
           IF q = p THEN [pc |-> "returned", res |-> res]
           ELSE IF q \in waiting
             THEN [pc |-> "woken", res |-> res, runner |-> p, runnerCtx |-> p \in canceled]
           ELSE IF q \in deleting THEN [pc |-> "invalidate", on |-> None, began |-> caller[q].began]
           ELSE caller[q]]

Recheck(p) ==
  /\ At(p, "recheck")
  /\ \E a \in lookupOrMiss(p) :
       IF a # <<"miss">> THEN Finish(p, a)
       ELSE IF p \in canceled THEN Finish(p, CtxErr(p))
       ELSE Goto(p, [pc |-> "load"]) /\ UNCHANGED <<calls, load>>
  /\ UNCHANGED <<source, stored, canceled, made, cleared>>

\* The caller's function reads the source, and takes its time to return.
LoadRead(p) ==
  /\ At(p, "load") /\ Goto(p, [pc |-> "loaded", ver |-> source])
  /\ UNCHANGED <<source, stored, calls, load, canceled, made, cleared>>

LoadFails(p) ==
  /\ At(p, "load")
  /\ \E e \in {<<"error">>, <<"panic">>} \cup (IF p \in canceled THEN {CtxErr(p)} ELSE {}) : Finish(p, e)
  /\ UNCHANGED <<source, stored, canceled, made, cleared>>

\* A canceled load returns its value without caching it.
LoadReturns(p) ==
  /\ At(p, "loaded")
  /\ IF p \in canceled THEN Finish(p, Ver(caller[p].ver))
     ELSE Goto(p, [pc |-> "publish", ver |-> caller[p].ver]) /\ UNCHANGED <<calls, load>>
  /\ UNCHANGED <<source, stored, canceled, made, cleared>>

\* Mutant: publish looks at invalidated before it takes the semaphore.
publishUnserialized(p) ==
  /\ At(p, "publish")
  /\ IF load[p].invalidated THEN Finish(p, Ver(caller[p].ver))
     ELSE Goto(p, [pc |-> "write", ver |-> caller[p].ver]) /\ UNCHANGED <<calls, load>>
  /\ UNCHANGED <<source, stored, canceled, made, cleared>>

\* publish takes pubSem and holds it over the write.
publish(p) ==
  /\ At(p, "publish")
  /\ IF load[p].invalidated THEN Finish(p, Ver(caller[p].ver))
     ELSE /\ Goto(p, [pc |-> "write", ver |-> caller[p].ver])
          /\ load' = [load EXCEPT ![p].sem = TRUE] /\ UNCHANGED calls
  /\ UNCHANGED <<source, stored, canceled, made, cleared>>

\* The write may fail, and may have taken effect although it failed; the value is
\* returned either way.
PublishWrite(p) ==
  /\ At(p, "write")
  /\ stored' \in {[ver |-> caller[p].ver, by |-> InstanceOf[p]], stored}
  /\ Finish(p, Ver(caller[p].ver))
  /\ UNCHANGED <<source, canceled, made, cleared>>

\* The load ended because its runner was canceled: somebody else takes over.
retryable(p, k) == k.res = CtxErr(k.runner) /\ k.runnerCtx

Woken(p) ==
  LET k == caller[p] IN
  /\ At(p, "woken")
  /\ IF k.res = <<"panic">> THEN Return(p, k.res)
     ELSE IF p \in canceled THEN Return(p, CtxErr(p))
     ELSE IF retryable(p, k) THEN Goto(p, [pc |-> "join"])
     ELSE Return(p, k.res)
  /\ UNCHANGED <<source, stored, calls, load, canceled, made, cleared>>

WaitCanceled(p) ==
  /\ At(p, "wait") /\ p \in canceled /\ Return(p, CtxErr(p))
  /\ UNCHANGED <<source, stored, calls, load, canceled, made, cleared>>

----------------------------- (* Set and Delete *) ---------------------------

\* Cache.Set called directly with a value of now.
Set(p) ==
  /\ Calls(p)
  /\ stored' = [ver |-> source, by |-> InstanceOf[p]]
  /\ UNCHANGED <<source, calls, load, caller, canceled, cleared>>

\* Delete finds the active load of its own instance.
Delete(p) ==
  /\ Calls(p) /\ canceled' = canceled \ {p}
  /\ Goto(p, [pc |-> "deleting", began |-> source])
  /\ UNCHANGED <<source, stored, calls, load, cleared>>

DeleteFinds(p) ==
  /\ At(p, "deleting")
  /\ Goto(p, [pc |-> "invalidate", on |-> calls[InstanceOf[p]], began |-> caller[p].began])
  /\ UNCHANGED <<source, stored, calls, load, canceled, made, cleared>>

invalidate(p) ==
  LET c == caller[p].on IN
  /\ At(p, "invalidate")
  /\ \/ c = None /\ Goto(p, [pc |-> "remove", began |-> caller[p].began]) /\ UNCHANGED load
     \/ /\ c # None /\ ~load[c].sem
        /\ load' = [load EXCEPT ![c].invalidated = TRUE]
        /\ Goto(p, [pc |-> "remove", began |-> caller[p].began])
     \/ c # None /\ p \in canceled /\ Return(p, CtxErr(p)) /\ UNCHANGED load
  /\ UNCHANGED <<source, stored, calls, canceled, made, cleared>>

\* The store's Delete, which may fail.
Remove(p) ==
  /\ At(p, "remove")
  /\ \/ /\ stored' = None /\ Return(p, <<"deleted">>)
        /\ cleared' = [cleared EXCEPT ![InstanceOf[p]] =
                         IF caller[p].began > @ THEN caller[p].began ELSE @]
     \/ stored' \in {stored, None} /\ Return(p, <<"error">>) /\ UNCHANGED cleared
  /\ UNCHANGED <<source, calls, load, canceled, made>>

---------------------------------- (* Spec *) --------------------------------

Running(p) == \/ Recheck(p) \/ LoadRead(p) \/ LoadFails(p) \/ LoadReturns(p) \/ publish(p) \/ PublishWrite(p)

Proceed(p) == \/ Lookup(p) \/ once(p) \/ Running(p) \/ Woken(p) \/ WaitCanceled(p)
              \/ DeleteFinds(p) \/ invalidate(p) \/ Remove(p)

Next == \/ Update \/ Drop
        \/ \E p \in Callers : GetOrLoad(p) \/ Set(p) \/ Delete(p) \/ Cancel(p) \/ Proceed(p)

Spec == Init /\ [][Next]_cacheVars

------------------------------- (* properties *) -----------------------------

\* "so the deletion wins" (Cache.Delete): once a Delete has returned, no value that
\* was computed before it began comes back from a load of that Cache instance, even
\* one that was already writing.
DeletionWins == stored # None => stored.ver >= cleared[stored.by]

\* "calls load once" (GetOrLoad): one load at a time runs for a key in an instance,
\* and a runner is always the one its group knows.
OneLoad ==
  \A p \in Callers : caller[p].pc \in {"recheck", "load", "loaded", "publish", "write"}
                       => calls[InstanceOf[p]] = p

\* "A caller whose ctx ends while waiting gets its own context error": nobody is
\* answered with the cancellation of another caller.
OwnCancellation ==
  \A p, q \in Callers : At(p, "returned") /\ caller[p].res = CtxErr(q) => p = q
=============================================================================
