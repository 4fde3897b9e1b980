---------------------------- MODULE CacheProofs -----------------------------
(***************************************************************************)
(* Loads, deletions and cancellations of a cache key, for any number of     *)
(* callers and Cache instances.                                             *)
(***************************************************************************)
EXTENDS Cache, TLAPS

Loading == {"recheck", "load", "loaded", "publish", "write"}
HasValue == {"loaded", "publish", "write"}

Active(p) == caller[p].pc \in Loading
Valued(p) == caller[p].pc \in HasValue

Load == [invalidated : BOOLEAN, sem : BOOLEAN]

TypeInv ==
  /\ source \in Nat
  /\ cleared \in [Instances -> Nat]
  /\ calls \in [Instances -> Callers \cup {None}]
  /\ load \in [Callers -> Load \cup {None}]
  /\ DOMAIN caller = Callers

\* The group knows the runner of an instance and nobody else.
RunnerKnown ==
  /\ \A p \in Callers : Active(p) => calls[InstanceOf[p]] = p /\ load[p] \in Load
  /\ \A i \in Instances : calls[i] # None => Active(calls[i]) /\ InstanceOf[calls[i]] = i

\* pubSem is held over the write, and whoever waits for a load, to share or to
\* invalidate it, waits for the runner of their own instance.
Holds ==
  /\ \A p \in Callers : Active(p) => (load[p].sem <=> At(p, "write"))
  /\ \A q \in Callers : At(q, "wait") => caller[q].on \in Callers
  /\ \A q \in Callers : At(q, "invalidate") =>
       /\ caller[q].on \in Callers \cup {None}
       /\ caller[q].on # None => Active(caller[q].on) /\ InstanceOf[caller[q].on] = InstanceOf[q]

Times ==
  /\ \A i \in Instances : cleared[i] <= source
  /\ \A p \in Callers : Valued(p) => caller[p].ver \in Nat /\ caller[p].ver <= source
  /\ \A q \in Callers : caller[q].pc \in {"deleting", "invalidate", "remove"} =>
       caller[q].began \in Nat /\ caller[q].began <= source

\* A value older than a deletion of its instance is known to be, or will be before
\* the deletion reaches the store: what is at the write is none of them.
Stale(p, b) == Valued(p) /\ caller[p].ver < b
Caught(p) == load[p].invalidated /\ ~At(p, "write")

OldValuesCaught ==
  /\ \A p \in Callers : Stale(p, cleared[InstanceOf[p]]) => Caught(p)
  /\ \A p, q \in Callers : InstanceOf[p] = InstanceOf[q] =>
       /\ At(q, "remove") /\ Stale(p, caller[q].began) => Caught(p)
       /\ At(q, "invalidate") /\ Stale(p, caller[q].began) => caller[q].on = p

StoredFresh ==
  stored # None => /\ stored.by \in Instances /\ stored.ver \in Nat /\ stored.ver <= source
                   /\ stored.ver >= cleared[stored.by]

\* A waiter is handed a cancellation only together with the runner it is of.
Cancellations ==
  /\ OwnCancellation
  /\ \A p, q \in Callers : At(p, "woken") /\ caller[p].res = CtxErr(q) =>
       caller[p].runner = q /\ caller[p].runnerCtx

LoadInv == TypeInv /\ RunnerKnown /\ Holds /\ Times
CacheInv == LoadInv /\ OldValuesCaught /\ StoredFresh /\ Cancellations

-----------------------------------------------------------------------------
(* What one call does to the callers. *)

LEMMA Moved ==
  ASSUME TypeInv, NEW p \in Callers, NEW r, Goto(p, r)
  PROVE  /\ DOMAIN caller' = Callers /\ caller'[p] = r
         /\ \A q \in Callers : q # p => caller'[q] = caller[q]
BY DEF Goto, TypeInv

Waits(q, p) == At(q, "wait") /\ caller[q].on = p
Invalidates(q, p) == At(q, "invalidate") /\ caller[q].on = p

AllFinished(p, res) ==
  /\ DOMAIN caller' = Callers /\ caller'[p] = [pc |-> "returned", res |-> res]
  /\ \A q \in Callers \ {p} :
       /\ Waits(q, p) => caller'[q] = [pc |-> "woken", res |-> res, runner |-> p,
                                       runnerCtx |-> p \in canceled]
       /\ Invalidates(q, p) => caller'[q] = [pc |-> "invalidate", on |-> None,
                                             began |-> caller[q].began]
       /\ ~Waits(q, p) /\ ~Invalidates(q, p) => caller'[q] = caller[q]

LEMMA Finished ==
  ASSUME TypeInv, NEW p \in Callers, NEW res, Finish(p, res)
  PROVE  AllFinished(p, res)
BY DEF AllFinished, Finish, TypeInv, Waits, Invalidates, At

LEMMA FinishKeepsLoads ==
  ASSUME ConstantsOK, LoadInv, NEW p \in Callers, Active(p), NEW res, Finish(p, res),
         UNCHANGED <<source, cleared>>
  PROVE  LoadInv'
<1>0. AllFinished(p, res)
  BY Finished DEF LoadInv
<1> USE DEF AllFinished, LoadInv, At, Active, Valued, Loading, HasValue, Waits, Invalidates
<1>1. /\ calls' = [calls EXCEPT ![InstanceOf[p]] = None]
      /\ load' = [load EXCEPT ![p] = None]
  BY DEF Finish
<1>2. TypeInv'
  BY <1>0, <1>1 DEF TypeInv, ConstantsOK
<1>3. \A q \in Callers : Active(q)' => q # p /\ caller'[q] = caller[q]
  BY <1>0
<1>4. RunnerKnown'
  <2>1. ASSUME NEW q \in Callers, Active(q)' PROVE calls'[InstanceOf[q]] = q /\ load'[q] \in Load
    BY <1>1, <1>3, <2>1 DEF RunnerKnown, TypeInv, ConstantsOK
  <2>2. ASSUME NEW i \in Instances, calls'[i] # None
        PROVE  Active(calls[i])' /\ InstanceOf[calls'[i]] = i
    <3>1. i # InstanceOf[p] /\ calls'[i] = calls[i] /\ calls[i] \in Callers \ {p}
      BY <1>1, <2>2 DEF RunnerKnown, TypeInv, ConstantsOK
    <3> QED BY <2>2, <3>1, <1>0 DEF RunnerKnown
  <2> QED BY <2>1, <2>2 DEF RunnerKnown
<1>5. Holds'
  <2>1. ASSUME NEW q \in Callers, Active(q)' PROVE load'[q].sem <=> At(q, "write")'
    BY <1>1, <1>3, <2>1 DEF Holds, TypeInv
  <2>2. ASSUME NEW q \in Callers, At(q, "wait")' PROVE caller'[q].on \in Callers
    BY <1>0, <2>2 DEF Holds
  <2>3. ASSUME NEW q \in Callers, At(q, "invalidate")'
        PROVE  /\ caller'[q].on \in Callers \cup {None}
               /\ caller'[q].on # None => /\ Active(caller[q].on)'
                                         /\ InstanceOf[caller'[q].on] = InstanceOf[q]
    <3>1. CASE Invalidates(q, p)
      BY <1>0, <2>3, <3>1
    <3>2. CASE ~Invalidates(q, p)
      <4>1. caller'[q] = caller[q] /\ At(q, "invalidate") /\ caller[q].on # p
        BY <1>0, <2>3, <3>2
      <4>2. CASE caller[q].on # None
        BY <1>0, <4>1, <4>2 DEF Holds
      <4> QED BY <4>1, <4>2
    <3> QED BY <3>1, <3>2
  <2> QED BY <2>1, <2>2, <2>3 DEF Holds
<1>6. Times'
  BY <1>0 DEF Times
<1> QED BY <1>2, <1>4, <1>5, <1>6

LEMMA FinishKeepsValues ==
  ASSUME ConstantsOK, LoadInv, OldValuesCaught, NEW p \in Callers, Active(p), NEW res,
         Finish(p, res), UNCHANGED <<source, cleared>>
  PROVE  OldValuesCaught'
<1>0. AllFinished(p, res)
  BY Finished DEF LoadInv
<1> USE DEF AllFinished, LoadInv, At, Active, Valued, Loading, HasValue, Waits, Invalidates
<1>1. load' = [load EXCEPT ![p] = None]
  BY DEF Finish
<1>2. ASSUME NEW q \in Callers, Valued(q)'
      PROVE  q # p /\ caller'[q] = caller[q] /\ load'[q] = load[q]
  <2>1. q # p /\ caller'[q] = caller[q]
    BY <1>0, <1>2
  <2> QED BY <1>1, <2>1 DEF TypeInv
<1>3. ASSUME NEW q \in Callers, At(q, "remove")' PROVE caller'[q] = caller[q]
  BY <1>0, <1>3
<1>4. ASSUME NEW q \in Callers, At(q, "invalidate")'
      PROVE  At(q, "invalidate") /\ caller'[q].began = caller[q].began
                /\ (caller[q].on # p => caller'[q] = caller[q])
  BY <1>0, <1>4
<1> QED BY <1>2, <1>3, <1>4 DEF OldValuesCaught, Stale, Caught

LEMMA FinishKeepsCancellations ==
  ASSUME TypeInv, Cancellations, NEW p \in Callers, NEW res, Finish(p, res),
         \A q \in Callers : res = CtxErr(q) => p = q /\ p \in canceled
  PROVE  Cancellations'
<1>0. AllFinished(p, res)
  BY Finished
<1> USE DEF AllFinished, At, Waits, Invalidates
<1>1. OwnCancellation'
  <2>1. ASSUME NEW q \in Callers, NEW k \in Callers, At(q, "returned")', caller'[q].res = CtxErr(k)
        PROVE  q = k
    <3>1. CASE q = p
      BY <1>0, <2>1, <3>1
    <3>2. CASE q # p
      BY <1>0, <2>1, <3>2 DEF Cancellations, OwnCancellation
    <3> QED BY <3>1, <3>2
  <2> QED BY <2>1 DEF OwnCancellation, CtxErr
<1>2. ASSUME NEW q \in Callers, NEW k \in Callers, At(q, "woken")', caller'[q].res = CtxErr(k)
      PROVE  caller'[q].runner = k /\ caller'[q].runnerCtx
  <2>1. CASE Waits(q, p)
    <3>1. caller'[q] = [pc |-> "woken", res |-> res, runner |-> p, runnerCtx |-> p \in canceled]
      BY <1>0, <1>2, <2>1
    <3>2. p = k /\ p \in canceled
      BY <1>2, <3>1
    <3>3. caller'[q] = [pc |-> "woken", res |-> res, runner |-> p, runnerCtx |-> TRUE]
      BY <3>1, <3>2, Zenon
    <3> QED BY <3>2, <3>3
  <2>2. CASE ~Waits(q, p)
    <3>1. caller'[q] = caller[q]
      BY <1>0, <1>2, <2>2
    <3> QED BY <1>2, <3>1 DEF Cancellations
  <2> QED BY <2>1, <2>2
<1> QED BY <1>1, <1>2 DEF Cancellations, CtxErr

LEMMA NobodyElse ==
  ASSUME NEW p \in Callers
  PROVE  /\ \A q \in Callers : CtxErr(p) = CtxErr(q) => p = q
         /\ \A v : \A q \in Callers : Ver(v) # CtxErr(q)
         /\ \A q \in Callers : <<"error">> # CtxErr(q) /\ <<"panic">> # CtxErr(q)
                               /\ <<"deleted">> # CtxErr(q) /\ <<"miss">> # CtxErr(q)
BY DEF CtxErr, Ver

-----------------------------------------------------------------------------
(* The invariant *)

LEMMA InvInit == ConstantsOK /\ Init => CacheInv
BY DEF ConstantsOK, Init, Idle, CacheInv, LoadInv, TypeInv, RunnerKnown, Holds, Times,
       OldValuesCaught, StoredFresh, Cancellations, OwnCancellation,
       Stale, Caught, Active, Valued, Loading, HasValue, At

\* The runner's load ends, perhaps with its value written.
Ends(p, res) ==
  /\ Active(p) /\ Finish(p, res) /\ UNCHANGED <<source, cleared>>
  /\ \A q \in Callers : res = CtxErr(q) => p = q /\ p \in canceled
  /\ \/ stored' = stored
     \/ At(p, "write") /\ stored' = [ver |-> caller[p].ver, by |-> InstanceOf[p]]

LEMMA Finishes ==
  ASSUME ConstantsOK, CacheInv, NEW p \in Callers, NEW res, Ends(p, res)
  PROVE  CacheInv'
<1> USE DEF Ends
<1>1. LoadInv'
  BY FinishKeepsLoads DEF CacheInv
<1>2. OldValuesCaught'
  BY FinishKeepsValues DEF CacheInv
<1>3. StoredFresh'
  <2>1. CASE stored' = stored
    BY <2>1 DEF CacheInv, StoredFresh
  <2>2. CASE stored' = [ver |-> caller[p].ver, by |-> InstanceOf[p]] /\ At(p, "write")
    BY <2>2 DEF CacheInv, LoadInv, StoredFresh, OldValuesCaught, Stale, Caught, Valued, HasValue,
                At, Times, TypeInv, ConstantsOK
  <2> QED BY <2>1, <2>2
<1>4. Cancellations'
  BY FinishKeepsCancellations DEF CacheInv, LoadInv
<1> QED BY <1>1, <1>2, <1>3, <1>4 DEF CacheInv

\* Steps of a caller that runs no load and starts none.
LEMMA Aside ==
  ASSUME ConstantsOK, CacheInv, NEW p \in Callers, ~Active(p), NEW r, Goto(p, r),
         UNCHANGED <<source, stored, calls, load, cleared>>,
         r.pc \notin Loading \cup {"woken"},
         r.pc = "wait" => r.on \in Callers,
         r.pc \in {"deleting", "invalidate", "remove"} => r.began \in Nat /\ r.began <= source,
         r.pc = "invalidate" => r.on = calls[InstanceOf[p]],
         r.pc = "remove" => \A k \in Callers : InstanceOf[k] = InstanceOf[p] /\ Stale(k, r.began) => Caught(k),
         r.pc = "returned" => \A q \in Callers : r.res = CtxErr(q) => p = q
  PROVE  CacheInv'
<1> USE DEF CacheInv, LoadInv, At, Active, Valued, Loading, HasValue
<1>0. /\ DOMAIN caller' = Callers /\ caller'[p] = r
      /\ \A q \in Callers : q # p => caller'[q] = caller[q]
  BY Moved
<1>1. TypeInv' /\ RunnerKnown'
  BY <1>0 DEF TypeInv, RunnerKnown, ConstantsOK
<1>2. Holds'
  <2>1. \A q \in Callers : Active(q)' => (load'[q].sem <=> At(q, "write")')
    BY <1>0 DEF Holds
  <2>2. \A q \in Callers : At(q, "wait")' => caller'[q].on \in Callers
    BY <1>0 DEF Holds
  <2>3. ASSUME NEW q \in Callers, At(q, "invalidate")'
        PROVE  /\ caller'[q].on \in Callers \cup {None}
               /\ caller'[q].on # None => /\ Active(caller[q].on)'
                                         /\ InstanceOf[caller'[q].on] = InstanceOf[q]
    BY <1>0, <2>3 DEF Holds, RunnerKnown, TypeInv, ConstantsOK
  <2> QED BY <2>1, <2>2, <2>3 DEF Holds
<1>3. Times'
  BY <1>0 DEF Times
<1>4. OldValuesCaught'
  <2>1. ASSUME NEW k \in Callers, Valued(k)' PROVE Valued(k) /\ k # p /\ caller'[k] = caller[k]
    BY <1>0, <2>1
  <2>2. \A k \in Callers : Stale(k, cleared[InstanceOf[k]])' => Caught(k)'
    BY <2>1 DEF OldValuesCaught, Stale, Caught
  <2>3. ASSUME NEW k \in Callers, NEW q \in Callers, InstanceOf[k] = InstanceOf[q],
               At(q, "remove")', Stale(k, caller[q].began)'
        PROVE  Caught(k)'
    BY <1>0, <2>1, <2>3 DEF OldValuesCaught, Stale, Caught
  <2>4. ASSUME NEW k \in Callers, NEW q \in Callers, InstanceOf[k] = InstanceOf[q],
               At(q, "invalidate")', Stale(k, caller[q].began)'
        PROVE  caller'[q].on = k
    BY <1>0, <2>1, <2>4 DEF OldValuesCaught, Stale, RunnerKnown
  <2> QED BY <2>2, <2>3, <2>4 DEF OldValuesCaught
<1>5. StoredFresh'
  BY DEF StoredFresh
<1>6. Cancellations'
  BY <1>0 DEF Cancellations, OwnCancellation, CtxErr
<1> QED BY <1>1, <1>2, <1>3, <1>4, <1>5, <1>6

\* Steps of a runner that leave its load in the group.
LEMMA Onward ==
  ASSUME ConstantsOK, CacheInv, NEW p \in Callers, Active(p), NEW r, Goto(p, r),
         UNCHANGED <<source, stored, calls, cleared>>,
         r.pc \in Loading, ~At(p, "write"),
         load' = IF r.pc = "write" THEN [load EXCEPT ![p].sem = TRUE] ELSE load,
         r.pc = "write" => ~load[p].invalidated,
         r.pc \in HasValue => \/ Valued(p) /\ r.ver = caller[p].ver
                             \/ r.ver = source
  PROVE  CacheInv'
<1> USE DEF CacheInv, LoadInv, At, Active, Valued, Loading, HasValue
<1>0. /\ DOMAIN caller' = Callers /\ caller'[p] = r
      /\ \A q \in Callers : q # p => caller'[q] = caller[q]
  BY Moved
<1>1. /\ load' \in [Callers -> Load \cup {None}] /\ \A q \in Callers : q # p => load'[q] = load[q]
      /\ load'[p] \in Load /\ load'[p].invalidated = load[p].invalidated
      /\ load'[p].sem <=> r.pc = "write"
  <2>1. load[p] \in Load /\ ~load[p].sem
    BY DEF RunnerKnown, Holds
  <2>2. CASE r.pc = "write"
    BY <2>1, <2>2, Zenon DEF TypeInv, Load
  <2>3. CASE r.pc # "write"
    BY <2>1, <2>3 DEF TypeInv, Load
  <2> QED BY <2>2, <2>3
<1>2. TypeInv'
  BY <1>0, <1>1 DEF TypeInv
<1>8. RunnerKnown'
  <2>1. \A q \in Callers : Active(q)' <=> Active(q)
    BY <1>0
  <2> QED BY <1>1, <2>1 DEF TypeInv, RunnerKnown
<1>3. Holds'
  BY <1>0, <1>1 DEF Holds
<1>4. Times'
  BY <1>0 DEF Times, TypeInv
<1>5. OldValuesCaught'
  <2>1. ASSUME NEW k \in Callers, NEW b \in Nat, b <= source, Valued(k)', caller'[k].ver < b
        PROVE  /\ Stale(k, b) /\ load'[k].invalidated = load[k].invalidated
               /\ load[k].invalidated => ~At(k, "write")' \/ At(k, "write")
    BY <1>0, <1>1, <2>1 DEF Stale, TypeInv
  <2>2. ASSUME NEW q \in Callers, q # p PROVE caller'[q] = caller[q]
    BY <1>0, <2>2
  <2>3. caller'[p].pc \notin {"remove", "invalidate"}
    BY <1>0
  <2>4. \A k \in Callers : cleared[InstanceOf[k]] \in Nat /\ cleared[InstanceOf[k]] <= source
    BY DEF TypeInv, Times, ConstantsOK
  <2> QED BY <2>1, <2>2, <2>3, <2>4 DEF OldValuesCaught, Stale, Caught, Times
<1>6. StoredFresh'
  BY DEF StoredFresh
<1>7. Cancellations'
  BY <1>0 DEF Cancellations, OwnCancellation, CtxErr
<1> QED BY <1>2, <1>3, <1>4, <1>5, <1>6, <1>7, <1>8

LEMMA InvStep == ConstantsOK /\ CacheInv /\ [Next]_cacheVars => CacheInv'
<1> SUFFICES ASSUME ConstantsOK, CacheInv, [Next]_cacheVars PROVE CacheInv'
  OBVIOUS
<1> USE DEF At, Active, Valued, Loading, HasValue
<1>1. CASE Update
  BY <1>1 DEF Update, CacheInv, LoadInv, TypeInv, RunnerKnown, Holds, Times, OldValuesCaught,
              StoredFresh, Cancellations, OwnCancellation, Stale, Caught, CtxErr
<1>2. ASSUME NEW p \in Callers, Cancel(p) PROVE CacheInv'
  BY <1>2 DEF Cancel, CacheInv, LoadInv, TypeInv, RunnerKnown, Holds, Times, OldValuesCaught,
              StoredFresh, Cancellations, OwnCancellation, Stale, Caught, CtxErr
<1>3. CASE Drop
  BY <1>3 DEF Drop, CacheInv, LoadInv, TypeInv, RunnerKnown, Holds, Times, OldValuesCaught,
              StoredFresh, Cancellations, OwnCancellation, Stale, Caught, CtxErr
<1>4. ASSUME NEW p \in Callers, Set(p) PROVE CacheInv'
  BY <1>4
      DEF Set, ConstantsOK, CacheInv, LoadInv, TypeInv, RunnerKnown, Holds, Times, OldValuesCaught,
              StoredFresh, Cancellations, OwnCancellation, Stale, Caught, CtxErr
<1>5. ASSUME NEW p \in Callers, GetOrLoad(p) PROVE CacheInv'
  BY <1>5, Aside DEF GetOrLoad, Calls
<1>6. ASSUME NEW p \in Callers, Lookup(p) PROVE CacheInv'
  <2>1. ASSUME NEW a \in lookupOrMiss(p), NEW q \in Callers, a = CtxErr(q) PROVE p = q
    BY <2>1, NobodyElse DEF lookupOrMiss
  <2>2. \A q \in Callers : CtxErr(p) = CtxErr(q) => p = q
    BY NobodyElse
  <2>3. CASE p \in canceled
    BY <1>6, <2>2, <2>3, Aside DEF Lookup, Return
  <2>4. CASE p \notin canceled
    <3>1. PICK a \in lookupOrMiss(p) : IF a = <<"miss">> THEN Goto(p, [pc |-> "join"]) ELSE Return(p, a)
      BY <1>6, <2>4 DEF Lookup
    <3>2. CASE a = <<"miss">>
      BY <1>6, <3>1, <3>2, Aside DEF Lookup
    <3>3. CASE a # <<"miss">>
      BY <1>6, <2>1, <3>1, <3>3, Aside DEF Lookup, Return
    <3> QED BY <3>2, <3>3
  <2> QED BY <2>3, <2>4
<1>7. ASSUME NEW p \in Callers, once(p) PROVE CacheInv'
  <2>1. CASE calls[InstanceOf[p]] # None
    <3>1. calls[InstanceOf[p]] \in Callers
      BY <2>1 DEF CacheInv, LoadInv, TypeInv, ConstantsOK
    <3>2. Goto(p, [pc |-> "wait", on |-> calls[InstanceOf[p]]]) /\ UNCHANGED <<calls, load>>
      BY <1>7, <2>1 DEF once
    <3> QED BY <1>7, <3>1, <3>2, Aside DEF once
  <2>2. CASE calls[InstanceOf[p]] = None
    <3>0. /\ Goto(p, [pc |-> "recheck"]) /\ At(p, "join")
          /\ calls' = [calls EXCEPT ![InstanceOf[p]] = p]
          /\ load' = [load EXCEPT ![p] = [invalidated |-> FALSE, sem |-> FALSE]]
          /\ UNCHANGED <<source, stored, canceled, made, cleared>>
      BY <1>7, <2>2 DEF once
    <3> USE DEF CacheInv, LoadInv
    <3>1. /\ DOMAIN caller' = Callers /\ caller'[p] = [pc |-> "recheck"]
          /\ \A q \in Callers : q # p => caller'[q] = caller[q]
      BY <3>0, Moved
    <3>2. /\ load' \in [Callers -> Load \cup {None}] /\ load'[p] \in Load /\ ~load'[p].sem
          /\ \A q \in Callers : q # p => load'[q] = load[q]
      BY <3>0 DEF TypeInv, Load
    <3>3. TypeInv'
      BY <3>0, <3>1, <3>2 DEF TypeInv, ConstantsOK
    <3>4. RunnerKnown'
      BY <2>2, <3>0, <3>1, <3>2 DEF TypeInv, RunnerKnown, ConstantsOK
    <3>5. Holds'
      BY <3>0, <3>1, <3>2 DEF Holds
    <3>6. Times'
      BY <3>0, <3>1 DEF Times
    <3>7. OldValuesCaught' /\ StoredFresh'
      BY <3>0, <3>1, <3>2 DEF OldValuesCaught, Stale, Caught, StoredFresh
    <3>8. Cancellations'
      BY <3>1 DEF Cancellations, OwnCancellation, CtxErr
    <3> QED BY <3>3, <3>4, <3>5, <3>6, <3>7, <3>8
  <2> QED BY <2>1, <2>2
<1>8. ASSUME NEW p \in Callers, Recheck(p) PROVE CacheInv'
  <2>1. PICK a \in lookupOrMiss(p) :
          IF a # <<"miss">> THEN Finish(p, a)
          ELSE IF p \in canceled THEN Finish(p, CtxErr(p))
          ELSE Goto(p, [pc |-> "load"]) /\ UNCHANGED <<calls, load>>
    BY <1>8 DEF Recheck
  <2>2. At(p, "recheck") /\ UNCHANGED <<source, stored, canceled, made, cleared>>
    BY <1>8 DEF Recheck
  <2>3. CASE a # <<"miss">>
    <3>1. \A q \in Callers : a = CtxErr(q) => p = q /\ p \in canceled
      BY <2>3, NobodyElse DEF lookupOrMiss
    <3>2. Ends(p, a)
      BY <2>1, <2>2, <2>3, <3>1 DEF Ends
    <3> QED BY <3>2, Finishes
  <2>4. CASE a = <<"miss">> /\ p \in canceled
    <3>1. \A q \in Callers : CtxErr(p) = CtxErr(q) => p = q
      BY NobodyElse
    <3>2. Ends(p, CtxErr(p))
      BY <2>1, <2>2, <2>4, <3>1 DEF Ends
    <3> QED BY <3>2, Finishes
  <2>5. CASE a = <<"miss">> /\ p \notin canceled
    BY <2>1, <2>2, <2>5, Onward
  <2> QED BY <2>3, <2>4, <2>5
<1>9. ASSUME NEW p \in Callers, LoadRead(p) PROVE CacheInv'
  BY <1>9, Onward DEF LoadRead
<1>10. ASSUME NEW p \in Callers, LoadFails(p) PROVE CacheInv'
  <2>1. PICK e \in {<<"error">>, <<"panic">>} \cup (IF p \in canceled THEN {CtxErr(p)} ELSE {}) :
          Finish(p, e)
    BY <1>10 DEF LoadFails
  <2>2. \A q \in Callers : e = CtxErr(q) => p = q /\ p \in canceled
    BY NobodyElse
  <2>3. Ends(p, e)
    BY <1>10, <2>1, <2>2 DEF LoadFails, Ends
  <2> QED BY <2>3, Finishes
<1>11. ASSUME NEW p \in Callers, LoadReturns(p) PROVE CacheInv'
  <2>1. \A q \in Callers : Ver(caller[p].ver) # CtxErr(q)
    BY NobodyElse
  <2>2. CASE p \in canceled
    <3>1. Ends(p, Ver(caller[p].ver))
      BY <1>11, <2>1, <2>2 DEF LoadReturns, Ends
    <3> QED BY <3>1, Finishes
  <2>3. CASE p \notin canceled
    BY <1>11, <2>3, Onward DEF LoadReturns
  <2> QED BY <2>2, <2>3
<1>12. ASSUME NEW p \in Callers, publish(p) PROVE CacheInv'
  <2>1. \A q \in Callers : Ver(caller[p].ver) # CtxErr(q)
    BY NobodyElse
  <2>2. CASE load[p].invalidated
    <3>1. Ends(p, Ver(caller[p].ver))
      BY <1>12, <2>1, <2>2 DEF publish, Ends
    <3> QED BY <3>1, Finishes
  <2>3. CASE ~load[p].invalidated
    BY <1>12, <2>3, Onward DEF publish
  <2> QED BY <2>2, <2>3
<1>13. ASSUME NEW p \in Callers, PublishWrite(p) PROVE CacheInv'
  <2>1. \A q \in Callers : Ver(caller[p].ver) # CtxErr(q)
    BY NobodyElse
  <2>2. Ends(p, Ver(caller[p].ver))
    BY <1>13, <2>1 DEF PublishWrite, Ends
  <2> QED BY <2>2, Finishes
<1>14. ASSUME NEW p \in Callers, Woken(p) PROVE CacheInv'
  <2>1. \A q \in Callers : CtxErr(p) = CtxErr(q) => p = q
    BY NobodyElse
  <2>2. ASSUME ~retryable(p, caller[p]), NEW q \in Callers PROVE caller[p].res # CtxErr(q)
    BY <1>14, <2>2 DEF Woken, retryable, CacheInv, Cancellations
  <2>3. \A q \in Callers : <<"panic">> # CtxErr(q)
    BY NobodyElse
  <2>4. CASE caller[p].res = <<"panic">> \/ p \in canceled
    BY <1>14, <2>1, <2>3, <2>4, Aside, Zenon DEF Woken, Return
  <2>5. CASE caller[p].res # <<"panic">> /\ p \notin canceled
    BY <1>14, <2>2, <2>5, Aside DEF Woken, Return
  <2> QED BY <2>4, <2>5
<1>15. ASSUME NEW p \in Callers, WaitCanceled(p) PROVE CacheInv'
  <2>1. \A q \in Callers : CtxErr(p) = CtxErr(q) => p = q
    BY NobodyElse
  <2> QED BY <1>15, <2>1, Aside DEF WaitCanceled, Return
<1>16. ASSUME NEW p \in Callers, Delete(p) PROVE CacheInv'
  BY <1>16, Aside DEF Delete, Calls, CacheInv, LoadInv, TypeInv
<1>17. ASSUME NEW p \in Callers, DeleteFinds(p) PROVE CacheInv'
  BY <1>17, Aside DEF DeleteFinds, CacheInv, LoadInv, Times
<1>18. ASSUME NEW p \in Callers, invalidate(p) PROVE CacheInv'
  <2> DEFINE c == caller[p].on
             b == caller[p].began
  <2>1. /\ b \in Nat /\ b <= source /\ c \in Callers \cup {None}
        /\ c # None => c \in Callers /\ Active(c) /\ InstanceOf[c] = InstanceOf[p]
        /\ ~Active(p) /\ \A k \in Callers : InstanceOf[k] = InstanceOf[p] /\ Stale(k, b) => c = k
    BY <1>18 DEF invalidate, CacheInv, LoadInv, Times, Holds, OldValuesCaught
  <2>2. CASE c = None /\ Goto(p, [pc |-> "remove", began |-> b]) /\ UNCHANGED load
    <3>1. \A k \in Callers : InstanceOf[k] = InstanceOf[p] => ~Stale(k, b)
      BY <2>1, <2>2 DEF ConstantsOK
    <3> QED BY <1>18, <2>1, <2>2, <3>1, Aside DEF invalidate
  <2>3. CASE c # None /\ p \in canceled /\ Return(p, CtxErr(p)) /\ UNCHANGED load
    <3>1. \A q \in Callers : CtxErr(p) = CtxErr(q) => p = q
      BY NobodyElse
    <3> QED BY <1>18, <2>1, <2>3, <3>1, Aside DEF invalidate, Return
  <2>4. CASE /\ c # None /\ ~load[c].sem /\ load' = [load EXCEPT ![c].invalidated = TRUE]
             /\ Goto(p, [pc |-> "remove", began |-> b])
    <3> USE DEF CacheInv, LoadInv
    <3>0. UNCHANGED <<source, stored, calls, canceled, made, cleared>>
      BY <1>18 DEF invalidate
    <3>1. /\ DOMAIN caller' = Callers /\ caller'[p] = [pc |-> "remove", began |-> b]
          /\ \A q \in Callers : q # p => caller'[q] = caller[q]
      BY <2>4, Moved
    <3>2. c \in Callers /\ Active(c) /\ ~At(c, "write") /\ load[c] \in Load /\ c # p
      BY <2>1, <2>4 DEF RunnerKnown, Holds
    <3>3. /\ load' \in [Callers -> Load \cup {None}] /\ load'[c] \in Load
          /\ load'[c].invalidated /\ load'[c].sem = load[c].sem
          /\ \A q \in Callers : q # c => load'[q] = load[q]
      BY <2>4, <3>2, Zenon DEF TypeInv, Load
    <3> HIDE DEF c, b
    <3>4. TypeInv'
      BY <3>0, <3>1, <3>3 DEF TypeInv
    <3>5. RunnerKnown'
      BY <2>1, <3>0, <3>1, <3>3 DEF TypeInv, RunnerKnown
    <3>6. Holds'
      BY <2>1, <3>0, <3>1, <3>2, <3>3 DEF Holds
    <3>7. Times'
      BY <2>1, <3>0, <3>1 DEF Times
    <3>8. OldValuesCaught' /\ StoredFresh'
      BY <2>1, <3>0, <3>1, <3>2, <3>3 DEF OldValuesCaught, Stale, Caught, StoredFresh
    <3>9. Cancellations'
      BY <3>1 DEF Cancellations, OwnCancellation, CtxErr
    <3> QED BY <3>4, <3>5, <3>6, <3>7, <3>8, <3>9
  <2> QED BY <1>18, <2>2, <2>3, <2>4 DEF invalidate
<1>19. ASSUME NEW p \in Callers, Remove(p) PROVE CacheInv'
  <2>1. \A q \in Callers : <<"error">> # CtxErr(q) /\ <<"deleted">> # CtxErr(q)
    BY NobodyElse
  <2>2. PICK x \in {<<"error">>, <<"deleted">>} : Return(p, x)
    BY <1>19 DEF Remove
  <2>3. /\ At(p, "remove") /\ UNCHANGED <<source, calls, load, canceled, made>>
        /\ stored' = stored \/ stored' = None
        /\ \/ cleared' = cleared
           \/ /\ stored' = None
              /\ cleared' = [cleared EXCEPT ![InstanceOf[p]] = IF caller[p].began > @ THEN caller[p].began ELSE @]
    BY <1>19 DEF Remove
  <2> USE DEF CacheInv, LoadInv
  <2>4. /\ DOMAIN caller' = Callers /\ caller'[p] = [pc |-> "returned", res |-> x]
        /\ \A q \in Callers : q # p => caller'[q] = caller[q]
    BY <2>2, Moved DEF Return
  <2>5. /\ cleared' \in [Instances -> Nat]
        /\ \A i \in Instances :
             cleared'[i] # cleared[i] => i = InstanceOf[p] /\ cleared'[i] = caller[p].began
        /\ \A i \in Instances : cleared'[i] <= source
    <3>1. InstanceOf[p] \in Instances /\ caller[p].began \in Nat /\ caller[p].began <= source
      BY <2>3 DEF Times, ConstantsOK
    <3> QED BY <2>3, <3>1 DEF TypeInv, Times
  <2>6. TypeInv' /\ RunnerKnown' /\ Holds'
    BY <2>3, <2>4, <2>5 DEF TypeInv, RunnerKnown, Holds
  <2>7. Times'
    BY <2>3, <2>4, <2>5 DEF Times
  <2>8. OldValuesCaught'
    BY <2>3, <2>4, <2>5 DEF OldValuesCaught, Stale, Caught, ConstantsOK
  <2>9. StoredFresh'
    BY <2>3, <2>5 DEF StoredFresh
  <2>10. Cancellations'
    BY <2>1, <2>4 DEF Cancellations, OwnCancellation, CtxErr
  <2> QED BY <2>6, <2>7, <2>8, <2>9, <2>10
<1>20. CASE UNCHANGED cacheVars
  BY <1>20
      DEF cacheVars, CacheInv, LoadInv, TypeInv, RunnerKnown, Holds, Times, OldValuesCaught, Stale,
               Caught, StoredFresh, Cancellations, OwnCancellation, CtxErr
<1> QED
  BY <1>1, <1>2, <1>3, <1>4, <1>5, <1>6, <1>7, <1>8, <1>9, <1>10, <1>11, <1>12, <1>13, <1>14,
     <1>15, <1>16, <1>17, <1>18, <1>19, <1>20 DEF Next, Proceed, Running

LEMMA CacheInvariant == ASSUME ConstantsOK PROVE Spec => []CacheInv
BY InvInit, InvStep, PTL DEF Spec

\* Once a Delete of a Cache instance has returned, no value that a load of that
\* instance computed from an earlier state of the source is in the store, however many
\* callers load, set and delete, and whichever of them are canceled (Cache.Delete,
\* publish, invalidate).
THEOREM DeletionAlwaysWins == ASSUME ConstantsOK PROVE Spec => []DeletionWins
<1>1. CacheInv => DeletionWins
  BY DEF CacheInv, StoredFresh, DeletionWins
<1> QED BY <1>1, CacheInvariant, PTL

\* One load at a time runs for the key in each Cache instance (GetOrLoad, once).
THEOREM OneLoadAtATime == ASSUME ConstantsOK PROVE Spec => []OneLoad
<1>1. CacheInv => OneLoad
  BY DEF CacheInv, LoadInv, RunnerKnown, OneLoad, Active, Loading
<1> QED BY <1>1, CacheInvariant, PTL

\* A caller is never answered with the cancellation of another one, although callers
\* share loads that run under the context of one of them (once, retryable).
THEOREM CancellationsStayOwn == ASSUME ConstantsOK PROVE Spec => []OwnCancellation
<1>1. CacheInv => OwnCancellation
  BY DEF CacheInv, Cancellations
<1> QED BY <1>1, CacheInvariant, PTL
=============================================================================
