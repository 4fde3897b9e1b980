--------------------------- MODULE JobDrainProofs ---------------------------
(***************************************************************************)
(* Shutdown of a worker: what Start leaves behind when it returns, as long  *)
(* as no job is leased back to a worker that still runs an earlier claim of *)
(* it (NoReclaim).                                                          *)
(***************************************************************************)
EXTENDS JobWorkerProofs

DrainSpec == WorkerInit /\ [][WorkerNextNoReclaim]_allVars

Unresolved(c) == run[c].phase \in {"registered", "running"}

\* A worker has one claim of a job, and its run is found under the job's id.
OneEach == \A b, c \in claims : b.worker = c.worker /\ b.job = c.job => b = c

Registered ==
  \A c \in claims : run[c].pc \notin {"claimed", "gone"} => active[c.worker][c.job] = c

\* From the end of the loop on every claimed row was launched; Range has yet to visit
\* whatever may still run, and after it nothing may.
Ranged ==
  \A w \in Workers : \A c \in RunsOf(w) :
    /\ loop[w] \in {"draining", "ranging", "returned"} => run[c].pc # "claimed"
    /\ loop[w] = "ranging" /\ Unresolved(c) => c.job \in drain[w].toVisit
    /\ loop[w] = "returned" => ~Unresolved(c)

DrainInv == WorkerInv /\ OneEach /\ Registered /\ Ranged

\* An abandoned run is reported, and so is every lease that no run will end.
Reported ==
  /\ \A c \in claims : run[c].phase = "abandoned" => drain[c.worker].abandoned
  /\ \A w \in Workers, j \in Jobs : row[j].state = "running" /\ row[j].lockedBy = w =>
       \/ drain[w].abandoned
       \/ \E c \in RunsOf(w) : c.job = j /\ run[c].pc \notin {"finished", "gone"}

ReturnedClean ==
  \A w \in Workers :
    /\ loop[w] \notin {"ranging", "returned"} => ~drain[w].abandoned
    /\ loop[w] = "returned" /\ ~drain[w].exceeded => RunsOf(w) = {} /\ ~drain[w].abandoned

CleanInv == DrainInv /\ Reported /\ ReturnedClean

-----------------------------------------------------------------------------
(* Who takes claims, registers runs and moves the loop *)

Claims(w) == \E t \in Clock : \E C \in (SUBSET Eligible(w, t)) \ {{}} : tryClaim(w, C, t)

LEMMA ClaimsMove ==
  ASSUME [WorkerNext]_allVars
  PROVE  \/ \E w \in Workers : Claims(w)
         \/ \E w \in Workers : Crash(w)
         \/ \E c \in claims : Release(c)
         \/ claims' = claims
<1>1. CASE UNCHANGED allVars
  BY <1>1, Zenon DEF allVars, vars
<1>2. ASSUME NEW w \in Workers, LoopStep(w), ~Claims(w), ~Crash(w) PROVE claims' = claims
  <2>1. ASSUME NEW t \in Clock, NEW C \in (SUBSET Eligible(w, t)) \ {{}}, tryClaimLost(w, C, t)
        PROVE  claims' = claims
    BY <2>1 DEF tryClaimLost, Claim
  <2>2. ASSUME ~\E t \in Clock : \E C \in (SUBSET Eligible(w, t)) \ {{}} : tryClaimLost(w, C, t)
        PROVE  claims' = claims
    BY <1>2, <2>2, Zenon DEF LoopStep, Claims, Start, ReadRoom, tryClaimNothing, Launch, trySweep,
       SweepExpired, Shutdown, DrainDone, DrainDeadline, Visit, DrainReturn, Restart, vars
  <2> QED BY <2>1, <2>2, Zenon
<1>3. ASSUME NEW c \in claims, HeartbeatStep(c) \/ RunStep(c), ~Release(c) PROVE claims' = claims
  BY <1>3, Zenon
      DEF HeartbeatStep, heartbeat, heartbeatLost, heartbeatNotFound, heartbeatExit, Heartbeat,
       RunStep, Begin, Timeout, HandlerReturn, BeginResolve, complete, completeLost, completeFailed,
       completeNotFound, Deregister, Complete, vars
<1>4. ASSUME ClientStep PROVE claims' = claims
  BY <1>4, Zenon DEF ClientStep, Insert, Retry, Cancel, Delete, Tick
<1> QED BY <1>1, <1>2, <1>3, <1>4, Zenon DEF WorkerNext

LEMMA ClaimsTaken ==
  ASSUME WorkerInv, NEW w \in Workers, Claims(w)
  PROVE  /\ active' = active /\ loop'[w] = "polling" /\ loop[w] = "claiming"
         /\ claims \subseteq claims' /\ drain' = drain
         /\ \A v \in Workers \ {w} : loop'[v] = loop[v]
         /\ \A c \in claims : run'[c] = run[c]
         /\ \A c \in claims' \ claims :
              /\ c.worker = w /\ c \in claims' /\ run'[c] = NewRun
              /\ c.job \in Jobs /\ row'[c.job].lockedBy = w /\ leases'[c.job] # leases[c.job]
         /\ \A b, c \in claims' \ claims : b.job = c.job => b = c
<1>1. PICK t \in Clock : \E C \in (SUBSET Eligible(w, t)) \ {{}} : tryClaim(w, C, t)
  BY DEF Claims
<1>2. PICK C \in SUBSET Eligible(w, t) : tryClaim(w, C, t)
  BY <1>1
<1>3. /\ active' = active /\ drain' = drain
      /\ loop[w] = "claiming" /\ loop' = [loop EXCEPT ![w] = "polling"]
      /\ run' = [c \in claims' |-> IF c \in claims THEN run[c] ELSE NewRun]
      /\ claims' = claims \cup {ClaimOf(j, w) : j \in C}
      /\ row' = [j \in Jobs |-> IF j \in C THEN Leased(row[j], w, t) ELSE row[j]]
      /\ leases' = [j \in Jobs |-> IF j \in C THEN leases[j] + 1 ELSE leases[j]]
  BY <1>2, Zenon DEF tryClaim, ClaimReturns, Claim
<1>4. C \subseteq Jobs
  BY ColumnsAssumption DEF Eligible
<1>5. ASSUME NEW j \in C
      PROVE  row'[j].lockedBy = w /\ leases'[j] # leases[j]
  <2>1. row[j] \in Row /\ leases[j] \in Nat
    BY <1>4 DEF WorkerInv, TypeOK
  <2>2. j \in Jobs /\ row'[j] = Leased(row[j], w, t) /\ leases'[j] = leases[j] + 1
    BY <1>3, <1>4
  <2>3. Leased(row[j], w, t).lockedBy = w
    BY <2>1 DEF Leased, Row
  <2> QED BY <2>1, <2>2, <2>3
<1>6. ASSUME NEW c \in claims' \ claims PROVE \E j \in C : c = ClaimOf(j, w)
  BY <1>3
<1>7. \A j : ClaimOf(j, w).job = j /\ ClaimOf(j, w).worker = w
  BY DEF ClaimOf
<1>8. ASSUME NEW c \in claims' \ claims
      PROVE  /\ c.worker = w /\ c \in claims' /\ run'[c] = NewRun
             /\ c.job \in Jobs /\ row'[c.job].lockedBy = w /\ leases'[c.job] # leases[c.job]
  <2>1. run'[c] = NewRun
    BY <1>3
  <2>2. PICK j \in C : c = ClaimOf(j, w)
    BY <1>6
  <2>3. c.job = j /\ c.worker = w
    BY <1>7, <2>2
  <2> QED BY <1>4, <1>5, <2>1, <2>3
<1>9. \A b, c \in claims' \ claims : b.job = c.job => b = c
  BY <1>6, <1>7
<1>10. loop'[w] = "polling" /\ \A v \in Workers \ {w} : loop'[v] = loop[v]
  BY <1>3 DEF WorkerInv, LoopOK
<1> QED BY <1>3, <1>8, <1>9, <1>10

\* The steps of a worker that end its loop, and what the others leave of it.
LoopMoves(w) ==
  \/ loop'[w] = loop[w] /\ drain'[w] = drain[w]
  \/ /\ loop[w] \in {"new", "polling", "claiming", "dead"} /\ loop'[w] \in {"new", "polling", "claiming"}
     /\ drain'[w] = drain[w]
  \/ \E j \in Jobs : Visit(w, j)
  \/ Shutdown(w) \/ DrainDone(w) \/ DrainDeadline(w)
  \/ \E exceeded \in BOOLEAN : DrainReturn(w, exceeded)
  \/ Crash(w)

LEMMA LoopStepMoves ==
  ASSUME WorkerInv, [WorkerNext]_allVars, NEW w \in Workers
  PROVE  LoopMoves(w)
<1>0. loop \in [Workers -> Loops] /\ DrainOK
  BY DEF WorkerInv, LoopOK, Loops
<1>1. ASSUME loop' = loop, drain' = drain PROVE LoopMoves(w)
  BY <1>1 DEF LoopMoves
<1>2. CASE UNCHANGED allVars
  BY <1>1, <1>2 DEF allVars
<1>3. ASSUME NEW v \in Workers, LoopStep(v) PROVE LoopMoves(w)
  <2>1. ASSUME NEW p, loop' = [loop EXCEPT ![v] = p],
               loop[v] \in {"new", "polling", "claiming", "dead"}, p \in {"new", "polling", "claiming"},
               drain' = drain
        PROVE  LoopMoves(w)
    BY <1>0, <2>1 DEF LoopMoves
  <2>2. ASSUME \/ Start(v) \/ ReadRoom(v) \/ tryClaimNothing(v) \/ Claims(v) \/ Restart(v)
               \/ \E t \in Clock : \E C \in (SUBSET Eligible(v, t)) \ {{}} : tryClaimLost(v, C, t)
        PROVE  LoopMoves(w)
    <3>1. /\ loop[v] \in {"new", "polling", "claiming", "dead"} /\ drain' = drain
          /\ \E p \in {"new", "polling", "claiming"} : loop' = [loop EXCEPT ![v] = p]
      BY <2>2, Zenon DEF Start, ReadRoom, Idle, tryClaimNothing, Claims, tryClaim, tryClaimLost,
          ClaimReturns, Restart
    <3> QED BY <2>1, <3>1, Zenon
  <2>3. ASSUME \/ \E c \in RunsOf(v) : Launch(c)
               \/ \E t \in Clock : trySweep(v, t)
        PROVE  LoopMoves(w)
    <3>1. loop' = loop /\ drain' = drain
      BY <2>3, Zenon DEF Launch, trySweep, workerVars
    <3> QED BY <1>1, <3>1
  <2>4. ASSUME \/ Shutdown(v) \/ DrainDone(v) \/ DrainDeadline(v) \/ Crash(v)
               \/ \E j \in Jobs : Visit(v, j)
               \/ \E exceeded \in BOOLEAN : DrainReturn(v, exceeded)
        PROVE  LoopMoves(w)
    <3>1. CASE v = w
      BY <2>4, <3>1, Zenon DEF LoopMoves
    <3>2. ASSUME v # w PROVE loop'[w] = loop[w] /\ drain'[w] = drain[w]
      BY <1>0, <2>4, <3>2, Zenon
          DEF Shutdown, DrainDone, DrainDeadline, Crash, Visit, DrainReturn, DrainOK
    <3> QED BY <3>1, <3>2 DEF LoopMoves
  <2> QED BY <1>3, <2>2, <2>3, <2>4, Zenon DEF LoopStep, Claims
<1>4. ASSUME NEW c \in claims, HeartbeatStep(c) \/ RunStep(c) PROVE LoopMoves(w)
  <2>1. loop' = loop /\ drain' = drain
    BY <1>4, Zenon DEF HeartbeatStep, heartbeat, heartbeatLost, heartbeatNotFound, heartbeatExit,
         workerVars, RunStep, Begin, Timeout, HandlerReturn, BeginResolve, complete, completeLost,
         completeFailed, completeNotFound, Deregister, Release
  <2> QED BY <1>1, <2>1
<1>5. ASSUME ClientStep PROVE LoopMoves(w)
  BY <1>1, <1>5 DEF ClientStep, workerVars
<1> QED BY <1>2, <1>3, <1>4, <1>5, Zenon DEF WorkerNext


-----------------------------------------------------------------------------
(* One registered run per claim, and none left over by Range *)

LEMMA OneEachStep ==
  ASSUME DrainInv, [WorkerNext]_allVars, NoReclaim \/ UNCHANGED allVars
  PROVE  OneEach'
<1>1. ASSUME claims' \subseteq claims PROVE OneEach'
  BY <1>1 DEF DrainInv, OneEach
<1>2. ASSUME NEW w \in Workers, Claims(w) PROVE OneEach'
  <2>1. CASE claims' = claims
    BY <1>1, <2>1
  <2>2. CASE claims' # claims
    <3>1. WorkerInv /\ NoReclaim
      BY <2>2 DEF DrainInv, allVars, vars
    <3>2. /\ \A c \in claims' \ claims : /\ c.worker = w /\ row'[c.job].lockedBy = w
                                         /\ leases'[c.job] # leases[c.job]
          /\ \A b, c \in claims' \ claims : b.job = c.job => b = c
      BY <1>2, <3>1, ClaimsTaken
    <3>3. ASSUME NEW b \in claims, NEW c \in claims' \ claims, b.job = c.job
          PROVE  b.worker # c.worker
      BY <3>1, <3>2, <3>3 DEF NoReclaim
    <3> QED BY <3>2, <3>3 DEF DrainInv, OneEach
  <2> QED BY <2>1, <2>2
<1>3. \A w \in Workers : Crash(w) => claims' \subseteq claims
  BY DEF Crash, Drop
<1>4. \A c \in claims : Release(c) => claims' \subseteq claims
  BY DEF Release, Drop
<1> QED BY <1>1, <1>2, <1>3, <1>4, ClaimsMove

LEMMA ActiveMoves ==
  ASSUME [WorkerNext]_allVars
  PROVE  \/ \E c \in claims : Launch(c) \/ Deregister(c)
         \/ \E w \in Workers : Crash(w)
         \/ active' = active /\ ~\E c \in claims : Launch(c)
<1> SUFFICES ASSUME ~\E c \in claims : Launch(c) \/ Deregister(c), ~\E w \in Workers : Crash(w)
             PROVE  active' = active
  OBVIOUS
<1>1. CASE UNCHANGED allVars
  BY <1>1, Zenon DEF allVars
<1>2. ASSUME NEW w \in Workers, LoopStep(w) PROVE active' = active
  <2>1. ~\E c \in RunsOf(w) : Launch(c)
    BY DEF RunsOf
  <2> QED BY <1>2, <2>1, Zenon
      DEF LoopStep, Start, ReadRoom, tryClaimNothing, tryClaim, tryClaimLost, ClaimReturns,
       trySweep, Shutdown, DrainDone, DrainDeadline, Visit, DrainReturn, Restart, workerVars
<1>3. ASSUME NEW c \in claims, HeartbeatStep(c) \/ RunStep(c) PROVE active' = active
  BY <1>3, Zenon
      DEF HeartbeatStep, heartbeat, heartbeatLost, heartbeatNotFound, heartbeatExit, workerVars,
       RunStep, Begin, Timeout, HandlerReturn, BeginResolve, complete, completeLost, completeFailed,
       completeNotFound, Release
<1>4. ASSUME ClientStep PROVE active' = active
  BY <1>4, Zenon DEF ClientStep, workerVars
<1> QED BY <1>1, <1>2, <1>3, <1>4, Zenon DEF WorkerNext

LEMMA RegisteredStep ==
  ASSUME DrainInv, [WorkerNext]_allVars
  PROVE  Registered'
<1>0. /\ WorkerInv /\ RunsMove /\ active \in [Workers -> [Jobs -> claims \cup {NoClaim}]]
      /\ \A c \in claims : c.worker \in Workers /\ c.job \in Jobs
  BY RunsMoveStep DEF DrainInv, WorkerInv, RegistryOK, TypeOK, Claimed
<1>1. ASSUME NEW c \in claims' \ claims PROVE run'[c].pc = "claimed"
  <2>1. PICK w \in Workers : Claims(w)
    BY <1>1, ClaimsMove, Zenon DEF Crash, Release, Drop
  <2>2. run'[c] = NewRun
    BY <1>0, <2>1, ClaimsTaken
  <2> QED BY <2>2 DEF NewRun
<1>2. ASSUME NEW c \in claims \cap claims', run'[c].pc \notin {"claimed", "gone"}, ~Launch(c)
      PROVE  run[c].pc \notin {"claimed", "gone"} /\ active[c.worker][c.job] = c
  <2>1. run[c].pc \notin {"claimed", "gone"}
    BY <1>0, <1>2 DEF RunsMove, MovesTo
  <2> QED BY <2>1 DEF DrainInv, Registered
<1>3. ASSUME NEW c \in claims, Launch(c) PROVE Registered'
  <2>1. /\ claims' = claims
        /\ active' = [active EXCEPT ![c.worker][c.job] = c]
    BY <1>3 DEF Launch, vars
  <2>2. ASSUME NEW b \in claims, run'[b].pc \notin {"claimed", "gone"}
        PROVE  active'[b.worker][b.job] = b
    <3>1. CASE b = c
      BY <1>0, <2>1, <3>1
    <3>2. CASE b # c
      <4>1. ~(b.worker = c.worker /\ b.job = c.job)
        BY <3>2 DEF DrainInv, OneEach
      <4>2. run'[b] = run[b]
        BY <1>0, <1>3, <3>2 DEF Launch, SetRun, WorkerInv, RunsOK
      <4>3. active[b.worker][b.job] = b
        BY <2>2, <4>2 DEF DrainInv, Registered
      <4> QED BY <1>0, <2>1, <4>1, <4>3
    <3> QED BY <3>1, <3>2
  <2> QED BY <2>1, <2>2 DEF Registered
<1>4. ASSUME NEW c \in claims, Deregister(c) PROVE Registered'
  <2>1. /\ claims' = claims
        /\ active' = [active EXCEPT ![c.worker][c.job] = NoClaim]
        /\ run' = [run EXCEPT ![c] = [run[c] EXCEPT !.pc = "gone"]]
    BY <1>4 DEF Deregister, SetRun, vars
  <2>2. /\ run'[c].pc = "gone"
        /\ \A b \in claims : b # c => run'[b] = run[b]
    BY <1>0, <2>1 DEF WorkerInv, RunsOK, Run
  <2>3. ASSUME NEW b \in claims, run'[b].pc \notin {"claimed", "gone"}
        PROVE  active'[b.worker][b.job] = b
    <3>1. b # c /\ run'[b] = run[b]
      BY <2>2, <2>3
    <3>2. ~(b.worker = c.worker /\ b.job = c.job)
      BY <3>1 DEF DrainInv, OneEach
    <3>3. active[b.worker][b.job] = b
      BY <2>3, <3>1 DEF DrainInv, Registered
    <3> QED BY <1>0, <2>1, <3>2, <3>3
  <2> QED BY <2>1, <2>3 DEF Registered
<1>5. ASSUME NEW w \in Workers, Crash(w) PROVE Registered'
  <2>1. /\ claims' = claims \ RunsOf(w) /\ run' = [c \in claims' |-> run[c]]
        /\ active' = [active EXCEPT ![w] = [j \in Jobs |-> NoClaim]]
    BY <1>5 DEF Crash, Drop
  <2>2. ASSUME NEW c \in claims', run'[c].pc \notin {"claimed", "gone"}
        PROVE  active'[c.worker][c.job] = c
    <3>1. c \in claims /\ c.worker # w /\ run'[c] = run[c]
      BY <2>1 DEF RunsOf
    <3>2. active[c.worker][c.job] = c
      BY <2>2, <3>1 DEF DrainInv, Registered
    <3> QED BY <1>0, <2>1, <3>1, <3>2
  <2> QED BY <2>2 DEF Registered
<1>6. ASSUME active' = active, ~\E c \in claims : Launch(c) PROVE Registered'
  BY <1>1, <1>2, <1>6 DEF Registered
<1> QED BY <1>3, <1>4, <1>5, <1>6, ActiveMoves

LEMMA RangedStep ==
  ASSUME DrainInv, [WorkerNext]_allVars
  PROVE  Ranged'
<1>0. WorkerInv /\ RunsMove /\ RunsOK /\ RegistryOK /\ Registered /\ Ranged
  BY RunsMoveStep DEF DrainInv, WorkerInv
<1> SUFFICES ASSUME NEW w \in Workers, NEW c \in RunsOf(w)'
             PROVE  /\ loop'[w] \in {"draining", "ranging", "returned"} => run'[c].pc # "claimed"
                    /\ loop'[w] = "ranging" /\ Unresolved(c)' => c.job \in drain'[w].toVisit
                    /\ loop'[w] = "returned" => ~Unresolved(c)'
  BY DEF Ranged, RunsOf
<1>1. CASE c \notin claims
  <2>1. c \in claims' \ claims /\ c.worker = w
    BY <1>1 DEF RunsOf
  <2>2. PICK v \in Workers : Claims(v)
    BY <2>1, ClaimsMove, Zenon DEF Crash, Release, Drop
  <2>3. v = w /\ loop'[w] = "polling"
    BY <1>0, <2>1, <2>2, ClaimsTaken
  <2> QED BY <2>3
<1>2. CASE c \in claims
  <2>0. /\ c \in RunsOf(w) /\ MovesTo(c, run'[c]) /\ c.worker = w /\ c \in claims'
        /\ run[c] \in Run /\ RunShape(c, run[c]) /\ c \in Claimed
    BY <1>0, <1>2 DEF RunsOf, RunsMove, RunsOK, WorkerInv, TypeOK
  <2>1. /\ Unresolved(c)' => Unresolved(c)
        /\ run'[c].pc = "claimed" => run[c].pc = "claimed"
    BY <2>0 DEF MovesTo, Unresolved
  <2>2. /\ loop[w] \in {"draining", "ranging", "returned"} => run[c].pc # "claimed"
        /\ loop[w] = "ranging" /\ Unresolved(c) => c.job \in drain[w].toVisit
        /\ loop[w] = "returned" => ~Unresolved(c)
    BY <1>0, <2>0 DEF Ranged
  <2>3. Unresolved(c) /\ run[c].pc # "claimed" => active[w][c.job] = c /\ c.job \in Jobs /\ c # NoClaim
    BY <1>0, <1>2, <2>0, WorkerAssumption DEF Unresolved, RunShape, Registered, Claimed
  <2>4. CASE loop'[w] = loop[w] /\ drain'[w] = drain[w]
    BY <2>1, <2>2, <2>4
  <2>5. CASE loop'[w] \in {"new", "polling", "claiming"}
    BY <2>5
  <2>6. ASSUME NEW j \in Jobs, Visit(w, j), Unresolved(c)' PROVE c.job \in drain'[w].toVisit
    <3>1. Unresolved(c) /\ loop[w] = "ranging" /\ drain'[w].toVisit = drain[w].toVisit \ {j}
      BY <2>1, <2>6 DEF Visit, DrainInv, WorkerInv, DrainOK
    <3>2. ASSUME c.job = j PROVE FALSE
      <4>1. active[w][j] = c /\ c # NoClaim
        BY <2>2, <2>3, <3>1, <3>2
      <4>2. SetRun(c, [CanceledCtx(run[c]) EXCEPT !.phase = "abandoned"])
        BY <2>6, <3>1, <4>1 DEF Visit, Unresolved
      <4>3. run'[c].phase = "abandoned"
        BY <1>0, <1>2, <2>0, <4>2, CanceledFields DEF SetRun, RunsOK, Run
      <4> QED BY <2>6, <4>3 DEF Unresolved
    <3> QED BY <2>2, <3>1, <3>2
  <2>7. ASSUME NEW j \in Jobs, Visit(w, j) PROVE loop'[w] = "ranging" /\ loop[w] = "ranging"
    BY <2>7 DEF Visit
  <2>8. ASSUME Shutdown(w) PROVE loop'[w] = "draining" /\ run'[c].pc # "claimed"
    BY <2>0, <2>8 DEF Shutdown, Idle, WorkerInv, DrainInv, LoopOK
  <2>9. ASSUME DrainDone(w) PROVE FALSE
    BY <2>0, <2>9 DEF DrainDone
  <2>10. ASSUME DrainDeadline(w)
         PROVE  /\ loop[w] = "draining" /\ loop'[w] = "ranging"
                /\ drain'[w].toVisit = {j \in Jobs : active[w][j] # NoClaim}
    BY <2>10 DEF DrainDeadline, WorkerInv, DrainInv, LoopOK, DrainOK
  <2>11. ASSUME NEW exceeded \in BOOLEAN, DrainReturn(w, exceeded)
         PROVE  loop[w] = "ranging" /\ loop'[w] = "returned" /\ drain[w].toVisit = {}
    BY <2>11 DEF DrainReturn, WorkerInv, DrainInv, LoopOK
  <2>12. ASSUME Crash(w) PROVE loop'[w] = "dead"
    BY <2>12 DEF Crash, WorkerInv, DrainInv, LoopOK
  <2>13. LoopMoves(w)
    BY <1>0, LoopStepMoves
  <2> HIDE DEF Unresolved
  <2>14. CASE \E j \in Jobs : Visit(w, j)
    BY <2>1, <2>2, <2>6, <2>7, <2>14
  <2>15. CASE DrainDeadline(w)
    BY <2>1, <2>2, <2>3, <2>10, <2>15
  <2>16. CASE \E exceeded \in BOOLEAN : DrainReturn(w, exceeded)
    BY <2>1, <2>2, <2>11, <2>16
  <2> QED BY <2>4, <2>5, <2>8, <2>9, <2>12, <2>13, <2>14, <2>15, <2>16 DEF LoopMoves
<1> QED BY <1>1, <1>2


-----------------------------------------------------------------------------
(* No lease is left behind unreported *)

LEMMA AbandonedSticks ==
  ASSUME WorkerInv, NEW w \in Workers, LoopMoves(w), Crashes = {}, drain[w].abandoned
  PROVE  drain'[w].abandoned
<1>1. ~Crash(w) /\ DrainOK
  BY DEF Crash, WorkerInv
<1>2. ASSUME NEW j \in Jobs, Visit(w, j) PROVE drain'[w].abandoned
  BY <1>1, <1>2 DEF Visit, DrainOK
<1>3. ASSUME DrainDeadline(w) PROVE drain'[w].abandoned
  BY <1>1, <1>3 DEF DrainDeadline, DrainOK
<1>4. ASSUME NEW exceeded \in BOOLEAN, DrainReturn(w, exceeded) PROVE drain'[w].abandoned
  BY <1>1, <1>4 DEF DrainReturn, DrainOK
<1>5. ASSUME Shutdown(w) \/ DrainDone(w) PROVE drain'[w].abandoned
  BY <1>5 DEF Shutdown, DrainDone
<1> QED BY <1>1, <1>2, <1>3, <1>4, <1>5 DEF LoopMoves

LEMMA GrantedByClaim ==
  ASSUME WorkerInv, [WorkerNext]_allVars, ~LossyCalls, NEW j \in Jobs,
         row[j].state # "running", row'[j].state = "running"
  PROVE  \E w \in Workers : Claims(w)
<1>0. TypeOK /\ row \in [Jobs -> Row] /\ row[j] \in Row /\ row'[j] # row[j]
  BY DEF WorkerInv, TypeOK
<1>1. CASE UNCHANGED allVars
  BY <1>0, <1>1, Zenon DEF allVars, vars
<1>2. ASSUME NEW w \in Workers, LoopStep(w), ~Claims(w) PROVE FALSE
  <2>1. ASSUME NEW t \in Clock, trySweep(w, t) PROVE FALSE
    BY <1>0, <2>1 DEF trySweep, SweepExpired, Expired
  <2>2. row' = row \/ \E t \in Clock : trySweep(w, t)
    BY <1>2, Zenon DEF LoopStep, Claims, Start, ReadRoom, tryClaimNothing, tryClaimLost, Launch,
       Shutdown, DrainDone, DrainDeadline, Visit, DrainReturn, Crash, Drop, Restart, vars
  <2> QED BY <1>0, <2>1, <2>2
<1>3. ASSUME NEW c \in claims, HeartbeatStep(c) \/ RunStep(c) PROVE FALSE
  <2>1. row' = row \/ (Owns(c) /\ \E r : row' = [row EXCEPT ![c.job] = r])
    <3>1. ASSUME NEW t, Heartbeat(c, t) PROVE Owns(c) /\ \E r : row' = [row EXCEPT ![c.job] = r]
      BY <3>1, Zenon DEF Heartbeat
    <3>2. ASSUME NEW o, Complete(c, o) PROVE Owns(c) /\ \E r : row' = [row EXCEPT ![c.job] = r]
      BY <3>2, Zenon DEF Complete
    <3>3. \/ row' = row
          \/ \E t \in Clock : Heartbeat(c, t)
          \/ Complete(c, run[c].out)
      BY <1>3, Zenon DEF HeartbeatStep, heartbeat, heartbeatLost, heartbeatNotFound, heartbeatExit,
         RunStep, Begin, Timeout, HandlerReturn, BeginResolve, complete, completeLost,
             completeFailed,
         completeNotFound, Deregister, Release, Drop, vars
    <3> QED BY <3>1, <3>2, <3>3
  <2> QED BY <1>0, <2>1 DEF Owns
<1>4. ASSUME ClientStep PROVE FALSE
  <2>1. ASSUME NEW i \in Jobs, NEW t \in Clock, Insert({i}, [k \in {i} |-> 0], t) PROVE FALSE
    BY <1>0, <2>1 DEF Insert, NewRow
  <2>2. ASSUME NEW i \in Jobs, NEW t \in Clock, Retry(i, t) PROVE FALSE
    BY <1>0, <2>2, RevivedFields, Zenon DEF Retry
  <2>3. ASSUME NEW i \in Jobs, Cancel(i) PROVE FALSE
    BY <1>0, <2>3 DEF Cancel, Row
  <2>4. ASSUME NEW i \in Jobs, Delete(i) PROVE FALSE
    BY <1>0, <2>4 DEF Delete, NewRow
  <2>5. CASE Tick
    BY <1>0, <2>5 DEF Tick
  <2> QED BY <1>4, <2>1, <2>2, <2>3, <2>4, <2>5, Zenon DEF ClientStep
<1> QED BY <1>1, <1>2, <1>3, <1>4, Zenon DEF WorkerNext

\* A lease that a worker holds after a step it held before, or the step claimed it.
LEMMA LeaseMoves ==
  ASSUME WorkerInv, [WorkerNext]_allVars, ~LossyCalls, NoReclaim \/ UNCHANGED allVars,
         NEW w \in Workers, NEW j \in Jobs, row'[j].state = "running", row'[j].lockedBy = w
  PROVE  \/ row[j].state = "running" /\ row[j].lockedBy = w
         \/ \E c \in claims' : c.worker = w /\ c.job = j /\ run'[c] = NewRun
<1>0. TypeOK /\ row[j] \in Row /\ [Next]_vars
  BY StoreStep DEF WorkerInv, TypeOK
<1>1. CASE row[j].state = "running"
  <2>1. ~Finished(j) /\ ~Expiring(j)
    BY <1>0, FinishedFields, ExpiringFields, WorkersAssumption
  <2> QED BY <1>0, <1>1, <2>1, RowMoves
          DEF Moves, Enqueued, Granted, Kept, Reviving, Dequeued, Removed, Queued, Terminal
<1>2. CASE row[j].state # "running"
  <2>1. PICK v \in Workers : Claims(v)
    BY <1>2, GrantedByClaim
  <2>2. PICK t \in Clock : \E C \in (SUBSET Eligible(v, t)) \ {{}} : tryClaim(v, C, t)
    BY <2>1 DEF Claims
  <2>3. PICK C \in SUBSET Eligible(v, t) : tryClaim(v, C, t)
    BY <2>2
  <2>4. /\ run' = [c \in claims' |-> IF c \in claims THEN run[c] ELSE NewRun]
        /\ claims' = claims \cup {ClaimOf(i, v) : i \in C}
        /\ row' = [i \in Jobs |-> IF i \in C THEN Leased(row[i], v, t) ELSE row[i]]
        /\ leases' = [i \in Jobs |-> IF i \in C THEN leases[i] + 1 ELSE leases[i]]
    BY <2>3, Zenon DEF tryClaim, Claim
  <2>5. j \in C /\ v = w
    BY <1>0, <1>2, <2>4, LeasedFields
  <2>6. ClaimOf(j, w).job = j /\ ClaimOf(j, w).worker = w /\ ClaimOf(j, w) \in claims'
    BY <2>4, <2>5 DEF ClaimOf
  <2>7. leases'[j] # leases[j] /\ row'[j] # row[j]
    <3>1. leases[j] \in Nat
      BY <1>0 DEF TypeOK
    <3> QED BY <1>2, <2>4, <2>5, <3>1
  <2>8. ClaimOf(j, w) \notin claims
    BY <2>6, <2>7 DEF NoReclaim, allVars, vars
  <2> QED BY <2>4, <2>6, <2>8
<1> QED BY <1>1, <1>2

LEMMA ReportedStep ==
  ASSUME CleanInv, [WorkerNext]_allVars, ~LossyCalls, Crashes = {}, NoReclaim \/ UNCHANGED allVars
  PROVE  Reported'
<1>0. /\ WorkerInv /\ RegistryOK /\ DrainOK /\ claims \subseteq Claimed /\ Reported /\ RunsMove
      /\ \A w \in Workers : LoopMoves(w)
  BY LoopStepMoves, RunsMoveStep DEF CleanInv, DrainInv, WorkerInv, TypeOK
<1>1. ASSUME NEW w \in Workers, drain[w].abandoned PROVE drain'[w].abandoned
  BY <1>0, <1>1, AbandonedSticks
<1>2. ASSUME NEW c \in claims, run[c].pc # "gone" PROVE c \in claims'
  BY <1>0, <1>2, ClaimsMove, ClaimsTaken DEF Crash, Release, Drop
<1>3. ASSUME NEW c \in claims', c \notin claims PROVE run'[c] = NewRun
  BY <1>0, <1>3, ClaimsMove, ClaimsTaken DEF Crash, Release, Drop
<1>4. ASSUME NEW c \in claims', run'[c].phase = "abandoned" PROVE drain'[c.worker].abandoned
  <2>1. c \in claims
    BY <1>3, <1>4 DEF NewRun
  <2>2. MovesTo(c, run'[c]) /\ c.worker \in Workers
    BY <1>0, <2>1 DEF RunsMove, Claimed
  <2>3. CASE run[c].phase = "abandoned"
    BY <1>0, <1>1, <2>1, <2>2, <2>3 DEF Reported
  <2>4. ASSUME NEW w \in Workers, NEW j \in Jobs, Visit(w, j), c = active[w][j],
               run[c].phase # "abandoned"
        PROVE  drain'[c.worker].abandoned
    <3>1. c # NoClaim /\ run[c].phase \in {"registered", "running"}
      BY <1>4, <2>4 DEF Visit
    <3>2. c.worker = w
      BY <1>0, <2>4, <3>1 DEF RegistryOK
    <3>3. drain'[w].abandoned
      BY <1>0, <2>4, <3>1 DEF Visit, DrainOK
    <3> QED BY <3>2, <3>3
  <2> QED BY <1>4, <2>2, <2>3, <2>4 DEF MovesTo
<1>5. ASSUME NEW w \in Workers, NEW j \in Jobs, row'[j].state = "running", row'[j].lockedBy = w
      PROVE  \/ drain'[w].abandoned
             \/ \E c \in RunsOf(w)' : c.job = j /\ run'[c].pc \notin {"finished", "gone"}
  <2>1. ASSUME NEW c \in claims', c.worker = w, c.job = j, run'[c] = NewRun
        PROVE  \E b \in RunsOf(w)' : b.job = j /\ run'[b].pc \notin {"finished", "gone"}
    BY <2>1 DEF RunsOf, NewRun
  <2>2. ASSUME NEW c \in RunsOf(w), c.job = j, run[c].pc \notin {"finished", "gone"},
               row[j].state = "running", row[j].lockedBy = w
        PROVE  \/ drain'[w].abandoned
               \/ \E b \in RunsOf(w)' : b.job = j /\ run'[b].pc \notin {"finished", "gone"}
    <3>1. c \in claims /\ c.worker = w /\ c \in claims' /\ Owns(c)
      BY <1>2, <2>2 DEF RunsOf, Owns
    <3>2. MovesTo(c, run'[c])
      BY <1>0, <3>1 DEF RunsMove
    <3>3. ~complete(c)
      <4> SUFFICES ASSUME complete(c) PROVE FALSE
        OBVIOUS
      <4>1. row \in [Jobs -> Row]
        BY <1>0 DEF WorkerInv, TypeOK
      <4>2. row'[j] = Completed(row[j], Resolve(row[j], run[c].out))
        BY <2>2, <4>1 DEF complete, Complete
      <4>3. row'[j].lockedBy = NoWorker
        BY <4>1, <4>2 DEF Completed, Unlocked, Row
      <4> QED BY <1>5, <4>3, WorkersAssumption
    <3>4. CASE run[c].phase = "abandoned"
      BY <1>0, <1>1, <3>1, <3>4 DEF Reported
    <3>5. CASE run'[c].pc \notin {"finished", "gone"}
      BY <2>2, <3>1, <3>5 DEF RunsOf
    <3> QED BY <2>2, <3>1, <3>2, <3>3, <3>4, <3>5 DEF MovesTo
  <2>3. CASE row[j].state = "running" /\ row[j].lockedBy = w
    BY <1>0, <1>1, <2>2, <2>3 DEF Reported
  <2> QED BY <1>0, <1>5, <2>1, <2>3, LeaseMoves
<1> QED BY <1>4, <1>5 DEF Reported

LEMMA ReturnedStep ==
  ASSUME CleanInv, [WorkerNext]_allVars, Crashes = {}
  PROVE  ReturnedClean'
<1> SUFFICES ASSUME NEW w \in Workers
             PROVE  /\ loop'[w] \notin {"ranging", "returned"} => ~drain'[w].abandoned
                    /\ loop'[w] = "returned" /\ ~drain'[w].exceeded => RunsOf(w)' = {} /\ ~drain'[w].abandoned
  BY DEF ReturnedClean
<1>0. /\ WorkerInv /\ DrainOK /\ LoopMoves(w) /\ ~Crash(w) /\ loop \in [Workers -> Loops]
      /\ loop[w] \notin {"ranging", "returned"} => ~drain[w].abandoned
      /\ loop[w] = "returned" /\ ~drain[w].exceeded => RunsOf(w) = {} /\ ~drain[w].abandoned
  BY LoopStepMoves DEF CleanInv, DrainInv, WorkerInv, ReturnedClean, Crash, LoopOK, Loops
<1>1. RunsOf(w) = {} /\ loop'[w] # "polling" => RunsOf(w)' = {}
  <2>1. ASSUME NEW v \in Workers, Claims(v), RunsOf(w) = {}, loop'[w] # "polling"
        PROVE  RunsOf(w)' = {}
    <3>1. v # w /\ \A c \in claims' \ claims : c.worker = v
      BY <1>0, <2>1, ClaimsTaken
    <3> QED BY <2>1, <3>1 DEF RunsOf
  <2>2. ASSUME claims' \subseteq claims, RunsOf(w) = {} PROVE RunsOf(w)' = {}
    BY <2>2 DEF RunsOf
  <2> QED BY <2>1, <2>2, ClaimsMove DEF Crash, Release, Drop
<1>2. ASSUME NEW j \in Jobs, Visit(w, j) PROVE loop'[w] = "ranging"
  BY <1>2 DEF Visit
<1>3. ASSUME DrainDeadline(w) PROVE loop'[w] = "ranging"
  BY <1>0, <1>3 DEF DrainDeadline
<1>4. ASSUME NEW exceeded \in BOOLEAN, DrainReturn(w, exceeded)
      PROVE  /\ loop'[w] = "returned"
             /\ ~drain'[w].exceeded => RunsOf(w)' = {} /\ ~drain'[w].abandoned
  BY <1>0, <1>4 DEF DrainReturn, DrainOK, RunsOf, vars
<1>5. ASSUME Shutdown(w) PROVE loop'[w] = "draining" /\ drain' = drain /\ loop[w] = "polling"
  BY <1>0, <1>5 DEF Shutdown, Idle
<1>6. ASSUME DrainDone(w)
      PROVE  loop'[w] = "returned" /\ drain' = drain /\ loop[w] = "draining" /\ RunsOf(w)' = {}
  BY <1>0, <1>6 DEF DrainDone, RunsOf, vars
<1>7. CASE loop'[w] = loop[w] /\ drain'[w] = drain[w]
  BY <1>0, <1>1, <1>7
<1> QED BY <1>0, <1>2, <1>3, <1>4, <1>5, <1>6, <1>7 DEF LoopMoves

-----------------------------------------------------------------------------
(* The theorems *)

LEMMA DrainInvInit == WorkerInit => DrainInv
<1> SUFFICES ASSUME WorkerInit PROVE DrainInv
  OBVIOUS
<1>1. claims = {} /\ WorkerInv
  BY InvInit DEF WorkerInit, Init
<1> QED BY <1>1 DEF DrainInv, OneEach, Registered, Ranged, RunsOf

LEMMA DrainInvStep ==
  ASSUME IsFiniteSet(Jobs)
  PROVE  DrainInv /\ [WorkerNextNoReclaim]_allVars => DrainInv'
<1> SUFFICES ASSUME DrainInv, [WorkerNextNoReclaim]_allVars PROVE DrainInv'
  OBVIOUS
<1>1. [WorkerNext]_allVars /\ (NoReclaim \/ UNCHANGED allVars)
  BY DEF WorkerNextNoReclaim
<1>2. WorkerInv'
  BY <1>1, WorkerInvStep DEF DrainInv
<1> QED BY <1>1, <1>2, OneEachStep, RegisteredStep, RangedStep DEF DrainInv

\* When Start has returned, every run it leaves behind was abandoned or had begun to
\* resolve (drain): Range misses none, in whatever order runs register, end and are
\* visited, as long as no job is leased back to a worker that still runs it.
THEOREM ReturnedQuiet ==
  ASSUME IsFiniteSet(Jobs)
  PROVE  DrainSpec => []DrainedQuiet
<1>1. DrainInv => DrainedQuiet
  <2> SUFFICES ASSUME DrainInv, NEW w \in Workers, loop[w] = "returned", NEW c \in RunsOf(w)
               PROVE  run[c].phase \in {"abandoned", "resolving"}
    BY DEF DrainedQuiet
  <2>1. run[c] \in Run /\ ~Unresolved(c)
    BY DEF DrainInv, WorkerInv, RunsOK, Ranged, RunsOf
  <2> QED BY <2>1 DEF Run, Unresolved
<1> QED BY <1>1, DrainInvInit, DrainInvStep, PTL DEF DrainSpec

\* When Start returns nil no job is left leased to the worker, so none has to wait for
\* its lease to expire (drain reports an abandoned run).  Lost replies and crashes are
\* excluded: either leaves a lease behind by its nature.
THEOREM ReturnsClean ==
  ASSUME IsFiniteSet(Jobs), ~LossyCalls, Crashes = {}
  PROVE  DrainSpec => []CleanDrain
<1>1. WorkerInit => CleanInv
  <2> SUFFICES ASSUME WorkerInit PROVE CleanInv
    OBVIOUS
  <2>1. claims = {} /\ DrainInv /\ TypeOK
    BY DrainInvInit, TypeInit DEF WorkerInit, Init
  <2>2. /\ \A w \in Workers : ~drain[w].abandoned /\ loop[w] = "new"
        /\ \A j \in Jobs : row[j].state # "running"
    BY DEF WorkerInit, Init, NoDrain, NewRow
  <2> QED BY <2>1, <2>2 DEF CleanInv, Reported, ReturnedClean
<1>2. CleanInv /\ [WorkerNextNoReclaim]_allVars => CleanInv'
  <2> SUFFICES ASSUME CleanInv, [WorkerNextNoReclaim]_allVars PROVE CleanInv'
    OBVIOUS
  <2>1. [WorkerNext]_allVars /\ DrainInv /\ (NoReclaim \/ UNCHANGED allVars)
    BY DEF WorkerNextNoReclaim, CleanInv
  <2> QED BY <2>1, DrainInvStep, ReportedStep, ReturnedStep DEF CleanInv
<1>3. CleanInv => CleanDrain
  BY DEF CleanInv, Reported, ReturnedClean, CleanDrain
<1> QED BY <1>1, <1>2, <1>3, PTL DEF DrainSpec

=============================================================================
