--------------------------- MODULE MCJobScheduler ---------------------------
(* Schedule 1 catches up on every tick, 2 fires once, 3 skips; 4 is declared *)
(* by nobody.  All processes run the same version.                         *)
EXTENDS JobScheduler

CONSTANT Declared

MCVersion == [n \in Declared |->
  [spec |-> [cron |-> n = 2, d |-> IF n = 2 THEN 2 ELSE 1],
   catchUp |-> IF n = 1 THEN "all" ELSE IF n = 2 THEN "once" ELSE "skip"]]

MCDeclares == [p \in Processes |-> MCVersion]
MCHandles == [p \in Processes |-> Declared]

ASSUME OneProgram == OneVersion
=============================================================================
