----------------------------- MODULE MCJobWorker ----------------------------
(* Jobs 2 and 3 share the capped queue "bulk", job 1 has a queue without a    *)
(* cap; job 1 times out into a retry, job 2 into a failure, job 3 never;      *)
(* job 2 has a single attempt.                                              *)
EXTENDS JobWorker

MCQueue == [j \in Jobs |-> IF j = 1 THEN "default" ELSE "bulk"]
MCPriority == [j \in Jobs |-> 0]
MCKey == [j \in Jobs |-> NoKey]
MCMaxAttempts == [j \in Jobs |-> IF j = 2 THEN 1 ELSE 2]
MCServes == [w \in Workers |-> Jobs]
MCPerQueue == [q \in {"bulk"} |-> 1]
MCOnTimeout == [j \in Jobs |-> IF j = 1 THEN "retry" ELSE IF j = 2 THEN "fail" ELSE "none"]
=============================================================================
