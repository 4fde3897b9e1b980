----------------------------- MODULE MCSqlJobs ------------------------------
(* Two jobs of one queue that share a key, served by every worker.            *)
EXTENDS SqlJobs, TLC

MCQueue == [j \in Jobs |-> "default"]
MCPriority == [j \in Jobs |-> 0]
MCKey == [j \in Jobs |-> "k"]
MCMaxAttempts == [j \in Jobs |-> 2]
MCServes == [w \in Workers |-> Jobs]
Symmetry == Permutations(Workers) \cup Permutations(Conns)
=============================================================================
