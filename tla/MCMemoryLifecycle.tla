------------------------- MODULE MCMemoryLifecycle -------------------------
(* Instances of MemoryLifecycle for TLC. *)
EXTENDS MemoryLifecycle, TLC

CONSTANTS w1, w2

\* Run 1 is the origin, whose index row may come late; run 2 is a replay by its principal; 3 has no recorded
\* input; 4 and 5 are independent of it and of each other.
MCOrigins == [m \in Memories |-> {1}]
MCPrincipal == [r \in Runs |-> IF r = 2 THEN 1 ELSE r]
MCCluster == [r \in Runs |-> IF r = 3 THEN 0 ELSE r]

AllPasses == [w \in Workers |-> Kinds \ {"candidate_ttl", "decay"}]

WorkerSymmetry == Permutations(Workers)
=============================================================================
