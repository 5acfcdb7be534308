-------------------------- MODULE MCTraceLearning --------------------------
(* Small instances of TraceLearning. *)
EXTENDS TraceLearning, TLC

CONSTANTS w1, w2, r1, r2, s1

\* Both runs teach the same two contents.
MCPlan == [r \in Runs |-> {1, 2}]

\* The keys of the locks are in another order than the content hashes.
MCHashText == 1 :> 9 @@ 2 :> 4

\* Both archives are whole, or the second run's is corrupt or shredded.
Whole == [r \in Runs |-> "whole"]
MCArchives == {Whole, [Whole EXCEPT ![r2] = "corrupt"], [Whole EXCEPT ![r2] = "shredded"]}
=============================================================================
