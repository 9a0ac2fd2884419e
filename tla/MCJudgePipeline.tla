-------------------------- MODULE MCJudgePipeline --------------------------
(* Instances of JudgePipeline for TLC.                                      *)
EXTENDS JudgePipeline, TLC

CONSTANTS s1, s2, s3, u1p1

\* Every submission is by one user for one problem.
OnePair == [s \in Submission |-> u1p1]

Workers == Permutations(Worker)
=============================================================================
