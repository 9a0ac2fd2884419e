---------------------------- MODULE MCExamAttempt ----------------------------
(* Instances of ExamAttempt for TLC.                                        *)
EXTENDS ExamAttempt, TLC

CONSTANTS t1, t2

Passes == Permutations(Tick)
Tabs == Permutations(Tab)
=============================================================================
