----------------------------- MODULE MCFinalizeTx -----------------------------
(* Instances of FinalizeTx for TLC.                                         *)
EXTENDS FinalizeTx, TLC

CONSTANTS s1, s2, s3, s4, p1, p2, rm

\* Three submissions for one problem of the user, s4 in an exam, and one for another
\* problem of the same roadmap.
KeyOfFour == s1 :> p1 @@ s2 :> p1 @@ s3 :> p2 @@ s4 :> p1
OneRoadmap == p1 :> {rm} @@ p2 :> {rm}

Interchangeable == Permutations(Tx) \cup Permutations({s1, s2})
=============================================================================
