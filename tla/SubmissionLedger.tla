-------------------------- MODULE SubmissionLedger --------------------------
(***************************************************************************)
(* What the judge promises about the submissions table and the ranking     *)
(* points, with no queue, no worker and no transaction: a submission is    *)
(* recorded as pending, receives one verdict, and the first accepted       *)
(* submission outside an exam of a user for a problem earns the points of  *)
(* the problem, once.  FinalizeTx and JudgePipeline implement it.          *)
(***************************************************************************)
EXTENDS Naturals

CONSTANTS Submission, \* submission ids
          Key,        \* (user, problem) pairs: the advisory-lock keys
          KeyOf,      \* the pair a submission belongs to, in [Submission -> Key]
          Exam        \* submissions made inside an exam participation, a subset

VARIABLES verdict,    \* submissions.status; "absent" before the insert
          awards      \* times the points of a pair were added to users.rankingPoint

ledgerVars == <<verdict, awards>>

\* The five judged statuses that are neither ACCEPTED nor SYSTEM_ERROR are one:
\* nothing in the pipeline tells them apart.
Verdict == {"accepted", "rejected", "system_error"}
Status == {"absent", "pending"} \cup Verdict

\* hasUserSolvedProblem: an accepted submission outside any exam exists.
Solved(k) == \E t \in Submission \ Exam : KeyOf[t] = k /\ verdict[t] = "accepted"

Earns(s, v) == v = "accepted" /\ s \notin Exam /\ ~Solved(KeyOf[s])

LedgerTypeOK ==
    /\ verdict \in [Submission -> Status]
    /\ awards \in [Key -> Nat]

-----------------------------------------------------------------------------
Init ==
    /\ verdict = [s \in Submission |-> "absent"]
    /\ awards = [k \in Key |-> 0]

Record(s) ==
    /\ verdict[s] = "absent"
    /\ verdict' = [verdict EXCEPT ![s] = "pending"]
    /\ UNCHANGED awards

Judge(s, v) ==
    /\ verdict[s] = "pending"
    /\ verdict' = [verdict EXCEPT ![s] = v]
    /\ awards' = IF Earns(s, v) THEN [awards EXCEPT ![KeyOf[s]] = @ + 1] ELSE awards

Next == \E s \in Submission : Record(s) \/ \E v \in Verdict : Judge(s, v)

Spec == Init /\ [][Next]_ledgerVars

-----------------------------------------------------------------------------
\* The points of a pair are on the user's ranking exactly when, and at most
\* once because, the user has an accepted submission for the problem.
AwardedOnce == \A k \in Key : awards[k] = IF Solved(k) THEN 1 ELSE 0

=============================================================================
