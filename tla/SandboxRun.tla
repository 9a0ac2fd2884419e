------------------------------- MODULE SandboxRun -------------------------------
(***************************************************************************)
(* The sandbox process and the verdict that comes out of it: executions    *)
(* under the limit of concurrent jobs, the calls of a worker's slots that  *)
(* wait for them or have given them up, and the status of a submission as  *)
(* it is derived twice from what its test runs left behind, in the sandbox *)
(* from each row and again in the worker from the texts that arrived.      *)
(***************************************************************************)
EXTENDS Naturals, Sequences, FiniteSets

CONSTANTS
    Execution,      \* calls of executeCode
    Caller,         \* slots of the worker
    NoCaller,       \* an execution nobody waits for
    MaxConcurrent,  \* SANDBOX_MAX_CONCURRENT
    Tests,          \* test cases of the problem
    Word            \* what the classification looks for and a program may say

VARIABLES
    exec,           \* per execution: where it is, who waits, its rows, the verdict
    activeJobs,     \* the sandbox's map of running executions
    call            \* per slot of the worker, the execution it waits for

sandboxVars == <<exec, activeJobs, call>>

Sought == {"time", "memory", "compile", "runtime"}

ASSUME SandboxAssumption ==
    /\ Caller # {} /\ NoCaller \notin Caller
    /\ IsFiniteSet(Caller)
    /\ MaxConcurrent \in Nat /\ Cardinality(Caller) <= MaxConcurrent
    /\ Tests \in Nat \ {0}
    /\ Word \subseteq Sought

Idle == "idle"
ASSUME IdleAssumption == Idle \notin Execution

-----------------------------------------------------------------------------
(* What a test run comes to                                                *)

\* "slow" was killed inside the jail by `timeout`, "stuck" from outside; "crashed" left
\* no envelope or a bad exit code; "unjailed" could not be started; "uncompiled" never ran.
Outcome == {"passed", "wrong", "crashed", "slow", "stuck", "unjailed", "uncompiled"}

\* The words of the reason at the head of a row.  A compiler's message names a line of
\* the source file, or is the sandbox's own "Compilation failed".
Reason(o) ==
    CASE o \in {"crashed", "slow"} -> {"runtime"}
      [] o = "stuck"               -> {"time"}
      [] o = "uncompiled"          -> {"compile"}
      [] OTHER                     -> {}

\* The output of the program, or of the compiler, is quoted in the row.
Quoted(o) == IF o \in {"stuck", "unjailed"} THEN {{}} ELSE SUBSET Word
TestRow == UNION {{[outcome |-> o, said |-> s] : s \in Quoted(o)} : o \in Outcome}

Priority == <<"compilation_error", "time_limit_exceeded", "memory_limit_exceeded",
              "runtime_error", "wrong_answer">>
Rank(s) == CHOOSE i \in DOMAIN Priority : Priority[i] = s
Gravest(S) == CHOOSE s \in S : \A t \in S : Rank(s) <= Rank(t)

\* Mutant: the words are looked for before the result of the comparison.
WordsFirst(passed, words) ==
    IF "time" \in words THEN "time_limit_exceeded"
    ELSE IF passed THEN "accepted" ELSE "wrong_answer"

determineTestCaseStatus(passed, words) ==
    IF passed THEN "accepted"
    ELSE IF "time" \in words THEN "time_limit_exceeded"
    ELSE IF "memory" \in words THEN "memory_limit_exceeded"
    ELSE IF "compile" \in words THEN "compilation_error"
    ELSE IF "runtime" \in words THEN "runtime_error"
    ELSE "wrong_answer"

determineFinalStatus(statuses) ==
    IF statuses = {"accepted"} THEN "accepted" ELSE Gravest(statuses \ {"accepted"})

\* The status the sandbox sends with a row.
inferTestCaseStatus(r) ==
    determineTestCaseStatus(r.outcome = "passed", Reason(r.outcome) \cup r.said)

\* The row the worker makes of it: the status survives as isPassed only, and a long text
\* may have lost all of the program's words but those in "kept".
LegacyStatus(r, kept) ==
    determineTestCaseStatus(inferTestCaseStatus(r) = "accepted", Reason(r.outcome) \cup (r.said \cap kept))

Verdicts(rows) ==
    {determineFinalStatus({LegacyStatus(rows[i], kept[i]) : i \in DOMAIN rows}) :
        kept \in [DOMAIN rows -> SUBSET Word]}

-----------------------------------------------------------------------------
Fresh == [pc |-> "new", by |-> NoCaller, rows |-> <<>>, verdict |-> "none"]
Status == {Priority[i] : i \in DOMAIN Priority} \cup {"accepted", "failed", "none"}

SandboxTypeOK ==
    /\ exec \in [Execution -> [pc : {"new", "compiling", "testing", "ended"},
                               by : Caller \cup {NoCaller},
                               rows : UNION {[1..n -> TestRow] : n \in 0..Tests},
                               verdict : Status]]
    /\ activeJobs \subseteq Execution
    /\ call \in [Caller -> Execution \cup {Idle}]

SandboxInit ==
    /\ exec = [e \in Execution |-> Fresh]
    /\ activeJobs = {}
    /\ call = [w \in Caller |-> Idle]

Executing(e) == exec[e].pc \in {"compiling", "testing"}
Full == Cardinality(activeJobs) >= MaxConcurrent

\* Mutant: only an execution that ran to its end is taken off the map.
ReleaseOnSuccess(e, ran) == activeJobs' = IF ran THEN activeJobs \ {e} ELSE activeJobs

Release(e, ran) == activeJobs' = activeJobs \ {e}

\* The answer reaches whoever still waits: a verdict, or an attempt that failed.
Answer(e, v) ==
    /\ exec' = [exec EXCEPT ![e].pc = "ended", ![e].by = NoCaller,
                            ![e].verdict = IF exec[e].by = NoCaller THEN "none" ELSE v]
    /\ call' = [w \in Caller |-> IF call[w] = e THEN Idle ELSE call[w]]

\* executeCode up to its first await: the capacity is checked and taken in one turn.
ExecuteRefused(w, e) ==
    /\ call[w] = Idle /\ exec[e].pc = "new"
    /\ Full
    /\ exec' = [exec EXCEPT ![e].pc = "ended", ![e].verdict = "failed"]
    /\ UNCHANGED <<activeJobs, call>>

ExecuteBegins(w, e) ==
    /\ call[w] = Idle /\ exec[e].pc = "new"
    /\ ~Full
    /\ activeJobs' = activeJobs \cup {e}
    /\ exec' = [exec EXCEPT ![e].pc = "compiling", ![e].by = w]
    /\ call' = [call EXCEPT ![w] = e]

\* The code is found malicious, the language unknown or the workspace cannot be written.
ExecuteFails(e) ==
    /\ exec[e].pc = "compiling"
    /\ Release(e, FALSE)
    /\ Answer(e, "failed")

\* No compiler for the language, or it succeeds.
compileCode(e) ==
    /\ exec[e].pc = "compiling"
    /\ exec' = [exec EXCEPT ![e].pc = "testing"]
    /\ UNCHANGED <<activeJobs, call>>

\* Every test case gets the compiler's error.
CompileRejects(e, said) ==
    /\ exec[e].pc = "compiling"
    /\ exec' = [exec EXCEPT ![e].pc = "testing",
                            ![e].rows = [i \in 1..Tests |-> [outcome |-> "uncompiled", said |-> said]]]
    /\ UNCHANGED <<activeJobs, call>>

runWithNsjail(e, r) ==
    /\ exec[e].pc = "testing"
    /\ Len(exec[e].rows) < Tests
    /\ r.outcome # "uncompiled"
    /\ exec' = [exec EXCEPT ![e].rows = Append(@, r)]
    /\ UNCHANGED <<activeJobs, call>>

ExecuteEnds(e) ==
    /\ exec[e].pc = "testing"
    /\ Len(exec[e].rows) = Tests
    /\ Release(e, TRUE)
    /\ \E v \in Verdicts(exec[e].rows) : Answer(e, v)

\* The breaker's timeout or the worker's death: the sandbox is not told and goes on.
GivesUp(w) ==
    /\ call[w] # Idle
    /\ exec' = [exec EXCEPT ![call[w]].by = NoCaller]
    /\ call' = [call EXCEPT ![w] = Idle]
    /\ UNCHANGED activeJobs

SandboxRestarts ==
    /\ activeJobs' = {}
    /\ exec' = [e \in Execution |->
                  IF Executing(e) THEN [exec[e] EXCEPT !.pc = "ended", !.by = NoCaller,
                              !.verdict = IF exec[e].by = NoCaller THEN "none" ELSE "failed"]
                  ELSE exec[e]]
    /\ call' = [w \in Caller |-> Idle]

SandboxNext ==
    \/ \E w \in Caller, e \in Execution : ExecuteRefused(w, e) \/ ExecuteBegins(w, e)
    \/ \E e \in Execution : ExecuteFails(e) \/ compileCode(e) \/ ExecuteEnds(e)
    \/ \E e \in Execution, said \in SUBSET Word : CompileRejects(e, said)
    \/ \E e \in Execution, r \in TestRow : runWithNsjail(e, r)
    \/ \E w \in Caller : GivesUp(w)
    \/ SandboxRestarts

SandboxSpec == SandboxInit /\ [][SandboxNext]_sandboxVars

-----------------------------------------------------------------------------
(* Properties                                                              *)

\* A call of the worker finds the sandbox full only behind executions that slots gave up
\* and the sandbox still runs: nothing else holds capacity, whatever failed or crashed.
RefusalMeansAbandoned ==
    (\E w \in Caller : call[w] = Idle) /\ Full =>
        \E e \in activeJobs : Executing(e) /\ exec[e].by = NoCaller

\* Whatever a program or a compiler prints and however much of it is cut off, a submission
\* is accepted exactly when all of its tests passed; and one that says none of the words
\* the classification looks for gets the gravest of what its runs came to.
Class(o) ==
    CASE o = "uncompiled"          -> "compilation_error"
      [] o = "stuck"               -> "time_limit_exceeded"
      [] o \in {"crashed", "slow"} -> "runtime_error"
      [] OTHER                     -> "wrong_answer"
VerdictFits ==
    \A e \in Execution : exec[e].verdict \notin {"none", "failed"} =>
        LET failed == {r \in {exec[e].rows[i] : i \in DOMAIN exec[e].rows} : r.outcome # "passed"}
        IN  /\ exec[e].verdict = "accepted" <=> failed = {}
            /\ failed # {} /\ (\A r \in failed : r.said = {}) =>
                  exec[e].verdict = Gravest({Class(r.outcome) : r \in failed})
=============================================================================
