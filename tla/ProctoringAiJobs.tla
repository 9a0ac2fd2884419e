---------------------------- MODULE ProctoringAiJobs ----------------------------
(***************************************************************************)
(* The table of proctoring AI jobs and the polls of the worker that run    *)
(* them, for one telemetry window and its summary: a prediction, for a     *)
(* high risk the explanation it asks for, and the generation of an LLM     *)
(* summary an administrator requests.  A job is claimed with a select and  *)
(* a conditional update; the timer starts polls that overlap.              *)
(*                                                                         *)
(* A result row is known by its window and the model's version, both as    *)
(* the AI server's answer names them: the row followed is that of this     *)
(* window under one version.  Rows an answer makes under another name are  *)
(* left out, and so are their explanation jobs.                            *)
(*                                                                         *)
(* The next run of a job and the age of a pending explanation are times,   *)
(* left out: a job that may run may be selected, whatever its priority.    *)
(***************************************************************************)
EXTENDS Naturals, FiniteSets

CONSTANTS
    Poll,        \* polls of one worker process that may overlap
    MaxAttempts, \* maxAttempts of every job
    Threshold,   \* failures in a row that open the circuit
    MaxRequests, \* bound on the summaries requested
    MaxCrashes   \* bound on crashes and on errors while a failure is recorded

ASSUME AiJobsAssumption ==
    /\ MaxAttempts \in Nat \ {0} /\ Threshold \in Nat \ {0}
    /\ MaxRequests \in Nat /\ MaxCrashes \in Nat

Job      == {"prediction", "explanation", "summary"}
Runnable == {"pending", "retry"}
Settled  == {"completed", "dead_letter"}
Row      == 1..MaxRequests

VARIABLES
    job,       \* rows of proctoring_ai_jobs, by job key
    result,    \* explanationStatus of the anomaly result, "absent" before the first
    missed,    \* history: the result does not show what its explanation job did last, as
               \* a later prediction has replaced it or the answer named another row
    row,       \* status of the LLM summary rows, by request
    jobRow,    \* llmSummaryId of the summary job's payload
    request,   \* the row a generate request inserted and has no job for yet
    halfway,   \* history: rows whose request ended before it had inserted the job
    poll,      \* the polls
    failures,  \* consecutiveFailures, no further than the threshold
    open,      \* circuitOpenUntil lies ahead
    abandoned, \* history: jobs left running by a poll that ended
    crashes

resultVars == <<result, missed>>
aiJobsVars == <<job, resultVars, row, jobRow, request, halfway, poll, failures, open,
                abandoned, crashes>>
summaryVars == <<row, jobRow, request, halfway>>
circuitVars == <<failures, open>>

NotPolling == [pc |-> "idle", job |-> "prediction", attempts |-> 0, reply |-> "none"]
Explained  == {"completed", "failed"} \* "skipped" counts as failed
Reply      == {"none", "low", "high", "elsewhere", "accepted", "validation_failed"}
                \cup Explained

AiJobsTypeOK ==
    /\ job \in [Job -> [status : Runnable \cup Settled \cup {"absent", "running"},
                        attempts : 0..MaxAttempts]]
    /\ result \in Explained \cup {"absent", "not_requested", "pending"}
    /\ missed \in BOOLEAN
    /\ row \in [Row -> {"absent", "pending", "accepted", "validation_failed",
                        "dead_letter"}]
    /\ jobRow \in 0..MaxRequests /\ request \in 0..MaxRequests
    /\ halfway \subseteq Row
    /\ poll \in [Poll -> [pc : {"idle", "claim", "run", "persist", "enqueue", "complete",
                                "failing", "mark", "bury"},
                          job : Job, attempts : 0..MaxAttempts, reply : Reply]]
    /\ failures \in 0..Threshold /\ open \in BOOLEAN
    /\ abandoned \subseteq Job /\ crashes \in 0..MaxCrashes

AiJobsInit ==
    /\ job = [j \in Job |-> [status |-> "absent", attempts |-> 0]]
    /\ result = "absent" /\ missed = FALSE
    /\ row = [r \in Row |-> "absent"] /\ jobRow = 0 /\ request = 0 /\ halfway = {}
    /\ poll = [p \in Poll |-> NotPolling]
    /\ failures = 0 /\ open = FALSE
    /\ abandoned = {} /\ crashes = 0

--------------------------------------------------------------------------------
(* What puts jobs in the table.                                                *)

\* A job whose key is taken keeps its status and its attempts.
upsertByJobKey(j) ==
    job' = IF job[j].status # "absent" THEN job
           ELSE [job EXCEPT ![j] = [status |-> "pending", attempts |-> 0]]

enqueueTelemetryWindow ==
    /\ job["prediction"].status = "absent"
    /\ upsertByJobKey("prediction")
    /\ UNCHANGED <<resultVars, summaryVars, poll, circuitVars, abandoned, crashes>>

\* One pending or accepted row per input: a request that meets one returns it.
insertOrFindActive(r) ==
    /\ request = 0 /\ row[r] = "absent" /\ \A q \in 1..(r - 1) : row[q] # "absent"
    /\ \A q \in Row : row[q] \notin {"pending", "accepted"}
    /\ row' = [row EXCEPT ![r] = "pending"]
    /\ request' = r
    /\ UNCHANGED <<job, resultVars, jobRow, halfway, poll, circuitVars, abandoned, crashes>>

\* The job key is that of the input: the insert fails when an earlier row's job has it.
insertSummaryJob ==
    /\ request # 0
    /\ request' = 0
    /\ IF job["summary"].status = "absent"
       THEN /\ upsertByJobKey("summary")
            /\ jobRow' = request
            /\ UNCHANGED halfway
       ELSE halfway' = halfway \cup {request} /\ UNCHANGED <<job, jobRow>>
    /\ UNCHANGED <<resultVars, row, poll, circuitVars, abandoned, crashes>>

RequestEnds ==
    /\ request # 0 /\ crashes < MaxCrashes
    /\ crashes' = crashes + 1
    /\ halfway' = halfway \cup {request}
    /\ request' = 0
    /\ UNCHANGED <<job, resultVars, row, jobRow, poll, circuitVars, abandoned>>

--------------------------------------------------------------------------------
(* processNext.                                                                *)

At(p, pc) == poll[p].pc = pc
Goes(p, pc) == poll' = [poll EXCEPT ![p].pc = pc]
Mine(p) == poll[p].job

\* Mutant: only pending jobs are looked for.
SelectPending(p, j) ==
    /\ At(p, "idle") /\ ~open
    /\ job[j].status = "pending"
    /\ poll' = [poll EXCEPT ![p] = [pc |-> "claim", job |-> j, attempts |-> job[j].attempts,
                                    reply |-> "none"]]
    /\ UNCHANGED <<job, resultVars, summaryVars, circuitVars, abandoned, crashes>>

\* claimNext's select.  An open circuit lets no poll begin.
SelectCandidate(p, j) ==
    /\ At(p, "idle") /\ ~open
    /\ job[j].status \in Runnable
    /\ poll' = [poll EXCEPT ![p] = [pc |-> "claim", job |-> j, attempts |-> job[j].attempts,
                                    reply |-> "none"]]
    /\ UNCHANGED <<job, resultVars, summaryVars, circuitVars, abandoned, crashes>>

\* Mutant: the update does not look at the status again.
claimAnyway(p) ==
    /\ At(p, "claim")
    /\ LET n == poll[p].attempts + 1 IN
       /\ job' = [job EXCEPT ![Mine(p)] = [status |-> "running", attempts |-> n]]
       /\ poll' = [poll EXCEPT ![p].pc = "run", ![p].attempts = n]
    /\ UNCHANGED <<resultVars, summaryVars, circuitVars, abandoned, crashes>>

\* Its update: on the status of now, with the attempts of the select.
claimNext(p) ==
    /\ At(p, "claim")
    /\ IF job[Mine(p)].status \in Runnable
       THEN LET n == poll[p].attempts + 1 IN
            /\ job' = [job EXCEPT ![Mine(p)] = [status |-> "running", attempts |-> n]]
            /\ poll' = [poll EXCEPT ![p].pc = "run", ![p].attempts = n]
       ELSE poll' = [poll EXCEPT ![p] = NotPolling] /\ UNCHANGED job
    /\ UNCHANGED <<resultVars, summaryVars, circuitVars, abandoned, crashes>>

\* What the AI server may answer: a risk, the explanation included or not; the
\* explanation; the summary.  The first two may name another window or version.
Replies(j) ==
    CASE j = "prediction"  -> {"low", "high", "completed", "elsewhere"}
      [] j = "explanation" -> Explained \cup {"elsewhere"}
      [] j = "summary"     -> {"accepted", "validation_failed"}

Answered(p, reply) ==
    /\ At(p, "run")
    /\ poll' = [poll EXCEPT ![p].pc = "persist", ![p].reply = reply]
    /\ UNCHANGED <<job, resultVars, summaryVars, circuitVars, abandoned, crashes>>

explanationStatus(reply) ==
    CASE reply = "low"  -> "not_requested"
      [] reply = "high" -> "pending"
      [] OTHER          -> reply

persistPrediction(reply) ==
    IF reply = "elsewhere" THEN UNCHANGED resultVars
    ELSE result' = explanationStatus(reply) /\ missed' = (result # "absent")

\* An update: an answer for another row changes at most that one, and the job is completed.
persistExplanation(reply) ==
    /\ result' = IF reply = "elsewhere" THEN result ELSE reply
    /\ missed' = (reply = "elsewhere")

persistSummary(reply) == row' = [row EXCEPT ![jobRow] = reply]

\* Mutant: the job is completed before the summary row is.
CompleteFirst(p) ==
    /\ At(p, "persist")
    /\ CASE Mine(p) = "prediction" ->
              persistPrediction(poll[p].reply) /\ Goes(p, "enqueue") /\ UNCHANGED <<job, row>>
         [] Mine(p) = "explanation" ->
              persistExplanation(poll[p].reply) /\ Goes(p, "complete") /\ UNCHANGED <<job, row>>
         [] Mine(p) = "summary" ->
              /\ IF job["summary"].status = "completed"
                 THEN persistSummary(poll[p].reply) /\ Goes(p, "complete") /\ UNCHANGED job
                 ELSE job' = [job EXCEPT !["summary"].status = "completed"]
                      /\ UNCHANGED <<poll, row>>
              /\ UNCHANGED resultVars
    /\ UNCHANGED <<jobRow, request, halfway, circuitVars, abandoned, crashes>>

Persist(p) ==
    /\ At(p, "persist")
    /\ CASE Mine(p) = "prediction" ->
              persistPrediction(poll[p].reply) /\ Goes(p, "enqueue") /\ UNCHANGED row
         [] Mine(p) = "explanation" ->
              persistExplanation(poll[p].reply) /\ Goes(p, "complete") /\ UNCHANGED row
         [] Mine(p) = "summary" ->
              persistSummary(poll[p].reply) /\ Goes(p, "complete") /\ UNCHANGED resultVars
    /\ UNCHANGED <<job, jobRow, request, halfway, circuitVars, abandoned, crashes>>

enqueueExplanationIfNeeded(p) ==
    /\ At(p, "enqueue")
    /\ IF poll[p].reply = "high" THEN upsertByJobKey("explanation") ELSE UNCHANGED job
    /\ Goes(p, "complete")
    /\ UNCHANGED <<resultVars, summaryVars, circuitVars, abandoned, crashes>>

updateStatus(p, status) ==
    /\ job' = [job EXCEPT ![Mine(p)].status = status]
    /\ poll' = [poll EXCEPT ![p] = NotPolling]

Complete(p) ==
    /\ At(p, "complete")
    /\ updateStatus(p, "completed")
    /\ failures' = 0 /\ open' = FALSE
    /\ UNCHANGED <<resultVars, summaryVars, abandoned, crashes>>

\* Mutant: a job is given one attempt too many.
FailLate(p) ==
    /\ poll[p].pc \in {"run", "persist", "enqueue", "complete"}
    /\ failures' = IF failures < Threshold THEN failures + 1 ELSE failures
    /\ open' = (open \/ failures' = Threshold)
    /\ Goes(p, CASE poll[p].attempts <= MaxAttempts -> "failing"
                 [] Mine(p) = "prediction"         -> "bury"
                 [] OTHER                          -> "mark")
    /\ UNCHANGED <<job, resultVars, summaryVars, abandoned, crashes>>

\* Mutant: no failure is marked on the result or on the summary row.
FailSilently(p) ==
    /\ poll[p].pc \in {"run", "persist", "enqueue", "complete"}
    /\ failures' = IF failures < Threshold THEN failures + 1 ELSE failures
    /\ open' = (open \/ failures' = Threshold)
    /\ Goes(p, IF poll[p].attempts < MaxAttempts THEN "failing" ELSE "bury")
    /\ UNCHANGED <<job, resultVars, summaryVars, abandoned, crashes>>

\* The call or a write after it fails; handleFailure counts that in the circuit.
Fail(p) ==
    /\ poll[p].pc \in {"run", "persist", "enqueue", "complete"}
    /\ failures' = IF failures < Threshold THEN failures + 1 ELSE failures
    /\ open' = (open \/ failures' = Threshold)
    /\ Goes(p, CASE poll[p].attempts < MaxAttempts -> "failing"
                 [] Mine(p) = "prediction"        -> "bury"
                 [] OTHER                         -> "mark")
    /\ UNCHANGED <<job, resultVars, summaryVars, abandoned, crashes>>

handleFailure(p) ==
    /\ \/ At(p, "failing") /\ updateStatus(p, "retry")
       \/ At(p, "bury") /\ updateStatus(p, "dead_letter")
    /\ UNCHANGED <<resultVars, summaryVars, circuitVars, abandoned, crashes>>

\* markExplanationFailed, by the window and version of the payload, which an explanation
\* job never lacks; markSummaryFailed.
MarkFailed(p) ==
    /\ At(p, "mark")
    /\ IF Mine(p) = "explanation"
       THEN result' = "failed" /\ missed' = FALSE /\ UNCHANGED row
       ELSE row' = [row EXCEPT ![jobRow] = "dead_letter"] /\ UNCHANGED resultVars
    /\ Goes(p, "bury")
    /\ UNCHANGED <<job, jobRow, request, halfway, circuitVars, abandoned, crashes>>

\* An error while the failure is recorded only ends the poll.
RecordingFails(p) ==
    /\ poll[p].pc \in {"failing", "mark", "bury"} /\ crashes < MaxCrashes
    /\ crashes' = crashes + 1
    /\ abandoned' = abandoned \cup {Mine(p)}
    /\ poll' = [poll EXCEPT ![p] = NotPolling]
    /\ UNCHANGED <<job, resultVars, summaryVars, circuitVars>>

\* Nothing takes a job out of "running" when the worker starts again.
Crash ==
    /\ crashes < MaxCrashes
    /\ crashes' = crashes + 1
    /\ abandoned' = abandoned \cup {j \in Job : job[j].status = "running"}
    /\ poll' = [p \in Poll |-> NotPolling]
    /\ failures' = 0 /\ open' = FALSE
    /\ UNCHANGED <<job, resultVars, summaryVars>>

\* circuitOpenUntil has passed; the failures stay counted.
CircuitCloses ==
    /\ open /\ open' = FALSE
    /\ UNCHANGED <<job, resultVars, summaryVars, poll, failures, abandoned, crashes>>

\* Mutant: only explanations whose job is still under way are looked at.
resolveUnfinished ==
    /\ ~open /\ job["explanation"].status \notin Settled
    /\ result = "pending" /\ result' = "failed"
    /\ UNCHANGED <<job, missed, summaryVars, poll, circuitVars, abandoned, crashes>>

\* Every twelfth poll that the circuit lets begin, of an explanation pending for an hour.
resolveStaleExplanations ==
    /\ ~open
    /\ result = "pending" /\ result' = "failed"
    /\ UNCHANGED <<job, missed, summaryVars, poll, circuitVars, abandoned, crashes>>

Polls(p) ==
    \/ (\E j \in Job : SelectCandidate(p, j)) \/ claimNext(p)
    \/ (\E reply \in Replies(Mine(p)) : Answered(p, reply))
    \/ Persist(p) \/ enqueueExplanationIfNeeded(p) \/ Complete(p)
    \/ Fail(p) \/ handleFailure(p) \/ MarkFailed(p)

AiJobsNext ==
    \/ enqueueTelemetryWindow \/ (\E r \in Row : insertOrFindActive(r)) \/ insertSummaryJob
    \/ RequestEnds \/ (\E p \in Poll : Polls(p) \/ RecordingFails(p))
    \/ Crash \/ CircuitCloses \/ resolveStaleExplanations

AiJobsSpec == AiJobsInit /\ [][AiJobsNext]_aiJobsVars

--------------------------------------------------------------------------------
(* Although a claim is a select and a later update, and a retry puts a job back while  *)
(* another poll still holds it as its candidate, no two polls ever run the same job.   *)
Running(p) == poll[p].pc \notin {"idle", "claim"}
JobHasOneRunner ==
    \A p, q \in Poll : Running(p) /\ Running(q) /\ Mine(p) = Mine(q) => p = q

(* A settled explanation job has left its mark on the anomaly result reviewers see, in *)
(* whatever order polls ended and crashed.  There are two exceptions: a prediction that *)
(* ran again after an error has replaced the result since, or the last answer of the   *)
(* server named another row; the explanation job, settled, does not run again.         *)
ExplanationIsTold ==
    job["explanation"].status \in Settled => result \in Explained \/ missed

(* A summary row that is still pending has a job that is going to settle it: only a    *)
(* request that stopped between its two inserts leaves one without, and a second       *)
(* request for the same input always stops there, on the job key the first one took.   *)
PendingSummaryHasJob ==
    \A r \in Row : row[r] = "pending" =>
        \/ request = r \/ r \in halfway
        \/ jobRow = r /\ job["summary"].status \notin Settled \cup {"absent"}

(* No explanation is pending for ever, those exceptions included: however predictions  *)
(* run again, jobs fail, crash or are answered for another row, and circuits open, the *)
(* sweep of stale explanations gets to it after the last of them.                      *)
ExplanationsEnd == <>[](result # "pending")

(* Whatever fails, as long as no poll is cut off in the middle every job is settled,   *)
(* although a claim may write the attempts of an old select over later ones.           *)
JobsSettle ==
    <>[](\A j \in Job : job[j].status \in Settled \cup {"absent"} \/ j \in abandoned)
=============================================================================
