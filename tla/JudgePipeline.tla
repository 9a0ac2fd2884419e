---------------------------- MODULE JudgePipeline ----------------------------
(***************************************************************************)
(* The path of a submission through the judge: the API request that        *)
(* inserts the row and enqueues the job, the BullMQ queue, the workers     *)
(* that run jobs (and may run one twice after a stall), the handler of     *)
(* exhausted jobs, the watchdog that requeues orphans and the SSE stream.  *)
(*                                                                         *)
(* finalizeSubmissionResult is one step here; FinalizeTx models its        *)
(* transaction statement by statement.                                     *)
(***************************************************************************)
EXTENDS Naturals, FiniteSets

CONSTANTS
    Submission,       \* ids of submissions and of run-code jobs
    Key,              \* (user, problem) pairs
    KeyOf,            \* the pair of a submission
    Exam,             \* submissions made inside an exam participation
    RunOnly,          \* ids of RUN_CODE jobs, which have no row
    Worker,           \* slots of the BullMQ worker processes
    Nobody, Nothing,  \* no worker, no submission
    MaxAttempts,      \* job option "attempts" (3)
    MaxStalls,        \* BullMQ's maxStalledCount (1)
    MaxBacklog,       \* JUDGE_QUEUE_MAX_BACKLOG
    MaxFaults,        \* bound on injected faults
    AmbiguousEnqueue, \* addJob may report an error for a job it stored
    LongRequest       \* a submit request may outlive WATCHDOG_THRESHOLD_MS

ASSUME PipelineAssumption ==
    /\ KeyOf \in [Submission -> Key]
    /\ Exam \subseteq Submission
    /\ RunOnly \subseteq Submission \ Exam
    /\ Nobody \notin Worker /\ Nothing \notin Submission
    /\ MaxAttempts \in Nat \ {0}
    /\ MaxStalls \in Nat
    /\ MaxBacklog \in Nat \ {0}
    /\ MaxFaults \in Nat
    /\ AmbiguousEnqueue \in BOOLEAN
    /\ LongRequest \in BOOLEAN

Verdict == {"accepted", "rejected", "system_error"}
Status == {"absent", "pending"} \cup Verdict

VARIABLES
    row,      \* submissions.status
    results,  \* which verdict the rows of result_submissions belong to
    awards,   \* times the points of a pair were added to users.rankingPoint
    api,      \* progress of the submit or run-code request
    job,      \* the BullMQ job with that id
    run,      \* what each worker slot is executing
    handler,  \* progress of the worker's 'failed' handler for an exhausted job
    stream,   \* the client's SSE stream, or the terminal status that closed it
    watch,    \* the watchdog pass in progress
    faults    \* faults injected so far

dbVars == <<row, results, awards>>
vars == <<row, results, awards, api, job, run, handler, stream, watch, faults>>

NoJob == [st |-> "none", made |-> 0, stalls |-> 0, lock |-> Nobody]
FreshJob == [NoJob EXCEPT !.st = "waiting"]
Idle == [pc |-> "idle", sub |-> Nothing, out |-> "system_error"]
Resting == [pc |-> "idle", todo |-> {}, sub |-> Nothing]

JobType == [st : {"none", "waiting", "active", "failed"}, made : 0..MaxAttempts,
            stalls : Nat, lock : Worker \cup {Nobody}]
RunType == [pc : {"idle", "picked", "judged", "finalized", "published"},
            sub : Submission \cup {Nothing}, out : Verdict]
WatchType == [pc : {"idle", "scan", "missing", "adding"}, todo : SUBSET Submission,
              sub : Submission \cup {Nothing}]

TypeOK ==
    /\ row \in [Submission -> Status]
    /\ results \in [Submission -> {"none", "accepted", "rejected"}]
    /\ awards \in [Key -> Nat]
    /\ api \in [Submission -> {"idle", "admitted", "inserted", "failing", "ended"}]
    /\ job \in [Submission -> JobType]
    /\ run \in [Worker -> RunType]
    /\ handler \in [Worker -> [Submission -> {"none", "finalize", "publish"}]]
    /\ stream \in [Submission -> {"none", "open"} \cup Verdict]
    /\ watch \in WatchType
    /\ faults \in 0..MaxFaults

Init ==
    /\ row = [s \in Submission |-> "absent"]
    /\ results = [s \in Submission |-> "none"]
    /\ awards = [k \in Key |-> 0]
    /\ api = [s \in Submission |-> "idle"]
    /\ job = [s \in Submission |-> NoJob]
    /\ run = [w \in Worker |-> Idle]
    /\ handler = [w \in Worker |-> [s \in Submission |-> "none"]]
    /\ stream = [s \in Submission |-> "none"]
    /\ watch = Resting
    /\ faults = 0

Fault == faults < MaxFaults /\ faults' = faults + 1

-----------------------------------------------------------------------------
(* finalizeSubmissionResult                                                *)

Solved(k) == \E t \in Submission \ Exam : KeyOf[t] = k /\ row[t] = "accepted"

Earns(s, v) == v = "accepted" /\ s \notin Exam /\ ~Solved(KeyOf[s])

\* Mutant: the update has no condition on the current status.
FinalizeAnyRow(s, v) ==
    /\ row' = [row EXCEPT ![s] = v]
    /\ awards' = IF Earns(s, v) THEN [awards EXCEPT ![KeyOf[s]] = @ + 1] ELSE awards
    /\ results' = [results EXCEPT ![s] = IF v = "system_error" THEN "none" ELSE v]

\* Mutant: the result rows are replaced before the update is known to have matched.
FinalizeResultsFirst(s, v) ==
    /\ results' = [results EXCEPT ![s] = IF v = "system_error" THEN "none" ELSE v]
    /\ IF row[s] = "pending"
       THEN /\ row' = [row EXCEPT ![s] = v]
            /\ awards' = IF Earns(s, v) THEN [awards EXCEPT ![KeyOf[s]] = @ + 1] ELSE awards
       ELSE UNCHANGED <<row, awards>>

\* The guarded update: only a pending row takes the verdict, its points and its
\* result rows; otherwise the transaction returns null and changes nothing.
Finalize(s, v) ==
    IF row[s] = "pending"
    THEN /\ row' = [row EXCEPT ![s] = v]
         /\ awards' = IF Earns(s, v) THEN [awards EXCEPT ![KeyOf[s]] = @ + 1] ELSE awards
         /\ results' = [results EXCEPT ![s] = IF v = "system_error" THEN "none" ELSE v]
    ELSE UNCHANGED dbVars

-----------------------------------------------------------------------------
(* The submit request                                                      *)

Backlog == Cardinality({s \in Submission : job[s].st = "waiting"})

\* queue.add with an explicit jobId: an existing job of any state is kept.
Enqueued(s) == [job EXCEPT ![s] = IF @.st = "none" THEN FreshJob ELSE @]

\* ensureQueueCanAcceptJob; a queue that cannot be counted counts as empty.
SubmitAdmit(s) ==
    /\ api[s] = "idle"
    /\ \/ Backlog < MaxBacklog /\ UNCHANGED faults
       \/ Fault
    /\ api' = [api EXCEPT ![s] = IF s \in RunOnly THEN "inserted" ELSE "admitted"]
    /\ UNCHANGED <<dbVars, job, run, handler, stream, watch>>

SubmitRefuse(s) ==
    /\ api[s] = "idle"
    /\ Backlog >= MaxBacklog
    /\ api' = [api EXCEPT ![s] = "ended"]
    /\ UNCHANGED <<dbVars, job, run, handler, stream, watch, faults>>

SubmitInsert(s) ==
    /\ api[s] = "admitted"
    /\ row' = [row EXCEPT ![s] = "pending"]
    /\ api' = [api EXCEPT ![s] = "inserted"]
    /\ UNCHANGED <<results, awards, job, run, handler, stream, watch, faults>>

\* prepareQueueJob rejects the problem's signature: the row stays, no job is added.
SubmitPrepareFails(s) ==
    /\ api[s] = "inserted"
    /\ Fault
    /\ api' = [api EXCEPT ![s] = "ended"]
    /\ UNCHANGED <<dbVars, job, run, handler, stream, watch>>

SubmitEnqueue(s) ==
    /\ api[s] = "inserted"
    /\ job' = Enqueued(s)
    /\ api' = [api EXCEPT ![s] = "ended"]
    /\ UNCHANGED <<dbVars, run, handler, stream, watch, faults>>

\* addJob throws: the job was not stored or, if ambiguous, it was.
SubmitEnqueueFails(s) ==
    /\ api[s] = "inserted"
    /\ Fault
    /\ \/ UNCHANGED job
       \/ AmbiguousEnqueue /\ job' = Enqueued(s)
    /\ api' = [api EXCEPT ![s] = IF s \in RunOnly THEN "ended" ELSE "failing"]
    /\ UNCHANGED <<dbVars, run, handler, stream, watch>>

\* submissionRepository.updateStatus has no condition on the current status.
SubmitMarkError(s) ==
    /\ api[s] = "failing"
    /\ row' = [row EXCEPT ![s] = "system_error"]
    /\ api' = [api EXCEPT ![s] = "ended"]
    /\ UNCHANGED <<results, awards, job, run, handler, stream, watch, faults>>

\* The update may fail as well, which is part of the fault that brought us here.
SubmitMarkErrorFails(s) ==
    /\ api[s] = "failing"
    /\ api' = [api EXCEPT ![s] = "ended"]
    /\ UNCHANGED <<dbVars, job, run, handler, stream, watch, faults>>

\* The client opens the stream once it has the id; no snapshot is sent.
Subscribe(s) ==
    /\ api[s] = "ended"
    /\ stream[s] = "none"
    /\ stream' = [stream EXCEPT ![s] = "open"]
    /\ UNCHANGED <<dbVars, api, job, run, handler, watch, faults>>

SubmitStep(s) ==
    \/ SubmitAdmit(s) \/ SubmitRefuse(s) \/ SubmitInsert(s) \/ SubmitEnqueue(s)
    \/ SubmitPrepareFails(s) \/ SubmitEnqueueFails(s)
    \/ SubmitMarkError(s) \/ SubmitMarkErrorFails(s)
    \/ Subscribe(s)

-----------------------------------------------------------------------------
(* BullMQ and the worker                                                   *)

\* The outcome of a failed attempt: where the job goes, who hears of it.
Attempt(s, w, made, st, told) ==
    /\ job' = [job EXCEPT ![s].made = made, ![s].lock = Nobody, ![s].st = st]
    /\ handler' = IF told
                  THEN [handler EXCEPT ![w][s] = IF s \in RunOnly THEN "publish" ELSE "finalize"]
                  ELSE handler

\* Mutant: the handler waits for one attempt more.
LateHandler(s, w, final) ==
    LET made == job[s].made + 1
        over == final \/ made >= MaxAttempts
    IN  Attempt(s, w, made, IF over THEN "failed" ELSE "waiting", over /\ made > MaxAttempts)

\* The bookkeeping of a failed attempt; "waiting" includes the backoff delay.
FailedAttempt(s, w, final) ==
    LET made == job[s].made + 1
        over == final \/ made >= MaxAttempts
    IN  Attempt(s, w, made, IF over THEN "failed" ELSE "waiting", over /\ made >= MaxAttempts)

Pick(w, s) ==
    /\ run[w].pc = "idle"
    /\ job[s].st = "waiting"
    /\ job[s].stalls <= MaxStalls
    /\ job' = [job EXCEPT ![s].st = "active", ![s].lock = w]
    /\ run' = [run EXCEPT ![w] = [Idle EXCEPT !.pc = "picked", !.sub = s]]
    /\ UNCHANGED <<dbVars, api, handler, stream, watch, faults>>

\* A job that stalled too often is failed without a retry when it is picked.
PickDoomed(w, s) ==
    /\ run[w].pc = "idle"
    /\ job[s].st = "waiting"
    /\ job[s].stalls > MaxStalls
    /\ FailedAttempt(s, w, TRUE)
    /\ UNCHANGED <<dbVars, api, run, stream, watch, faults>>

\* The sandbox answers; two runs of the same code may be judged differently.
RunSandbox(w) ==
    /\ run[w].pc = "picked"
    /\ \E v \in {"accepted", "rejected"} :
           run' = [run EXCEPT ![w].pc = "judged", ![w].out = v]
    /\ UNCHANGED <<dbVars, api, job, handler, stream, watch, faults>>

FinalizeRun(w) ==
    /\ run[w].pc = "judged"
    /\ IF run[w].sub \in RunOnly THEN UNCHANGED dbVars
                                 ELSE Finalize(run[w].sub, run[w].out)
    /\ run' = [run EXCEPT ![w].pc = "finalized"]
    /\ UNCHANGED <<api, job, handler, stream, watch, faults>>

\* The stream closes on the first terminal event; publish swallows its errors.
Publish(s, v) ==
    \/ /\ stream' = [stream EXCEPT ![s] = IF @ = "open" THEN v ELSE @]
       /\ UNCHANGED faults
    \/ Fault /\ UNCHANGED stream

\* Mutant: the verdict is published before it is on record.
PublishEarly(w) ==
    /\ run[w].pc \in {"judged", "finalized"}
    /\ Publish(run[w].sub, run[w].out)
    /\ run' = IF run[w].pc = "judged" THEN run ELSE [run EXCEPT ![w].pc = "published"]
    /\ UNCHANGED <<dbVars, api, job, handler, watch>>

PublishRun(w) ==
    /\ run[w].pc = "finalized"
    /\ Publish(run[w].sub, run[w].out)
    /\ run' = [run EXCEPT ![w].pc = "published"]
    /\ UNCHANGED <<dbVars, api, job, handler, watch>>

\* The processor returns: the lock holder removes the job (removeOnComplete).
CompleteRun(w) ==
    /\ run[w].pc = "published"
    /\ job' = IF job[run[w].sub].lock = w THEN [job EXCEPT ![run[w].sub] = NoJob] ELSE job
    /\ run' = [run EXCEPT ![w] = Idle]
    /\ UNCHANGED <<dbVars, api, handler, stream, watch, faults>>

\* The processor throws: the sandbox is down or the transaction failed.  A run
\* that lost its lock fails silently.
RunFails(w) ==
    /\ run[w].pc \in {"picked", "judged"}
    /\ IF job[run[w].sub].lock = w
       THEN FailedAttempt(run[w].sub, w, FALSE)
       ELSE UNCHANGED <<job, handler>>
    /\ run' = [run EXCEPT ![w] = Idle]
    /\ UNCHANGED <<dbVars, api, stream, watch, faults>>

\* The lock of an active job expires, because its holder died or, as a fault,
\* while the holder is still running it.
Stall(s) ==
    /\ job[s].st = "active"
    /\ \/ run[job[s].lock].sub # s /\ UNCHANGED faults
       \/ run[job[s].lock].sub = s /\ Fault
    /\ job' = [job EXCEPT ![s].st = "waiting", ![s].lock = Nobody, ![s].stalls = @ + 1]
    /\ UNCHANGED <<dbVars, api, run, handler, stream, watch>>

\* removeOnFail: a failed job is dropped by age or count, long after its handler.
EvictFailed(s) ==
    /\ job[s].st = "failed"
    /\ \A w \in Worker : handler[w][s] = "none"
    /\ job' = [job EXCEPT ![s] = NoJob]
    /\ UNCHANGED <<dbVars, api, run, handler, stream, watch, faults>>

\* Mutant: the verdict of an exhausted job is recorded and nobody is told.
HandleSilently(w, s) ==
    /\ handler[w][s] = "finalize"
    /\ Finalize(s, "system_error")
    /\ handler' = [handler EXCEPT ![w][s] = "none"]
    /\ UNCHANGED <<api, job, run, stream, watch, faults>>

HandleExhausted(w, s) ==
    /\ handler[w][s] = "finalize"
    /\ Finalize(s, "system_error")
    /\ handler' = [handler EXCEPT ![w][s] = "publish"]
    /\ UNCHANGED <<api, job, run, stream, watch, faults>>

HandlerPublish(w, s) ==
    /\ handler[w][s] = "publish"
    /\ Publish(s, "system_error")
    /\ handler' = [handler EXCEPT ![w][s] = "none"]
    /\ UNCHANGED <<dbVars, api, job, run, watch>>

\* The handler's transaction fails; the error is logged and nothing else happens.
HandlerFails(w, s) ==
    /\ handler[w][s] = "finalize"
    /\ Fault
    /\ handler' = [handler EXCEPT ![w][s] = "none"]
    /\ UNCHANGED <<dbVars, api, job, run, stream, watch>>

Crash(w) ==
    /\ Fault
    /\ run' = [run EXCEPT ![w] = Idle]
    /\ handler' = [handler EXCEPT ![w] = [s \in Submission |-> "none"]]
    /\ UNCHANGED <<dbVars, api, job, stream, watch>>

WorkerStep(w) ==
    \/ \E s \in Submission : Pick(w, s) \/ PickDoomed(w, s)
    \/ RunSandbox(w) \/ FinalizeRun(w) \/ PublishRun(w) \/ CompleteRun(w) \/ RunFails(w)
    \/ \E s \in Submission : HandleExhausted(w, s) \/ HandlerPublish(w, s) \/ HandlerFails(w, s)

-----------------------------------------------------------------------------
(* The watchdog                                                            *)

\* Rows older than the threshold; their request has ended unless LongRequest.
Orphans == {s \in Submission : row[s] = "pending" /\ (LongRequest \/ api[s] = "ended")}

WatchdogTick ==
    /\ watch.pc = "idle"
    /\ Orphans # {}
    /\ watch' = [pc |-> "scan", todo |-> Orphans, sub |-> Nothing]
    /\ UNCHANGED <<dbVars, api, job, run, handler, stream, faults>>

\* getJobById: a job of any state makes the watchdog skip the row; a lookup that
\* fails reports no job.
WatchdogLookup(s) ==
    /\ watch.pc = "scan"
    /\ s \in watch.todo
    /\ \/ /\ job[s].st # "none"
          /\ watch' = [watch EXCEPT !.todo = @ \ {s}]
          /\ UNCHANGED faults
       \/ /\ IF job[s].st = "none" THEN UNCHANGED faults ELSE Fault
          /\ watch' = [pc |-> "missing", todo |-> watch.todo \ {s}, sub |-> s]
    /\ UNCHANGED <<dbVars, api, job, run, handler, stream>>

\* requeuePendingSubmission reloads the row and counts the queue: it returns or
\* throws unless the row is pending and the queue has room (or cannot be counted).
WatchdogReload ==
    /\ watch.pc = "missing"
    /\ \/ /\ row[watch.sub] = "pending"
          /\ IF Backlog < MaxBacklog THEN UNCHANGED faults ELSE Fault
          /\ watch' = [watch EXCEPT !.pc = "adding"]
       \/ /\ IF row[watch.sub] # "pending" \/ Backlog >= MaxBacklog THEN UNCHANGED faults ELSE Fault
          /\ watch' = [watch EXCEPT !.pc = "scan"]
    /\ UNCHANGED <<dbVars, api, job, run, handler, stream>>

WatchdogAdd ==
    /\ watch.pc = "adding"
    /\ \/ job' = Enqueued(watch.sub) /\ UNCHANGED faults
       \/ UNCHANGED job /\ Fault
    /\ watch' = [watch EXCEPT !.pc = "scan"]
    /\ UNCHANGED <<dbVars, api, run, handler, stream>>

\* Mutant: the flag isWatchdogRunning survives a pass that found an orphan.
WatchdogStaysBusy ==
    /\ watch.pc = "scan"
    /\ watch.todo = {}
    /\ watch.sub = Nothing
    /\ watch' = Resting
    /\ UNCHANGED <<dbVars, api, job, run, handler, stream, faults>>

WatchdogDone ==
    /\ watch.pc = "scan"
    /\ watch.todo = {}
    /\ watch' = Resting
    /\ UNCHANGED <<dbVars, api, job, run, handler, stream, faults>>

WatchdogStep ==
    \/ WatchdogTick \/ WatchdogReload \/ WatchdogAdd \/ WatchdogDone
    \/ \E s \in Submission : WatchdogLookup(s)

\* The API process dies: open requests and the watchdog pass are lost.
ApiCrash ==
    /\ Fault
    /\ api' = [s \in Submission |-> IF api[s] = "idle" THEN "idle" ELSE "ended"]
    /\ watch' = Resting
    /\ UNCHANGED <<dbVars, job, run, handler, stream>>

-----------------------------------------------------------------------------
Next ==
    \/ \E s \in Submission : SubmitStep(s) \/ Stall(s) \/ EvictFailed(s)
    \/ \E w \in Worker : WorkerStep(w) \/ Crash(w)
    \/ WatchdogStep
    \/ ApiCrash

Spec == Init /\ [][Next]_vars

\* A request ends, a worker slot and the 'failed' handler go on, an expired lock is
\* noticed and the watchdog keeps its schedule.  Nothing obliges a client to submit,
\* a fault to happen or a failed job to be evicted.
RequestEnds(s) ==
    \/ SubmitInsert(s) \/ SubmitEnqueue(s) \/ SubmitEnqueueFails(s)
    \/ SubmitMarkError(s) \/ SubmitMarkErrorFails(s)

RunProgress(w) ==
    RunSandbox(w) \/ FinalizeRun(w) \/ PublishRun(w) \/ CompleteRun(w) \/ RunFails(w)

Fairness ==
    /\ \A s \in Submission : WF_vars(RequestEnds(s)) /\ WF_vars(Stall(s))
    /\ \A w \in Worker :
          /\ WF_vars(RunProgress(w))
          /\ \A s \in Submission :
                /\ SF_vars(Pick(w, s) \/ PickDoomed(w, s))
                /\ WF_vars(HandleExhausted(w, s) \/ HandlerPublish(w, s))
    /\ WF_vars(WatchdogStep)

FairSpec == Spec /\ Fairness

-----------------------------------------------------------------------------
(* Properties                                                              *)

\* Whatever the retries, stalls, crashes and requeues, the submissions table and
\* the ranking change only as the ledger lets them: one verdict per submission,
\* points with the first accepted one.
Ledger == INSTANCE SubmissionLedger WITH verdict <- row
ImplementsLedger == Ledger!Spec

\* The testcase rows a reader sees belong to the verdict the row carries, though
\* two runs of one job may have produced different results.
ResultsMatchVerdict ==
    \A s \in Submission :
        results[s] = IF row[s] \in {"accepted", "rejected"} THEN row[s] ELSE "none"

\* A job is removed from under a worker only when its verdict is on record:
\* completing a job never loses a submission.
LeavesQueueJudged ==
    [][\A s \in Submission \ RunOnly :
          job[s].st = "active" /\ job'[s].st = "none" => row[s] \in Verdict]_vars

\* Even when enqueue errors are ambiguous, a verdict on record is replaced only by the
\* error path of the submit request, and only with system_error.
VerdictFallsOnlyToError ==
    [][\A s \in Submission :
          row[s] \in Verdict /\ row'[s] # row[s] =>
              row'[s] = "system_error" /\ api[s] = "failing"]_vars

\* A job kept in the failed set belongs to a judged submission or to one whose
\* 'failed' handler is about to judge it: attempts and attemptsMade agree.
FailedJobIsJudged ==
    \A s \in Submission \ RunOnly :
        job[s].st = "failed" /\ row[s] = "pending" => \E w \in Worker : handler[w][s] = "finalize"

\* The terminal status that closes a client's stream is the one on record.
StreamTellsVerdict ==
    \A s \in Submission \ RunOnly : stream[s] \in Verdict => stream[s] = row[s]

\* A recorded submission is judged, or is parked behind a retained failed job,
\* which makes the watchdog skip it.
PendingIsJudgedOrParked ==
    \A s \in Submission : row[s] = "pending" ~> row[s] \in Verdict \/ job[s].st = "failed"

\* No snapshot is sent on subscribing, so a client that comes after the verdict waits for
\* nothing; one that comes before it is told in the end, by the run that judged the
\* submission or by the handler of its exhausted job, unless something failed.
SubscriberIsTold ==
    \A s \in Submission :
        stream[s] = "open" /\ row[s] = "pending" ~> stream[s] \in Verdict \/ faults > 0

=============================================================================
