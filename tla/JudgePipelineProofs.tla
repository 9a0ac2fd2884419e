------------------------- MODULE JudgePipelineProofs -------------------------
(***************************************************************************)
(* The pipeline keeps its types and, while the queue tells the truth about *)
(* failed adds and requests end before the watchdog looks at their rows,   *)
(* implements the ledger, for any submissions, workers and limits; until   *)
(* something fails, failed jobs are judged and streams tell the verdict.   *)
(***************************************************************************)
EXTENDS JudgePipeline, TLAPS

\* A job is locked exactly while it is active, and has an attempt left while it may
\* still run; a busy slot and a busy watchdog have a submission.
JobOK(s) ==
    /\ job[s].st = "active" <=> job[s].lock \in Worker
    /\ job[s].st \in {"waiting", "active"} => job[s].made < MaxAttempts
RunOK(w) == run[w].pc # "idle" => run[w].sub \in Submission
WatchOK == watch.pc \in {"missing", "adding"} => watch.sub \in Submission

WellFormed ==
    /\ TypeOK
    /\ \A s \in Submission : JobOK(s)
    /\ \A w \in Worker : RunOK(w)
    /\ WatchOK

LEMMA JobShape == NoJob \in JobType /\ FreshJob \in JobType
BY PipelineAssumption DEF NoJob, FreshJob, JobType

LEMMA IdleShape == Idle \in RunType /\ Resting \in WatchType
BY DEF Idle, RunType, Verdict, Resting, WatchType

\* addJob stores a fresh job or keeps the one that is there.
LEMMA EnqueuedShape ==
    ASSUME WellFormed, NEW s \in Submission, job' = Enqueued(s)
    PROVE  job' \in [Submission -> JobType] /\ \A x \in Submission : JobOK(x)'
<1>1. job \in [Submission -> JobType] /\ \A x \in Submission : JobOK(x)
  BY DEF WellFormed, TypeOK
<1>2. job' \in [Submission -> JobType]
  BY <1>1, JobShape DEF Enqueued
<1>3. FreshJob.st = "waiting" /\ FreshJob.made = 0 /\ FreshJob.lock = Nobody
  BY DEF FreshJob, NoJob
<1>4. ASSUME NEW x \in Submission PROVE JobOK(x)'
  <2>1. job'[x] = job[x] \/ job'[x] = FreshJob
    BY <1>1 DEF Enqueued
  <2> QED
    BY <1>1, <1>3, <2>1, PipelineAssumption DEF JobOK
<1> QED
  BY <1>2, <1>4

\* A failed attempt leaves a job that may run again only if an attempt is left.
LEMMA FailedShape ==
    ASSUME WellFormed, NEW s \in Submission, NEW w \in Worker, NEW final \in BOOLEAN,
           job[s].st \in {"waiting", "active"}, FailedAttempt(s, w, final)
    PROVE  /\ job' \in [Submission -> JobType]
           /\ \A x \in Submission : JobOK(x)'
           /\ handler' \in [Worker -> [Submission -> {"none", "finalize", "publish"}]]
           /\ \A x \in Submission : job'[x].st # "none" <=> job[x].st # "none"
<1> DEFINE made == job[s].made + 1
           st == IF final \/ made >= MaxAttempts THEN "failed" ELSE "waiting"
<1>1. job \in [Submission -> JobType] /\ (\A x \in Submission : JobOK(x))
      /\ handler \in [Worker -> [Submission -> {"none", "finalize", "publish"}]]
  BY DEF WellFormed, TypeOK
<1>2. made \in 0..MaxAttempts /\ (st = "waiting" => made < MaxAttempts)
  BY <1>1, PipelineAssumption DEF JobOK, JobType
<1>3. job' = [job EXCEPT ![s].made = made, ![s].lock = Nobody, ![s].st = st]
  BY DEF FailedAttempt, Attempt
<1>4. job'[s].made = made /\ job'[s].lock = Nobody /\ job'[s].st = st
      /\ job'[s].stalls = job[s].stalls
  BY <1>1, <1>3 DEF JobType
<1>5. job' \in [Submission -> JobType]
  <2> HIDE DEF made, st
  <2>1. st \in {"failed", "waiting"}
    BY DEF st
  <2>2. ASSUME NEW r \in JobType
        PROVE  [r EXCEPT !.made = made, !.lock = Nobody, !.st = st] \in JobType
    BY <1>2, <2>1 DEF JobType
  <2> QED
    BY <1>1, <1>3, <2>2
<1>6. \A x \in Submission : JobOK(x)'
  BY <1>1, <1>2, <1>3, <1>4, PipelineAssumption DEF JobOK
<1>7. handler' \in [Worker -> [Submission -> {"none", "finalize", "publish"}]]
  BY <1>1 DEF FailedAttempt, Attempt
<1>8. \A x \in Submission : job'[x].st # "none" <=> job[x].st # "none"
  BY <1>1, <1>3, <1>4
<1> QED
  BY <1>5, <1>6, <1>7, <1>8

LEMMA FinalizeShape ==
    ASSUME TypeOK, NEW s \in Submission, NEW v \in Verdict, Finalize(s, v)
    PROVE  /\ row' \in [Submission -> Status]
           /\ results' \in [Submission -> {"none", "accepted", "rejected"}]
           /\ awards' \in [Key -> Nat]
<1>1. CASE row[s] # "pending"
  BY <1>1 DEF TypeOK, Finalize, dbVars
<1>2. CASE row[s] = "pending"
  <2>1. row' \in [Submission -> Status]
    BY <1>2 DEF TypeOK, Finalize, Status
  <2>2. results' \in [Submission -> {"none", "accepted", "rejected"}]
    <3>1. (IF v = "system_error" THEN "none" ELSE v) \in {"none", "accepted", "rejected"}
      BY DEF Verdict
    <3> QED
      BY <1>2, <3>1 DEF TypeOK, Finalize
  <2>3. awards' \in [Key -> Nat]
    BY <1>2, PipelineAssumption DEF TypeOK, Finalize
  <2> QED
    BY <2>1, <2>2, <2>3
<1> QED
  BY <1>1, <1>2

LEMMA FaultShape == ASSUME TypeOK, Fault PROVE faults' \in 0..MaxFaults
BY PipelineAssumption DEF TypeOK, Fault

\* A slot moves on with the same submission, or goes idle.
LEMMA RunShape ==
    ASSUME WellFormed, NEW w \in Worker,
           NEW pc \in {"judged", "finalized", "published"}, NEW v \in Verdict,
           run[w].pc # "idle",
           run' = [run EXCEPT ![w].pc = pc, ![w].out = v]
    PROVE  run' \in [Worker -> RunType] /\ \A x \in Worker : RunOK(x)'
<1>1. run \in [Worker -> RunType] /\ \A x \in Worker : RunOK(x)
  BY DEF WellFormed, TypeOK
<1>2. ASSUME NEW r \in RunType PROVE [r EXCEPT !.pc = pc, !.out = v] \in RunType
  BY DEF RunType
<1>3. run' \in [Worker -> RunType]
  BY <1>1, <1>2
<1> QED
  BY <1>1, <1>3 DEF RunOK, RunType

LEMMA WellFormedInit == Init => WellFormed
<1> SUFFICES ASSUME Init PROVE WellFormed
  OBVIOUS
<1>1. TypeOK
  BY JobShape, IdleShape, PipelineAssumption DEF Init, TypeOK, Status
<1>2. \A s \in Submission : JobOK(s)
  BY PipelineAssumption DEF Init, JobOK, NoJob
<1>3. (\A w \in Worker : RunOK(w)) /\ WatchOK
  BY DEF Init, RunOK, WatchOK, Idle, Resting
<1> QED
  BY <1>1, <1>2, <1>3 DEF WellFormed

\* The submit request: it touches neither a slot nor the watchdog.
LEMMA WellFormedSubmit ==
    ASSUME WellFormed, NEW s \in Submission, SubmitStep(s)
    PROVE  WellFormed'
<1>0. TypeOK
  BY DEF WellFormed
<1>1. CASE SubmitAdmit(s) \/ SubmitRefuse(s) \/ SubmitPrepareFails(s) \/ SubmitMarkErrorFails(s)
          \/ Subscribe(s)
  <2>1. faults' \in 0..MaxFaults
    BY <1>0, <1>1, FaultShape
    DEF SubmitAdmit, SubmitRefuse, SubmitMarkErrorFails, SubmitPrepareFails, Subscribe, TypeOK
  <2> QED
    BY <1>1, <2>1 DEF SubmitAdmit, SubmitRefuse, SubmitMarkErrorFails, SubmitPrepareFails,
       Subscribe,
                      WellFormed, TypeOK, JobOK, RunOK, WatchOK, dbVars
<1>2. CASE SubmitInsert(s) \/ SubmitMarkError(s)
  BY <1>2 DEF SubmitInsert, SubmitMarkError, WellFormed, TypeOK, JobOK, RunOK, WatchOK, Status,
     Verdict
<1>3. CASE SubmitEnqueue(s) \/ SubmitEnqueueFails(s)
  <2>1. UNCHANGED <<dbVars, run, handler, stream, watch>> /\ (job' = Enqueued(s) \/ job' = job)
        /\ api' \in [Submission -> {"idle", "admitted", "inserted", "failing", "ended"}]
    BY <1>0, <1>3 DEF SubmitEnqueue, SubmitEnqueueFails, TypeOK
  <2>2. faults' \in 0..MaxFaults
    BY <1>0, <1>3, FaultShape DEF SubmitEnqueue, SubmitEnqueueFails, TypeOK
  <2>3. job' \in [Submission -> JobType] /\ \A x \in Submission : JobOK(x)'
    BY <2>1, EnqueuedShape DEF WellFormed, TypeOK, JobOK
  <2> QED
    BY <2>1, <2>2, <2>3 DEF WellFormed, TypeOK, RunOK, WatchOK, dbVars
<1> QED
  BY <1>1, <1>2, <1>3 DEF SubmitStep

LEMMA WellFormedWorker ==
    ASSUME WellFormed, NEW w \in Worker, WorkerStep(w) \/ Crash(w)
    PROVE  WellFormed'
<1> USE PipelineAssumption
<1>0. TypeOK
  BY DEF WellFormed
<1>1. ASSUME NEW s \in Submission, Pick(w, s) PROVE WellFormed'
  <2>1. job[s] \in JobType /\ job[s].made < MaxAttempts
    BY <1>0, <1>1 DEF Pick, TypeOK, WellFormed, JobOK
  <2>2. job' = [job EXCEPT ![s] = [@ EXCEPT !.st = "active", !.lock = w]]
    BY <1>1 DEF Pick
  <2>3. [job[s] EXCEPT !.st = "active", !.lock = w] \in JobType
    BY <2>1 DEF JobType
  <2>4. job' \in [Submission -> JobType]
    BY <1>0, <2>2, <2>3 DEF TypeOK
  <2>5. job'[s].st = "active" /\ job'[s].lock = w /\ job'[s].made = job[s].made
    BY <1>0, <2>1, <2>2 DEF TypeOK, JobType
  <2>6. \A x \in Submission : JobOK(x)'
    BY <1>0, <2>1, <2>2, <2>5 DEF WellFormed, TypeOK, JobOK
  <2>7. [Idle EXCEPT !.pc = "picked", !.sub = s] \in RunType
    BY IdleShape DEF RunType
  <2>8. run' \in [Worker -> RunType]
    BY <1>0, <1>1, <2>7 DEF Pick, TypeOK
  <2>9. run' = [run EXCEPT ![w] = [Idle EXCEPT !.pc = "picked", !.sub = s]]
        /\ [Idle EXCEPT !.pc = "picked", !.sub = s].sub = s
    BY <1>1 DEF Pick, Idle
  <2>10. \A x \in Worker : RunOK(x)'
    BY <1>0, <2>9 DEF WellFormed, TypeOK, RunOK
  <2> QED
    BY <1>1, <2>4, <2>6, <2>8, <2>10 DEF Pick, WellFormed, TypeOK, WatchOK, dbVars
<1>2. ASSUME NEW s \in Submission, PickDoomed(w, s) PROVE WellFormed'
  BY <1>2, FailedShape DEF PickDoomed, WellFormed, TypeOK, RunOK, WatchOK, dbVars
<1>3. CASE RunSandbox(w)
  BY <1>3, RunShape, <1>0 DEF RunSandbox, WellFormed, TypeOK, JobOK, WatchOK, dbVars, Verdict
<1>4. CASE FinalizeRun(w)
  <2>1. run[w] \in RunType /\ run[w].sub \in Submission /\ run[w].out \in Verdict
    BY <1>0, <1>4 DEF FinalizeRun, WellFormed, TypeOK, RunOK, RunType
  <2>2. /\ row' \in [Submission -> Status]
        /\ results' \in [Submission -> {"none", "accepted", "rejected"}]
        /\ awards' \in [Key -> Nat]
    BY <1>0, <1>4, <2>1, FinalizeShape DEF FinalizeRun, TypeOK, dbVars
  <2>3. run' \in [Worker -> RunType] /\ \A x \in Worker : RunOK(x)'
    <3>1. run' = [run EXCEPT ![w].pc = "finalized"]
      BY <1>4 DEF FinalizeRun
    <3>2. ASSUME NEW r \in RunType PROVE [r EXCEPT !.pc = "finalized"] \in RunType
      BY DEF RunType
    <3>3. run' \in [Worker -> RunType]
      BY <1>0, <3>1, <3>2 DEF TypeOK
    <3>4. \A x \in Worker : run'[x].sub = run[x].sub /\ (run'[x].pc # "idle" => run[x].pc # "idle")
      BY <1>0, <1>4, <3>1 DEF TypeOK, RunType, FinalizeRun
    <3> QED
      BY <3>3, <3>4 DEF WellFormed, RunOK
  <2> QED
    BY <1>4, <2>2, <2>3 DEF FinalizeRun, WellFormed, TypeOK, JobOK, WatchOK
<1>5. CASE PublishRun(w)
  <2>1. run' = [run EXCEPT ![w].pc = "published"] /\ run[w].pc = "finalized"
    BY <1>5 DEF PublishRun
  <2>2. ASSUME NEW r \in RunType PROVE [r EXCEPT !.pc = "published"] \in RunType
    BY DEF RunType
  <2>3. run' \in [Worker -> RunType]
    BY <1>0, <2>1, <2>2 DEF TypeOK
  <2>4. \A x \in Worker : run'[x].sub = run[x].sub /\ (run'[x].pc # "idle" => run[x].pc # "idle")
    BY <1>0, <2>1 DEF TypeOK, RunType
  <2>5. run[w].out \in Verdict
    BY <1>0 DEF TypeOK, RunType
  <2>6. stream' \in [Submission -> {"none", "open"} \cup Verdict] /\ faults' \in 0..MaxFaults
    BY <1>0, <1>5, <2>5, FaultShape DEF PublishRun, Publish, TypeOK
  <2> QED
    BY <1>5, <2>3, <2>4, <2>6 DEF PublishRun, WellFormed, TypeOK, JobOK, RunOK, WatchOK, dbVars
<1>6. CASE CompleteRun(w)
  <2>1. run' \in [Worker -> RunType] /\ \A x \in Worker : RunOK(x)'
    BY <1>0, <1>6, IdleShape DEF CompleteRun, WellFormed, TypeOK, RunOK, Idle
  <2>2. job' \in [Submission -> JobType] /\ \A x \in Submission : JobOK(x)'
    BY <1>0, <1>6, JobShape DEF CompleteRun, WellFormed, TypeOK, JobOK, NoJob
  <2> QED
    BY <1>6, <2>1, <2>2 DEF CompleteRun, WellFormed, TypeOK, WatchOK, dbVars
<1>7. CASE RunFails(w)
  <2>1. run' \in [Worker -> RunType] /\ \A x \in Worker : RunOK(x)'
    BY <1>0, <1>7, IdleShape DEF RunFails, WellFormed, TypeOK, RunOK, Idle
  <2>2. run[w].sub \in Submission
    BY <1>7 DEF RunFails, WellFormed, RunOK
  <2>3. /\ job' \in [Submission -> JobType]
        /\ \A x \in Submission : JobOK(x)'
        /\ handler' \in [Worker -> [Submission -> {"none", "finalize", "publish"}]]
    <3>1. CASE job[run[w].sub].lock = w
      <4>1. job[run[w].sub].st = "active"
        BY <2>2, <3>1 DEF WellFormed, JobOK
      <4> QED
        BY <1>7, <2>2, <3>1, <4>1, FailedShape DEF RunFails
    <3>2. CASE job[run[w].sub].lock # w
      BY <1>0, <1>7, <3>2 DEF RunFails, WellFormed, TypeOK, JobOK
    <3> QED
      BY <3>1, <3>2
  <2> QED
    BY <1>7, <2>1, <2>3 DEF RunFails, WellFormed, TypeOK, WatchOK, dbVars
<1>8. ASSUME NEW s \in Submission, HandleExhausted(w, s) PROVE WellFormed'
  <2>1. /\ row' \in [Submission -> Status]
        /\ results' \in [Submission -> {"none", "accepted", "rejected"}]
        /\ awards' \in [Key -> Nat]
    BY <1>0, <1>8, FinalizeShape DEF HandleExhausted, Verdict
  <2>2. handler' \in [Worker -> [Submission -> {"none", "finalize", "publish"}]]
    BY <1>0, <1>8 DEF HandleExhausted, TypeOK
  <2> QED
    BY <1>8, <2>1, <2>2 DEF HandleExhausted, WellFormed, TypeOK, JobOK, RunOK, WatchOK
<1>9. ASSUME NEW s \in Submission, HandlerPublish(w, s) \/ HandlerFails(w, s) PROVE WellFormed'
  <2>1. handler' \in [Worker -> [Submission -> {"none", "finalize", "publish"}]]
    BY SMTT(30), <1>0, <1>9 DEF HandlerPublish, HandlerFails, TypeOK
  <2>2. stream' \in [Submission -> {"none", "open"} \cup Verdict] /\ faults' \in 0..MaxFaults
    BY <1>0, <1>9, FaultShape DEF HandlerPublish, HandlerFails, Publish, TypeOK, Verdict
  <2> QED
    BY <1>9, <2>1, <2>2
    DEF HandlerPublish, HandlerFails, WellFormed, TypeOK, JobOK, RunOK, WatchOK, dbVars
<1>10. CASE Crash(w)
  <2>1. run' \in [Worker -> RunType] /\ \A x \in Worker : RunOK(x)'
    BY <1>0, <1>10, IdleShape DEF Crash, WellFormed, TypeOK, RunOK, Idle
  <2>2. handler' \in [Worker -> [Submission -> {"none", "finalize", "publish"}]]
    BY <1>0, <1>10 DEF Crash, TypeOK
  <2>3. faults' \in 0..MaxFaults
    BY <1>0, <1>10, FaultShape DEF Crash
  <2> QED
    BY <1>10, <2>1, <2>2, <2>3 DEF Crash, WellFormed, TypeOK, JobOK, WatchOK, dbVars
<1> QED
  BY <1>1, <1>2, <1>3, <1>4, <1>5, <1>6, <1>7, <1>8, <1>9, <1>10 DEF WorkerStep

LEMMA WellFormedWatchdog ==
    ASSUME WellFormed, WatchdogStep PROVE WellFormed'
<1>0. TypeOK
  BY DEF WellFormed
<1>1. CASE WatchdogTick \/ WatchdogDone
  <2>1. Orphans \in SUBSET Submission
    BY DEF Orphans
  <2>2. watch' \in WatchType /\ WatchOK'
    BY <1>0, <1>1, <2>1, IdleShape DEF WatchdogTick, WatchdogDone, WatchType, WatchOK, Resting
  <2> QED
    BY <1>1, <2>2 DEF WatchdogTick, WatchdogDone, WellFormed, TypeOK, JobOK, RunOK, dbVars
<1>2. ASSUME NEW s \in Submission, WatchdogLookup(s) PROVE WellFormed'
  <2>1. watch \in WatchType /\ faults' \in 0..MaxFaults
    BY <1>0, <1>2, FaultShape DEF WatchdogLookup, TypeOK
  <2>2. watch' \in WatchType /\ WatchOK'
    <3>1. ASSUME NEW r \in WatchType PROVE [r EXCEPT !.todo = r.todo \ {s}] \in WatchType
      BY DEF WatchType
    <3>2. CASE watch' = [watch EXCEPT !.todo = @ \ {s}]
      <4>1. watch'.pc = watch.pc
        BY <2>1, <3>2 DEF WatchType
      <4> QED
        BY <1>2, <2>1, <3>1, <3>2, <4>1 DEF WatchdogLookup, WatchOK
    <3>3. CASE watch' = [pc |-> "missing", todo |-> watch.todo \ {s}, sub |-> s]
      BY <2>1, <3>3 DEF WatchType, WatchOK
    <3> QED
      BY <1>2, <3>2, <3>3 DEF WatchdogLookup
  <2> QED
    BY <1>2, <2>1, <2>2 DEF WatchdogLookup, WellFormed, TypeOK, JobOK, RunOK, dbVars
<1>3. ASSUME NEW pc \in {"adding", "scan"}, watch.pc \in {"missing", "adding"},
             watch' = [watch EXCEPT !.pc = pc]
      PROVE  watch' \in WatchType /\ WatchOK' /\ watch.sub \in Submission
  <2>1. watch \in WatchType /\ watch.sub \in Submission
    BY <1>0, <1>3 DEF TypeOK, WellFormed, WatchOK
  <2>2. watch' \in WatchType /\ watch'.sub = watch.sub
    BY <1>3, <2>1 DEF WatchType
  <2> QED
    BY <2>1, <2>2 DEF WatchOK
<1>4. CASE WatchdogReload
  <2>1. faults' \in 0..MaxFaults
    BY <1>0, <1>4, FaultShape DEF WatchdogReload, TypeOK
  <2>2. watch' \in WatchType /\ WatchOK'
    BY <1>3, <1>4 DEF WatchdogReload
  <2> QED
    BY <1>4, <2>1, <2>2 DEF WatchdogReload, WellFormed, TypeOK, JobOK, RunOK, dbVars
<1>5. CASE WatchdogAdd
  <2>1. faults' \in 0..MaxFaults
    BY <1>0, <1>5, FaultShape DEF WatchdogAdd, TypeOK
  <2>2. watch' \in WatchType /\ WatchOK' /\ watch.sub \in Submission
    BY <1>3, <1>5 DEF WatchdogAdd
  <2>3. job' \in [Submission -> JobType] /\ \A x \in Submission : JobOK(x)'
    BY <1>5, <2>2, EnqueuedShape DEF WatchdogAdd, WellFormed, TypeOK, JobOK
  <2> QED
    BY <1>5, <2>1, <2>2, <2>3 DEF WatchdogAdd, WellFormed, TypeOK, RunOK, dbVars
<1> QED
  BY <1>1, <1>2, <1>4, <1>5 DEF WatchdogStep

LEMMA WellFormedNext == WellFormed /\ [Next]_vars => WellFormed'
<1> SUFFICES ASSUME WellFormed, [Next]_vars PROVE WellFormed'
  OBVIOUS
<1>0. TypeOK
  BY DEF WellFormed
<1>1. ASSUME NEW s \in Submission, Stall(s) PROVE WellFormed'
  <2>1. job[s] \in JobType /\ job[s].st = "active" /\ job[s].made < MaxAttempts
    BY <1>0, <1>1 DEF Stall, TypeOK, WellFormed, JobOK
  <2>2. job' = [job EXCEPT ![s] = [@ EXCEPT !.st = "waiting", !.lock = Nobody,
                                            !.stalls = job[s].stalls + 1]]
    BY <1>1 DEF Stall
  <2>3. [job[s] EXCEPT !.st = "waiting", !.lock = Nobody, !.stalls = job[s].stalls + 1] \in JobType
    <3>1. job[s].stalls + 1 \in Nat
      BY <2>1 DEF JobType
    <3>2. ASSUME NEW r \in JobType, NEW n \in Nat
          PROVE  [r EXCEPT !.st = "waiting", !.lock = Nobody, !.stalls = n] \in JobType
      BY DEF JobType
    <3> QED
      BY <2>1, <3>1, <3>2
  <2>4. job' \in [Submission -> JobType]
    BY <1>0, <2>2, <2>3 DEF TypeOK
  <2>5. job'[s].st = "waiting" /\ job'[s].lock = Nobody /\ job'[s].made = job[s].made
    BY <1>0, <2>1, <2>2 DEF TypeOK, JobType
  <2>6. \A x \in Submission : JobOK(x)'
    BY <1>0, <2>1, <2>2, <2>5, PipelineAssumption DEF WellFormed, TypeOK, JobOK
  <2>7. faults' \in 0..MaxFaults
    BY <1>0, <1>1, FaultShape DEF Stall, TypeOK
  <2> QED
    BY <1>1, <2>4, <2>6, <2>7 DEF Stall, WellFormed, TypeOK, RunOK, WatchOK, dbVars
<1>2. ASSUME NEW s \in Submission, EvictFailed(s) PROVE WellFormed'
  <2>1. job' \in [Submission -> JobType] /\ \A x \in Submission : JobOK(x)'
    BY <1>0, <1>2, JobShape, PipelineAssumption DEF EvictFailed, WellFormed, TypeOK, JobOK, NoJob
  <2> QED
    BY <1>2, <2>1 DEF EvictFailed, WellFormed, TypeOK, RunOK, WatchOK, dbVars
<1>3. CASE ApiCrash
  <2>1. faults' \in 0..MaxFaults
    BY <1>0, <1>3, FaultShape DEF ApiCrash
  <2>2. watch' \in WatchType /\ WatchOK'
    BY <1>3, IdleShape DEF ApiCrash, WatchOK, Resting
  <2> QED
    BY <1>3, <2>1, <2>2 DEF ApiCrash, WellFormed, TypeOK, JobOK, RunOK, dbVars
<1>4. CASE UNCHANGED vars
  BY <1>4 DEF vars, dbVars, WellFormed, TypeOK, JobOK, RunOK, WatchOK
<1> QED
  BY <1>1, <1>2, <1>3, <1>4, WellFormedSubmit, WellFormedWorker, WellFormedWatchdog DEF Next

\* Every variable keeps its type: among other things no job is tried more often than
\* its attempts allow, stalls and crashes included.
THEOREM PipelineTypeOK == Spec => []TypeOK
<1>1. WellFormed => TypeOK
  BY DEF WellFormed
<1> QED
  BY <1>1, WellFormedInit, WellFormedNext, PTL DEF Spec

-----------------------------------------------------------------------------
(* The submissions table                                                   *)

\* Something of the judge still holds the submission: a job, a run, the 'failed'
\* handler or the watchdog.
Touched(s) ==
    \/ job[s].st # "none"
    \/ \E w \in Worker : run[w].pc # "idle" /\ run[w].sub = s
    \/ \E w \in Worker : handler[w][s] # "none"
    \/ s \in watch.todo
    \/ watch.pc \in {"missing", "adding"} /\ watch.sub = s

\* Only the request and finalizeSubmissionResult write the table.
LEMMA DbSteps ==
    ASSUME WellFormed, Next
    PROVE  \/ UNCHANGED dbVars
           \/ \E s \in Submission : SubmitInsert(s) \/ SubmitMarkError(s)
           \/ \E s \in Submission, v \in Verdict : Finalize(s, v) /\ Touched(s) /\ UNCHANGED api
<1> DEFINE Goal == \/ UNCHANGED dbVars
                   \/ \E s \in Submission : SubmitInsert(s) \/ SubmitMarkError(s)
                   \/ \E s \in Submission, v \in Verdict :
                          Finalize(s, v) /\ Touched(s) /\ UNCHANGED api
<1>1. ASSUME NEW s \in Submission, SubmitStep(s) \/ Stall(s) \/ EvictFailed(s) PROVE Goal
  BY <1>1 DEF SubmitStep, SubmitAdmit, SubmitRefuse, SubmitEnqueue, SubmitEnqueueFails,
              SubmitMarkErrorFails, SubmitPrepareFails, Subscribe, Stall, EvictFailed
<1>2. ASSUME NEW w \in Worker, FinalizeRun(w) PROVE Goal
  <2>1. run[w].sub \in Submission /\ run[w].out \in Verdict /\ run[w].pc = "judged"
    BY <1>2 DEF FinalizeRun, WellFormed, TypeOK, RunOK, RunType
  <2>2. Touched(run[w].sub)
    BY <2>1 DEF Touched
  <2> QED
    BY <1>2, <2>1, <2>2 DEF FinalizeRun
<1>3. ASSUME NEW w \in Worker, NEW s \in Submission, HandleExhausted(w, s) PROVE Goal
  <2>1. Touched(s)
    BY SMTT(30), <1>3 DEF HandleExhausted, Touched
  <2> QED
    BY <1>3, <2>1 DEF HandleExhausted, Verdict
<1>4. ASSUME NEW w \in Worker, WorkerStep(w) \/ Crash(w) PROVE Goal
  BY <1>2, <1>3, <1>4 DEF WorkerStep, Crash, Pick, PickDoomed, RunSandbox, PublishRun,
                          CompleteRun, RunFails, HandlerPublish, HandlerFails
<1>5. CASE WatchdogStep \/ ApiCrash
  BY <1>5 DEF WatchdogStep, WatchdogTick, WatchdogLookup, WatchdogReload, WatchdogAdd,
              WatchdogDone, ApiCrash
<1> QED
  BY <1>1, <1>4, <1>5 DEF Next

\* How one row may change, and what the request knows then.
LEMMA RowSteps ==
    ASSUME WellFormed, Next, NEW x \in Submission
    PROVE  \/ row'[x] = row[x]
           \/ api[x] = "admitted" /\ row'[x] = "pending" /\ api'[x] = "inserted"
           \/ api[x] = "failing" /\ row'[x] = "system_error" /\ api'[x] = "ended"
           \/ row[x] = "pending" /\ row'[x] \in Verdict /\ Touched(x) /\ api' = api
<1>0. TypeOK
  BY DEF WellFormed
<1>1. CASE UNCHANGED dbVars
  BY <1>1 DEF dbVars
<1>2. ASSUME NEW s \in Submission, SubmitInsert(s) \/ SubmitMarkError(s)
      PROVE  \/ row'[x] = row[x]
             \/ api[x] = "admitted" /\ row'[x] = "pending" /\ api'[x] = "inserted"
             \/ api[x] = "failing" /\ row'[x] = "system_error" /\ api'[x] = "ended"
  BY <1>0, <1>2 DEF SubmitInsert, SubmitMarkError, TypeOK
<1>3. ASSUME NEW s \in Submission, NEW v \in Verdict, Finalize(s, v), Touched(s), api' = api
      PROVE  \/ row'[x] = row[x]
             \/ row[x] = "pending" /\ row'[x] \in Verdict /\ Touched(x) /\ api' = api
  BY <1>0, <1>3 DEF Finalize, TypeOK, dbVars
<1> QED
  BY <1>1, <1>2, <1>3, DbSteps

\* A request only moves forward, and an ended one stays ended.
LEMMA ApiSteps ==
    ASSUME WellFormed, Next, NEW x \in Submission
    PROVE  \/ api'[x] = api[x] \/ api'[x] = "ended"
           \/ api[x] = "idle" /\ api'[x] = IF x \in RunOnly THEN "inserted" ELSE "admitted"
           \/ SubmitInsert(x) /\ api[x] = "admitted" /\ api'[x] = "inserted"
           \/ api[x] = "inserted" /\ x \notin RunOnly /\ api'[x] = "failing"
<1>0. TypeOK
  BY DEF WellFormed
<1>1. ASSUME NEW s \in Submission, SubmitStep(s)
      PROVE  \/ api'[x] = api[x] \/ api'[x] = "ended"
             \/ api[x] = "idle" /\ api'[x] = IF x \in RunOnly THEN "inserted" ELSE "admitted"
             \/ SubmitInsert(x) /\ api[x] = "admitted" /\ api'[x] = "inserted"
             \/ api[x] = "inserted" /\ x \notin RunOnly /\ api'[x] = "failing"
  BY <1>0, <1>1 DEF SubmitStep, SubmitAdmit, SubmitRefuse, SubmitInsert, SubmitEnqueue,
     SubmitEnqueueFails, SubmitMarkError, SubmitMarkErrorFails, SubmitPrepareFails, Subscribe,
        TypeOK
<1>2. ASSUME NEW s \in Submission, Stall(s) \/ EvictFailed(s) PROVE api' = api
  BY SMTT(30), <1>2 DEF Stall, EvictFailed
<1>3. ASSUME NEW w \in Worker, WorkerStep(w) \/ Crash(w) PROVE api' = api
  BY <1>3 DEF WorkerStep, Crash, Pick, PickDoomed, RunSandbox, FinalizeRun, PublishRun,
              CompleteRun, RunFails, HandleExhausted, HandlerPublish, HandlerFails
<1>4. CASE WatchdogStep
  BY <1>4 DEF WatchdogStep, WatchdogTick, WatchdogLookup, WatchdogReload, WatchdogAdd,
              WatchdogDone
<1>5. CASE ApiCrash
  BY <1>0, <1>5 DEF ApiCrash, TypeOK
<1> QED
  BY <1>1, <1>2, <1>3, <1>4, <1>5 DEF Next

\* No row exists before the request inserts it.
NoRowYet == \A s \in Submission : api[s] \in {"idle", "admitted"} => row[s] = "absent"

LEMMA NoRowYetNext == WellFormed /\ NoRowYet /\ [Next]_vars => NoRowYet'
<1> SUFFICES ASSUME WellFormed, NoRowYet, [Next]_vars, NEW x \in Submission,
                    api'[x] \in {"idle", "admitted"}
             PROVE  row'[x] = "absent"
  BY DEF NoRowYet
<1>1. CASE Next
  BY <1>1, RowSteps, ApiSteps DEF NoRowYet, SubmitInsert
<1>2. CASE UNCHANGED vars
  BY <1>2 DEF vars, dbVars, NoRowYet
<1> QED
  BY <1>1, <1>2

\* Whatever fails, and even if enqueue errors are ambiguous, only the error path of the
\* submit request replaces a verdict on record.
THEOREM VerdictsFallOnlyToError == Spec => VerdictFallsOnlyToError
<1>1. Init => NoRowYet
  BY DEF Init, NoRowYet
<1>2. WellFormed /\ NoRowYet /\ [Next]_vars =>
        [\A s \in Submission :
            row[s] \in Verdict /\ row'[s] # row[s] =>
                row'[s] = "system_error" /\ api[s] = "failing"]_vars
  <2> SUFFICES ASSUME WellFormed, NoRowYet, Next, NEW s \in Submission,
                      row[s] \in Verdict, row'[s] # row[s]
               PROVE  row'[s] = "system_error" /\ api[s] = "failing"
    OBVIOUS
  <2> QED
    BY RowSteps DEF NoRowYet, Verdict
<1> QED
  BY <1>1, <1>2, WellFormedInit, WellFormedNext, NoRowYetNext, PTL
  DEF Spec, VerdictFallsOnlyToError

-----------------------------------------------------------------------------
(* The ledger, when an enqueue error means that no job was stored and a     *)
(* request is over before the watchdog looks at its row                     *)

Trusted == ~AmbiguousEnqueue /\ ~LongRequest

\* The judge holds a submission only after its request has ended, by then its row
\* exists, and only the judge takes the row out of pending.
RequestFirst(s) ==
    /\ api[s] # "ended" => ~Touched(s)
    /\ s \in RunOnly => row[s] = "absent" /\ api[s] \notin {"admitted", "failing"}
    /\ s \notin RunOnly /\ api[s] \in {"idle", "admitted"} => row[s] = "absent"
    /\ s \notin RunOnly /\ api[s] \in {"inserted", "failing"} => row[s] = "pending"
    /\ s \notin RunOnly /\ Touched(s) => row[s] # "absent"

\* Past its finalization a run leaves a verdict on record, its own or another's.
RunJudged(w) ==
    run[w].pc \in {"finalized", "published"} /\ run[w].sub \notin RunOnly =>
        row[run[w].sub] \in Verdict

SafeInv ==
    /\ WellFormed
    /\ \A s \in Submission : RequestFirst(s)
    /\ \A w \in Worker : RunJudged(w)

\* The judge gets hold of a submission from its request or from the watchdog alone.
LEMMA Touches ==
    ASSUME Trusted, WellFormed, Next, NEW x \in Submission, Touched(x)'
    PROVE  \/ Touched(x)
           \/ api[x] = "inserted" /\ api'[x] = "ended" /\ UNCHANGED row
           \/ api[x] = "ended" /\ row[x] = "pending" /\ UNCHANGED <<api, row>>
<1> DEFINE Goal == \/ Touched(x)
                   \/ api[x] = "inserted" /\ api'[x] = "ended" /\ UNCHANGED row
                   \/ api[x] = "ended" /\ row[x] = "pending" /\ UNCHANGED <<api, row>>
<1>0. TypeOK
  BY DEF WellFormed
<1>1. ASSUME UNCHANGED <<run, handler, watch>>, job'[x].st # "none" => job[x].st # "none" PROVE Goal
  BY <1>1 DEF Touched
<1>2. ASSUME NEW s \in Submission, SubmitStep(s) PROVE Goal
  <2>1. CASE job' = job
    BY <1>1, <1>2, <2>1
    DEF SubmitStep, SubmitAdmit, SubmitRefuse, SubmitInsert, SubmitEnqueue,
        SubmitEnqueueFails, SubmitMarkError, SubmitMarkErrorFails, SubmitPrepareFails, Subscribe
  <2>2. CASE SubmitEnqueue(s)
    <3>1. CASE x = s
      BY <1>0, <2>2, <3>1 DEF SubmitEnqueue, TypeOK, dbVars
    <3>2. CASE x # s
      BY <1>0, <1>1, <2>2, <3>2 DEF SubmitEnqueue, Enqueued, TypeOK
    <3> QED
      BY <3>1, <3>2
  <2> QED
    BY <1>2, <2>1, <2>2
    DEF SubmitStep, SubmitAdmit, SubmitRefuse, SubmitInsert,
        SubmitEnqueueFails, SubmitMarkError, SubmitMarkErrorFails, SubmitPrepareFails,
           Subscribe, Trusted
<1>3. ASSUME NEW s \in Submission, Stall(s) \/ EvictFailed(s) PROVE Goal
  <2>1. job'[x].st # "none" => job[x].st # "none"
    BY SMTT(30), <1>0, <1>3 DEF Stall, EvictFailed, TypeOK
  <2> QED
    BY <1>1, <1>3, <2>1 DEF Stall, EvictFailed
<1>4. ASSUME NEW w \in Worker,
             WorkerStep(w) \/ Crash(w),
             job'[x].st # "none" => job[x].st # "none",
             \A u \in Worker : run'[u].pc # "idle" /\ run'[u].sub = x =>
                 Touched(x),
             \A u \in Worker : handler'[u][x] # "none" => Touched(x)
      PROVE  Goal
  <2>1. UNCHANGED watch
    BY <1>4 DEF WorkerStep, Crash, Pick, PickDoomed, RunSandbox, FinalizeRun, PublishRun,
                CompleteRun, RunFails, HandleExhausted, HandlerPublish, HandlerFails
  <2> QED
    BY <1>4, <2>1 DEF Touched
<1>5. ASSUME NEW w \in Worker, NEW s \in Submission, Pick(w, s) PROVE Goal
  <2>1. job'[x].st # "none" => job[x].st # "none"
    BY <1>0, <1>5 DEF Pick, TypeOK
  <2>2. run' = [run EXCEPT ![w] = [Idle EXCEPT !.pc = "picked", !.sub = s]]
        /\ job[s].st = "waiting" /\ UNCHANGED handler
        /\ [Idle EXCEPT !.pc = "picked", !.sub = s].sub = s
    BY <1>5 DEF Pick, Idle
  <2>3. ASSUME NEW u \in Worker, run'[u].pc # "idle", run'[u].sub = x PROVE Touched(x)
    <3>1. CASE u = w
      BY <1>0, <2>2, <2>3, <3>1 DEF Touched, TypeOK
    <3>2. CASE u # w
      BY <1>0, <2>2, <2>3, <3>2 DEF Touched, TypeOK
    <3> QED
      BY <3>1, <3>2
  <2> QED
    BY <1>4, <1>5, <2>1, <2>2, <2>3 DEF WorkerStep, Touched
<1>6. ASSUME NEW w \in Worker, NEW s \in Submission, NEW final \in BOOLEAN,
             FailedAttempt(s, w, final), job[s].st \in {"waiting", "active"}
      PROVE  /\ job'[x].st # "none" => job[x].st # "none"
             /\ \A u \in Worker : handler'[u][x] # "none" => Touched(x)
  <2>1. job'[x].st # "none" => job[x].st # "none"
    BY <1>6, FailedShape
  <2>2. ASSUME NEW u \in Worker, handler'[u][x] # "none" PROVE Touched(x)
    <3>1. CASE x = s
      BY <1>6, <3>1 DEF Touched
    <3>2. CASE x # s
      <4>1. handler'[u][x] = handler[u][x]
        BY <1>0, <1>6, <3>2 DEF FailedAttempt, Attempt, TypeOK
      <4> QED
        BY <2>2, <4>1 DEF Touched
    <3> QED
      BY <3>1, <3>2
  <2> QED
    BY <2>1, <2>2
<1>7. ASSUME NEW w \in Worker, NEW s \in Submission, PickDoomed(w, s) PROVE Goal
  BY <1>4, <1>6, <1>7 DEF PickDoomed, WorkerStep, Touched
<1>8. ASSUME NEW w \in Worker, RunSandbox(w) \/ FinalizeRun(w) \/ PublishRun(w) PROVE Goal
  <2>1. UNCHANGED <<job, handler>>
    BY <1>8 DEF RunSandbox, FinalizeRun, PublishRun
  <2>2. \A u \in Worker : run'[u].sub = run[u].sub /\ (run'[u].pc # "idle" => run[u].pc # "idle")
    <3>1. run[w].pc # "idle" /\ run \in [Worker -> RunType]
      BY <1>0, <1>8 DEF RunSandbox, FinalizeRun, PublishRun, TypeOK
    <3>2. CASE RunSandbox(w)
      <4>1. PICK v \in {"accepted", "rejected"} :
               run' = [run EXCEPT ![w] = [@ EXCEPT !.pc = "judged", !.out = v]]
        BY <3>2 DEF RunSandbox
      <4>2. run'[w].sub = run[w].sub /\ \A u \in Worker \ {w} : run'[u] = run[u]
        BY <3>1, <4>1 DEF RunType
      <4> QED
        BY <3>1, <4>2
    <3>3. CASE FinalizeRun(w) \/ PublishRun(w)
      BY <3>1, <3>3 DEF FinalizeRun, PublishRun, RunType
    <3> QED
      BY <1>8, <3>2, <3>3
  <2> QED
    BY <1>4, <1>8, <2>1, <2>2 DEF WorkerStep, Touched
<1>9. ASSUME NEW w \in Worker, run' = [run EXCEPT ![w] = Idle], NEW u \in Worker,
             run'[u].pc # "idle", run'[u].sub = x
      PROVE  Touched(x)
  BY <1>0, <1>9 DEF Touched, TypeOK, Idle
<1>10. ASSUME NEW w \in Worker, CompleteRun(w) PROVE Goal
  <2>1. job'[x].st # "none" => job[x].st # "none"
    BY <1>0, <1>10 DEF CompleteRun, NoJob, TypeOK
  <2> QED
    BY <1>4, <1>9, <1>10, <2>1 DEF CompleteRun, WorkerStep, Touched
<1>11. ASSUME NEW w \in Worker, RunFails(w) PROVE Goal
  <2>1. CASE job[run[w].sub].lock = w
    <3>1. run[w].sub \in Submission
      BY <1>11 DEF RunFails, WellFormed, RunOK
    <3>2. job[run[w].sub].st = "active"
      BY <2>1, <3>1 DEF WellFormed, JobOK
    <3> QED
      BY <1>4, <1>6, <1>9, <1>11, <2>1, <3>1, <3>2 DEF RunFails, WorkerStep
  <2>2. CASE job[run[w].sub].lock # w
    BY <1>4, <1>9, <1>11, <2>2 DEF RunFails, WorkerStep, Touched
  <2> QED
    BY <2>1, <2>2
<1>12. ASSUME NEW w \in Worker, NEW s \in Submission,
              HandleExhausted(w, s) \/ HandlerPublish(w, s) \/ HandlerFails(w, s)
       PROVE  Goal
  <2>1. UNCHANGED <<job, run>>
    BY <1>12 DEF HandleExhausted, HandlerPublish, HandlerFails
  <2>2. \A u \in Worker : handler'[u][x] # "none" => handler[u][x] # "none"
    BY <1>0, <1>12 DEF HandleExhausted, HandlerPublish, HandlerFails, TypeOK
  <2> QED
    BY <1>4, <1>12, <2>1, <2>2 DEF WorkerStep, Touched
<1>13. ASSUME NEW w \in Worker, Crash(w) PROVE Goal
  <2>1. \A u \in Worker : handler'[u][x] # "none" => handler[u][x] # "none"
    BY <1>0, <1>13 DEF Crash, TypeOK
  <2> QED
    BY <1>4, <1>9, <1>13, <2>1 DEF Crash, Touched
<1>14. CASE WatchdogTick
  <2>1. \/ Touched(x) \/ x \in Orphans
    BY <1>14 DEF WatchdogTick, Touched
  <2> QED
    BY <1>14, <2>1 DEF WatchdogTick, Orphans, Trusted, dbVars
<1>15. ASSUME NEW s \in Submission, WatchdogLookup(s) PROVE Goal
  <2>1. watch \in WatchType /\ UNCHANGED <<job, run, handler>> /\ watch.pc = "scan"
    BY <1>0, <1>15 DEF WatchdogLookup, TypeOK
  <2>2. CASE watch' = [watch EXCEPT !.todo = @ \ {s}]
    <3>1. watch'.todo = watch.todo \ {s} /\ watch'.pc = "scan"
      BY <2>1, <2>2 DEF WatchType
    <3> QED
      BY <2>1, <3>1 DEF Touched
  <2>3. CASE watch' = [pc |-> "missing", todo |-> watch.todo \ {s}, sub |-> s]
    <3>1. s \in watch.todo
      BY <1>15 DEF WatchdogLookup
    <3> QED
      BY <2>1, <2>3, <3>1 DEF Touched
  <2> QED
    BY <1>15, <2>2, <2>3 DEF WatchdogLookup
<1>16. CASE WatchdogReload
  <2>1. watch'.todo = watch.todo /\ watch'.sub = watch.sub /\ watch.pc = "missing"
    BY <1>0, <1>16 DEF WatchdogReload, TypeOK, WatchType
  <2> QED
    BY <1>16, <2>1 DEF WatchdogReload, Touched
<1>17. CASE WatchdogAdd
  <2>1. watch'.todo = watch.todo /\ watch'.pc = "scan" /\ watch.pc = "adding"
    BY <1>0, <1>17 DEF WatchdogAdd, TypeOK, WatchType
  <2>2. x # watch.sub => job'[x] = job[x]
    BY <1>0, <1>17 DEF WatchdogAdd, Enqueued, TypeOK
  <2> QED
    BY <1>17, <2>1, <2>2 DEF WatchdogAdd, Touched
<1>18. CASE WatchdogDone \/ ApiCrash
  BY <1>18 DEF WatchdogDone, ApiCrash, Resting, Touched
<1> QED
  BY <1>2, <1>3, <1>5, <1>7, <1>8, <1>10, <1>11, <1>12, <1>13, <1>14, <1>15, <1>16, <1>17, <1>18
  DEF Next, WorkerStep, WatchdogStep

LEMMA SafeInit == Init => SafeInv
<1> SUFFICES ASSUME Init PROVE SafeInv
  OBVIOUS
<1>1. \A s \in Submission : ~Touched(s)
  BY DEF Init, Touched, NoJob, Idle, Resting
<1>2. \A w \in Worker : RunJudged(w)
  BY DEF Init, RunJudged, Idle
<1> QED
  BY <1>1, <1>2, WellFormedInit DEF SafeInv, RequestFirst, Init

LEMMA SafeNext == ASSUME Trusted PROVE SafeInv /\ [Next]_vars => SafeInv'
<1> SUFFICES ASSUME SafeInv, [Next]_vars PROVE SafeInv'
  OBVIOUS
<1>0. WellFormed /\ TypeOK /\ WellFormed'
  BY WellFormedNext DEF SafeInv, WellFormed
<1>1. CASE UNCHANGED vars
  BY <1>0, <1>1 DEF vars, dbVars, SafeInv, RequestFirst, RunJudged, Touched
<1>2. ASSUME Next, NEW x \in Submission PROVE RequestFirst(x)'
  <2>1. /\ RequestFirst(x) /\ row[x] \in Status
        /\ api[x] \in {"idle", "admitted", "inserted", "failing", "ended"}
        /\ api'[x] \in {"idle", "admitted", "inserted", "failing", "ended"}
    BY <1>0 DEF SafeInv, TypeOK, WellFormed
  <2>2. \/ row'[x] = row[x]
        \/ api[x] = "admitted" /\ row'[x] = "pending" /\ api'[x] = "inserted"
        \/ api[x] = "failing" /\ row'[x] = "system_error" /\ api'[x] = "ended"
        \/ row[x] = "pending" /\ row'[x] \in Verdict /\ Touched(x) /\ api' = api
    BY <1>0, <1>2, RowSteps
  <2>3. \/ api'[x] = api[x] \/ api'[x] = "ended"
        \/ api[x] = "idle" /\ api'[x] = IF x \in RunOnly THEN "inserted" ELSE "admitted"
        \/ SubmitInsert(x) /\ api[x] = "admitted" /\ api'[x] = "inserted"
        \/ api[x] = "inserted" /\ x \notin RunOnly /\ api'[x] = "failing"
    BY <1>0, <1>2, ApiSteps
  <2>4. ASSUME Touched(x)'
        PROVE  \/ Touched(x)
               \/ api[x] = "inserted" /\ api'[x] = "ended" /\ UNCHANGED row
               \/ api[x] = "ended" /\ row[x] = "pending" /\ UNCHANGED <<api, row>>
    BY <1>0, <1>2, <2>4, Touches
  <2>5. SubmitInsert(x) => row'[x] = "pending"
    BY <1>0 DEF SubmitInsert, TypeOK
  <2>6. api'[x] # "ended" => ~Touched(x)'
    BY <2>1, <2>3, <2>4 DEF RequestFirst
  <2>7. x \in RunOnly => row'[x] = "absent" /\ api'[x] \notin {"admitted", "failing"}
    BY <2>1, <2>2, <2>3 DEF RequestFirst
  <2>8. x \notin RunOnly /\ api'[x] \in {"idle", "admitted"} => row'[x] = "absent"
    BY <2>1, <2>2, <2>3 DEF RequestFirst
  <2>9. x \notin RunOnly /\ api'[x] \in {"inserted", "failing"} => row'[x] = "pending"
    BY <2>1, <2>2, <2>3, <2>5 DEF RequestFirst
  <2>10. x \notin RunOnly /\ Touched(x)' => row'[x] # "absent"
    BY <2>1, <2>2, <2>4 DEF RequestFirst, Verdict
  <2> QED
    BY <2>6, <2>7, <2>8, <2>9, <2>10 DEF RequestFirst
<1>3. ASSUME Next, NEW u \in Worker, NEW x \in Submission, row[x] \in Verdict, Touched(x)
      PROVE  row'[x] \in Verdict
  BY <1>0, <1>3, RowSteps DEF SafeInv, RequestFirst, Verdict
<1>4. ASSUME Next, NEW u \in Worker PROVE RunJudged(u)'
  <2>0. run[u] \in RunType /\ RunOK(u) /\ RunJudged(u)
    BY <1>0 DEF SafeInv, WellFormed, TypeOK
  <2>1. CASE run'[u] = run[u]
    BY <1>3, <1>4, <2>0, <2>1 DEF RunJudged, RunOK, Touched
  <2>2. ASSUME NEW w \in Worker, FinalizeRun(w) PROVE RunJudged(u)'
    <3>1. CASE u = w
      <4>1. run[u].pc = "judged" /\ run[u].sub \in Submission /\ run[u].out \in Verdict
            /\ run'[u].sub = run[u].sub
        BY <1>0, <2>0, <2>2, <3>1 DEF FinalizeRun, RunOK, RunType, TypeOK
      <4>2. CASE run[u].sub \in RunOnly
        BY <4>1, <4>2 DEF RunJudged
      <4>3. CASE run[u].sub \notin RunOnly
        <5>1. row[run[u].sub] \in Status /\ row[run[u].sub] # "absent"
          BY <1>0, <4>1, <4>3 DEF SafeInv, RequestFirst, Touched, TypeOK
        <5>2. row'[run[u].sub] \in Verdict
          BY <1>0, <2>2, <3>1, <4>1, <4>3, <5>1
          DEF FinalizeRun, Finalize, dbVars, TypeOK, Status
        <5> QED
          BY <4>1, <5>2 DEF RunJudged
      <4> QED
        BY <4>2, <4>3
    <3>2. CASE u # w
      BY <1>0, <2>1, <2>2, <3>2 DEF FinalizeRun, TypeOK
    <3> QED
      BY <3>1, <3>2
  <2>3. ASSUME NEW w \in Worker, PublishRun(w) PROVE RunJudged(u)'
    <3>1. CASE u = w
      <4>1. run'[u].sub = run[u].sub /\ run[u].pc = "finalized" /\ UNCHANGED row
        BY <1>0, <2>0, <2>3, <3>1 DEF PublishRun, dbVars, RunType, TypeOK
      <4> QED
        BY <2>0, <4>1 DEF RunJudged
    <3>2. CASE u # w
      BY <1>0, <2>1, <2>3, <3>2 DEF PublishRun, TypeOK
    <3> QED
      BY <3>1, <3>2
  <2>4. CASE run'[u].pc \in {"idle", "picked", "judged"}
    BY <2>4 DEF RunJudged
  <2>5. ASSUME NEW w \in Worker, WorkerStep(w) \/ Crash(w), ~FinalizeRun(w), ~PublishRun(w)
        PROVE  run'[u] = run[u] \/ run'[u].pc \in {"idle", "picked", "judged"}
    <3>1. CASE u # w
      BY <1>0, <2>5, <3>1 DEF WorkerStep, Crash, Pick, PickDoomed, RunSandbox,
         CompleteRun, RunFails, HandleExhausted, HandlerPublish, HandlerFails, TypeOK
    <3>2. CASE u = w /\ RunSandbox(w)
      <4>1. PICK v \in {"accepted", "rejected"} :
               run' = [run EXCEPT ![w] = [@ EXCEPT !.pc = "judged", !.out = v]]
        BY <3>2 DEF RunSandbox
      <4> QED
        BY <1>0, <2>0, <3>2, <4>1 DEF TypeOK, RunType
    <3>3. CASE u = w /\ \E s \in Submission : Pick(w, s)
      <4>1. PICK s \in Submission :
               run' = [run EXCEPT ![w] = [Idle EXCEPT !.pc = "picked", !.sub = s]]
        BY <3>3 DEF Pick
      <4>2. [Idle EXCEPT !.pc = "picked", !.sub = s].pc = "picked"
        BY DEF Idle
      <4> QED
        BY <1>0, <3>3, <4>1, <4>2 DEF TypeOK
    <3>4. CASE u = w /\ (CompleteRun(w) \/ RunFails(w) \/ Crash(w))
      <4>1. run' = [run EXCEPT ![w] = Idle]
        BY <3>4 DEF CompleteRun, RunFails, Crash
      <4>2. Idle.pc = "idle"
        BY DEF Idle
      <4> QED
        BY <1>0, <3>4, <4>1, <4>2 DEF TypeOK
    <3>5. ASSUME NEW s \in Submission,
                 \/ PickDoomed(w, s) \/ HandleExhausted(w, s)
                 \/ HandlerPublish(w, s) \/ HandlerFails(w, s)
          PROVE  run' = run
      BY <3>5 DEF PickDoomed, HandleExhausted, HandlerPublish, HandlerFails
    <3> QED
      BY SMTT(30), <2>5, <3>1, <3>2, <3>3, <3>4, <3>5 DEF WorkerStep
  <2>6. ASSUME NEW s \in Submission, SubmitStep(s) \/ Stall(s) \/ EvictFailed(s) PROVE run' = run
    BY <2>6 DEF SubmitStep, SubmitAdmit, SubmitRefuse, SubmitInsert, SubmitEnqueue,
       SubmitEnqueueFails, SubmitMarkError, SubmitMarkErrorFails, SubmitPrepareFails,
          Subscribe, Stall, EvictFailed
  <2>7. WatchdogStep \/ ApiCrash => run' = run
    BY DEF WatchdogStep, WatchdogTick, WatchdogLookup, WatchdogReload, WatchdogAdd,
           WatchdogDone, ApiCrash
  <2> QED
    BY <1>4, <2>1, <2>2, <2>3, <2>4, <2>5, <2>6, <2>7 DEF Next
<1> QED
  BY <1>0, <1>1, <1>2, <1>4 DEF SafeInv

\* The ledger's view of one step of the pipeline.
LEMMA LedgerStep ==
    ASSUME SafeInv, Next, ~ UNCHANGED <<row, awards>> PROVE Ledger!Next
<1>0. WellFormed /\ TypeOK /\ \A s \in Submission : RequestFirst(s)
  BY DEF SafeInv, WellFormed
<1>1. ASSUME NEW s \in Submission, SubmitInsert(s) PROVE Ledger!Next
  <2>1. row[s] = "absent"
    BY <1>0, <1>1 DEF SubmitInsert, RequestFirst
  <2> QED
    BY <1>1, <2>1 DEF SubmitInsert, Ledger!Next, Ledger!Record
<1>2. ASSUME NEW s \in Submission, SubmitMarkError(s) PROVE Ledger!Next
  <2>1. row[s] = "pending"
    BY <1>0, <1>2 DEF SubmitMarkError, RequestFirst
  <2>2. "system_error" \in Ledger!Verdict /\ ~ Ledger!Earns(s, "system_error")
    BY DEF Ledger!Verdict, Ledger!Earns
  <2>3. Ledger!Judge(s, "system_error")
    BY <1>2, <2>1, <2>2 DEF SubmitMarkError, Ledger!Judge
  <2> QED
    BY <2>2, <2>3 DEF Ledger!Next
<1>3. ASSUME NEW s \in Submission, NEW v \in Verdict, Finalize(s, v) PROVE Ledger!Next
  <2>1. row[s] = "pending"
    BY <1>3 DEF Finalize, dbVars
  <2>2. Earns(s, v) <=> Ledger!Earns(s, v)
    BY DEF Earns, Solved, Ledger!Earns, Ledger!Solved
  <2>3. Ledger!Judge(s, v)
    BY <1>3, <2>1, <2>2 DEF Finalize, Ledger!Judge
  <2> QED
    BY <2>3 DEF Ledger!Next, Ledger!Verdict, Verdict
<1> QED
  BY <1>0, <1>1, <1>2, <1>3, DbSteps DEF dbVars

\* Retries, stalls, crashes, requeues and all, each step of the pipeline is to the
\* submissions table and the ranking one step of the ledger or none.
THEOREM PipelineImplementsLedger == ASSUME Trusted PROVE Spec => ImplementsLedger
<1>1. Init => Ledger!Init
  BY DEF Init, Ledger!Init
<1>2. SafeInv /\ [Next]_vars => [Ledger!Next]_(Ledger!ledgerVars)
  <2> SUFFICES ASSUME SafeInv, [Next]_vars, ~ UNCHANGED <<row, awards>> PROVE Ledger!Next
    BY DEF Ledger!ledgerVars
  <2>1. Next
    BY DEF vars, dbVars
  <2> QED
    BY <2>1, LedgerStep
<1>3. SafeInv /\ [Next]_vars => SafeInv'
  BY SafeNext
<1> QED
  BY <1>1, <1>2, <1>3, SafeInit, PTL DEF Spec, ImplementsLedger, Ledger!Spec

\* The result rows a reader finds belong to the verdict it finds.
THEOREM ResultsAlwaysMatch == ASSUME Trusted PROVE Spec => []ResultsMatchVerdict
<1>1. Init => ResultsMatchVerdict
  BY DEF Init, ResultsMatchVerdict
<1>2. SafeInv /\ ResultsMatchVerdict /\ [Next]_vars => ResultsMatchVerdict'
  <2> SUFFICES ASSUME SafeInv, ResultsMatchVerdict, [Next]_vars PROVE ResultsMatchVerdict'
    OBVIOUS
  <2>0. WellFormed /\ TypeOK /\ \A s \in Submission : RequestFirst(s)
    BY DEF SafeInv, WellFormed
  <2>1. CASE UNCHANGED dbVars
    BY <2>1 DEF dbVars, ResultsMatchVerdict
  <2>2. ASSUME NEW s \in Submission, SubmitInsert(s) \/ SubmitMarkError(s)
        PROVE  ResultsMatchVerdict'
    <3>1. row[s] \in {"absent", "pending"}
      BY <2>0, <2>2 DEF SubmitInsert, SubmitMarkError, RequestFirst
    <3> QED
      BY <2>0, <2>2, <3>1 DEF SubmitInsert, SubmitMarkError, ResultsMatchVerdict, TypeOK
  <2>3. ASSUME NEW s \in Submission, NEW v \in Verdict, Finalize(s, v)
        PROVE  ResultsMatchVerdict'
    BY <2>0, <2>1, <2>3 DEF Finalize, ResultsMatchVerdict, TypeOK, Verdict
  <2>4. CASE UNCHANGED vars
    BY <2>4 DEF vars, dbVars, ResultsMatchVerdict
  <2> QED
    BY <2>0, <2>1, <2>2, <2>3, <2>4, DbSteps
<1>3. SafeInv /\ [Next]_vars => SafeInv'
  BY SafeNext
<1> QED
  BY <1>1, <1>2, <1>3, SafeInit, PTL DEF Spec

\* A job leaves the queue from under its worker only with a verdict on record.
THEOREM JobsLeaveJudged == ASSUME Trusted PROVE Spec => LeavesQueueJudged
<1>1. ASSUME SafeInv, Next, NEW s \in Submission \ RunOnly,
             job[s].st = "active", job'[s].st = "none"
      PROVE  row[s] \in Verdict
  <2>0. WellFormed /\ TypeOK /\ \A w \in Worker : RunOK(w) /\ RunJudged(w)
    BY <1>1 DEF SafeInv, WellFormed
  <2>1. ASSUME NEW w \in Worker, CompleteRun(w) PROVE row[s] \in Verdict
    <3>1. run[w].pc = "published" /\ run[w].sub = s
      BY <1>1, <2>0, <2>1 DEF CompleteRun, TypeOK
    <3> QED
      BY <2>0, <3>1 DEF RunJudged
  <2>2. ASSUME NEW x \in Submission, SubmitStep(x) \/ Stall(x) \/ EvictFailed(x) PROVE FALSE
    <3>1. CASE SubmitStep(x)
      BY <1>1, <2>0, <3>1 DEF SubmitStep, SubmitAdmit, SubmitRefuse, SubmitInsert,
         SubmitEnqueue, SubmitEnqueueFails, SubmitMarkError, SubmitMarkErrorFails,
            SubmitPrepareFails, Subscribe,
         Enqueued, FreshJob, NoJob, TypeOK
    <3>2. CASE Stall(x)
      <4>1. job' = [job EXCEPT ![x] = [@ EXCEPT !.st = "waiting", !.lock = Nobody,
                                                !.stalls = job[x].stalls + 1]]
        BY <3>2 DEF Stall
      <4> QED
        BY <1>1, <2>0, <4>1 DEF TypeOK, JobType
    <3>3. CASE EvictFailed(x)
      BY <1>1, <2>0, <3>3 DEF EvictFailed, TypeOK
    <3> QED
      BY <2>2, <3>1, <3>2, <3>3
  <2>3. ASSUME NEW w \in Worker, WorkerStep(w) \/ Crash(w), ~CompleteRun(w) PROVE FALSE
    <3>1. ASSUME NEW x \in Submission, Pick(w, x) PROVE FALSE
      <4>1. job' = [job EXCEPT ![x] = [@ EXCEPT !.st = "active", !.lock = w]]
        BY <3>1 DEF Pick
      <4> QED
        BY <1>1, <2>0, <4>1 DEF TypeOK, JobType
    <3>2. ASSUME NEW x \in Submission, PickDoomed(w, x) PROVE FALSE
      BY <1>1, <2>0, <3>2, FailedShape DEF PickDoomed
    <3>3. CASE RunFails(w)
      <4>1. run[w].sub \in Submission
        BY <2>0, <3>3 DEF RunFails, RunOK
      <4>2. CASE job[run[w].sub].lock = w
        <5>1. job[run[w].sub].st = "active"
          BY <2>0, <4>1, <4>2 DEF WellFormed, JobOK
        <5> QED
          BY <1>1, <2>0, <3>3, <4>1, <4>2, <5>1, FailedShape DEF RunFails
      <4>3. CASE job[run[w].sub].lock # w
        BY <1>1, <3>3, <4>3 DEF RunFails
      <4> QED
        BY <4>2, <4>3
    <3>4. CASE RunSandbox(w) \/ FinalizeRun(w) \/ PublishRun(w) \/ Crash(w)
      BY <1>1, <3>4 DEF RunSandbox, FinalizeRun, PublishRun, Crash
    <3>5. ASSUME NEW x \in Submission,
                 HandleExhausted(w, x) \/ HandlerPublish(w, x) \/ HandlerFails(w, x)
          PROVE  FALSE
      BY <1>1, <3>5 DEF HandleExhausted, HandlerPublish, HandlerFails
    <3> QED
      BY <2>3, <3>1, <3>2, <3>3, <3>4, <3>5 DEF WorkerStep
  <2>4. WatchdogStep \/ ApiCrash => FALSE
    BY <1>1, <2>0 DEF WatchdogStep, WatchdogTick, WatchdogLookup, WatchdogReload,
       WatchdogAdd, WatchdogDone, ApiCrash, Enqueued, FreshJob, NoJob, TypeOK
  <2> QED
    BY <1>1, <2>1, <2>2, <2>3, <2>4 DEF Next
<1>2. SafeInv /\ [Next]_vars =>
        [\A s \in Submission \ RunOnly :
            job[s].st = "active" /\ job'[s].st = "none" => row[s] \in Verdict]_vars
  BY <1>1
<1>3. SafeInv /\ [Next]_vars => SafeInv'
  BY SafeNext
<1> QED
  BY <1>2, <1>3, SafeInit, PTL DEF Spec, LeavesQueueJudged

-----------------------------------------------------------------------------
(* Before the first fault.  Whatever the requests and the watchdog do, a job stays with *)
(* the worker that runs it, so that its last attempt is the one its handler counts.     *)

Enters(s) == api[s] \in {"idle", "admitted"}

\* An active job is the one its lock's holder runs, so it never stalls; a submission has
\* neither a row nor a job before its request inserts the row.
CalmJob(s) ==
    /\ job[s].stalls = 0
    /\ job[s].st = "active" => run[job[s].lock].pc # "idle" /\ run[job[s].lock].sub = s
    /\ Enters(s) => job[s].st = "none" /\ row[s] = "absent"
    /\ api[s] # "failing"
CalmRun(w) == run[w].pc # "idle" => job[run[w].sub].lock = w
CalmWatch ==
    /\ \A s \in watch.todo : ~Enters(s)
    /\ watch.pc \in {"missing", "adding"} => ~Enters(watch.sub)

CalmInv ==
    /\ (\A s \in Submission : CalmJob(s)) /\ (\A w \in Worker : CalmRun(w)) /\ CalmWatch
    /\ FailedJobIsJudged

LEMMA CalmInit == Init => CalmInv
BY DEF Init, CalmInv, CalmJob, CalmRun, CalmWatch, FailedJobIsJudged, NoJob, Idle, Resting, Enters

\* What the steps of a run without faults do, submission by submission and slot by slot.
LEMMA Picked ==
    ASSUME WellFormed, NEW w \in Worker, NEW s \in Submission, Pick(w, s)
    PROVE  /\ run[w].pc = "idle" /\ job[s].st = "waiting"
           /\ job'[s].st = "active" /\ job'[s].lock = w /\ job'[s].stalls = job[s].stalls
           /\ \A x \in Submission \ {s} : job'[x] = job[x]
           /\ run'[w].pc = "picked" /\ run'[w].sub = s
           /\ \A v \in Worker \ {w} : run'[v] = run[v]
           /\ UNCHANGED <<row, api, handler, stream, watch>>
<1>1. job \in [Submission -> JobType] /\ run \in [Worker -> RunType]
  BY DEF WellFormed, TypeOK
<1>2. /\ job' = [job EXCEPT ![s].st = "active", ![s].lock = w]
      /\ run' = [run EXCEPT ![w] = [Idle EXCEPT !.pc = "picked", !.sub = s]]
      /\ run[w].pc = "idle" /\ job[s].st = "waiting"
      /\ UNCHANGED <<row, api, handler, stream, watch>>
  BY DEF Pick, dbVars
<1>3. /\ job'[s].st = "active" /\ job'[s].lock = w /\ job'[s].stalls = job[s].stalls
      /\ \A x \in Submission \ {s} : job'[x] = job[x]
  BY <1>1, <1>2 DEF JobType
<1>4. /\ run'[w].pc = "picked" /\ run'[w].sub = s
      /\ \A v \in Worker \ {w} : run'[v] = run[v]
  BY <1>1, <1>2 DEF RunType, Idle
<1> QED
  BY <1>2, <1>3, <1>4

\* A run goes on: its slot keeps the submission.
LEMMA RunGoesOn ==
    ASSUME WellFormed, NEW w \in Worker, RunSandbox(w) \/ FinalizeRun(w) \/ PublishRun(w)
    PROVE  /\ run[w].pc # "idle" /\ run'[w].pc # "idle" /\ run'[w].sub = run[w].sub
           /\ run'[w].pc = "judged" \/ run'[w].out = run[w].out
           /\ \A v \in Worker \ {w} : run'[v] = run[v]
           /\ UNCHANGED <<api, job, handler, watch>>
<1>1. run \in [Worker -> RunType]
  BY DEF WellFormed, TypeOK
<1>2. CASE RunSandbox(w)
  <2>1. PICK v \in {"accepted", "rejected"} : run' = [run EXCEPT ![w].pc = "judged", ![w].out = v]
    BY <1>2 DEF RunSandbox
  <2>2. run'[w].pc = "judged" /\ run'[w].sub = run[w].sub
        /\ \A v1 \in Worker \ {w} : run'[v1] = run[v1]
    BY <1>1, <2>1 DEF RunType
  <2> QED
    BY <1>2, <2>2 DEF RunSandbox, dbVars
<1>3. CASE FinalizeRun(w) \/ PublishRun(w)
  BY <1>1, <1>3 DEF FinalizeRun, PublishRun, RunType
<1> QED
  BY <1>2, <1>3

\* A run ends.
LEMMA RunEnds ==
    ASSUME WellFormed, NEW w \in Worker, run' = [run EXCEPT ![w] = Idle]
    PROVE  /\ run'[w].pc = "idle" /\ run'[w].sub \notin Submission
           /\ \A v \in Worker \ {w} : run'[v] = run[v]
BY PipelineAssumption DEF WellFormed, TypeOK, Idle

\* The attempt of a run that holds its job fails.
EndsAttempt(s, w) == FailedAttempt(s, w, FALSE)

LEMMA AttemptOver ==
    ASSUME WellFormed, NEW w \in Worker, NEW s \in Submission,
           EndsAttempt(s, w)
    PROVE  /\ job'[s].st \in {"waiting", "failed"} /\ job'[s].stalls = job[s].stalls
           /\ \A x \in Submission \ {s} : job'[x] = job[x]
           /\ \A v \in Worker, x \in Submission : v # w \/ x # s => handler'[v][x] = handler[v][x]
           /\ job'[s].st = "failed" =>
                  handler'[w][s] = IF s \in RunOnly THEN "publish" ELSE "finalize"
           /\ job'[s].st = "waiting" => handler'[w][s] = handler[w][s]
<1> DEFINE made == job[s].made + 1
           over == made >= MaxAttempts
<1>1. /\ job \in [Submission -> JobType]
      /\ handler \in [Worker -> [Submission -> {"none", "finalize", "publish"}]]
  BY DEF WellFormed, TypeOK
<1>2. /\ job' = [job EXCEPT ![s].made = made, ![s].lock = Nobody,
                            ![s].st = IF over THEN "failed" ELSE "waiting"]
      /\ handler' = IF over
                    THEN [handler EXCEPT ![w][s] = IF s \in RunOnly THEN "publish" ELSE "finalize"]
                    ELSE handler
  BY DEF EndsAttempt, FailedAttempt, Attempt
<1> HIDE DEF made, over
<1>3. /\ job'[s].st = (IF over THEN "failed" ELSE "waiting") /\ job'[s].stalls = job[s].stalls
      /\ \A x \in Submission \ {s} : job'[x] = job[x]
  BY <1>1, <1>2 DEF JobType
<1>4. /\ \A v \in Worker, x \in Submission : v # w \/ x # s => handler'[v][x] = handler[v][x]
      /\ over => handler'[w][s] = IF s \in RunOnly THEN "publish" ELSE "finalize"
      /\ ~over => handler' = handler
  BY <1>1, <1>2
<1> QED
  BY <1>3, <1>4

\* addJob.
LEMMA JobAdded ==
    ASSUME WellFormed, NEW s \in Submission, job' = Enqueued(s)
    PROVE  /\ \A x \in Submission \ {s} : job'[x] = job[x]
           /\ \/ job'[s] = job[s]
              \/ job[s].st = "none" /\ job'[s].st = "waiting" /\ job'[s].stalls = 0
           /\ job'[s].st # "none"
BY DEF WellFormed, TypeOK, Enqueued, FreshJob, NoJob

LEMMA JobRemoved ==
    ASSUME WellFormed, NEW s \in Submission, job' = [job EXCEPT ![s] = NoJob]
    PROVE  /\ \A x \in Submission \ {s} : job'[x] = job[x]
           /\ job'[s].st = "none" /\ job'[s].stalls = 0
BY DEF WellFormed, TypeOK, NoJob

\* The guarded update changes a pending row only, to the verdict.
LEMMA RowFinalized ==
    ASSUME WellFormed, NEW s \in Submission, NEW v \in Verdict, Finalize(s, v)
    PROVE  /\ \A x \in Submission \ {s} : row'[x] = row[x]
           /\ IF row[s] = "pending" THEN row'[s] = v ELSE row'[s] = row[s]
BY DEF WellFormed, TypeOK, Finalize, dbVars

\* Without a fault these are the steps there are.
CalmSubmit(s) ==
    SubmitAdmit(s) \/ SubmitRefuse(s) \/ SubmitInsert(s) \/ SubmitEnqueue(s) \/ Subscribe(s)
CalmWorker(w) ==
    \/ \E s \in Submission : Pick(w, s) \/ HandleExhausted(w, s) \/ HandlerPublish(w, s)
    \/ RunSandbox(w) \/ FinalizeRun(w) \/ PublishRun(w) \/ CompleteRun(w) \/ RunFails(w)

LEMMA CalmSteps ==
    ASSUME WellFormed, CalmInv, Next, faults' = faults
    PROVE  \/ \E s \in Submission : CalmSubmit(s) \/ EvictFailed(s)
           \/ \E w \in Worker : CalmWorker(w)
           \/ WatchdogStep
<1>1. ~Fault
  BY DEF Fault, WellFormed, TypeOK
<1>2. ASSUME NEW s \in Submission, SubmitStep(s) PROVE CalmSubmit(s)
  BY <1>1, <1>2 DEF SubmitStep, CalmSubmit, SubmitPrepareFails, SubmitEnqueueFails,
     SubmitMarkError, SubmitMarkErrorFails, CalmInv, CalmJob
<1>3. ASSUME NEW s \in Submission PROVE ~Stall(s)
  BY <1>1 DEF Stall, CalmInv, CalmJob
<1>4. ASSUME NEW w \in Worker, NEW s \in Submission PROVE ~PickDoomed(w, s) /\ ~HandlerFails(w, s)
  <2>1. job[s].stalls = 0 /\ MaxStalls \in Nat
    BY PipelineAssumption DEF CalmInv, CalmJob
  <2>2. ~(job[s].stalls > MaxStalls)
    BY <2>1
  <2> QED
    BY <1>1, <2>2 DEF PickDoomed, HandlerFails
<1>5. ~ApiCrash /\ \A w \in Worker : ~Crash(w)
  BY <1>1 DEF Crash, ApiCrash
<1> QED
  BY <1>2, <1>3, <1>4, <1>5 DEF Next, WorkerStep, CalmWorker

LEMMA CalmRequests ==
    ASSUME WellFormed, CalmInv, NEW s \in Submission, CalmSubmit(s) \/ EvictFailed(s)
    PROVE  CalmInv'
<1>0. /\ api \in [Submission -> {"idle", "admitted", "inserted", "failing", "ended"}]
      /\ job \in [Submission -> JobType] /\ row \in [Submission -> Status]
      /\ \A x \in Submission : JobOK(x) /\ CalmJob(x)
      /\ \A w \in Worker : RunOK(w) /\ CalmRun(w)
      /\ watch.todo \subseteq Submission
      /\ watch.pc \in {"missing", "adding"} => watch.sub \in Submission
      /\ CalmWatch /\ FailedJobIsJudged
  BY DEF WellFormed, TypeOK, CalmInv, WatchOK, WatchType
<1>1. CASE SubmitAdmit(s) \/ SubmitRefuse(s) \/ Subscribe(s)
  <2>1. /\ UNCHANGED <<row, job, run, handler, watch>>
        /\ \A x \in Submission : Enters(x)' => Enters(x)
        /\ \A x \in Submission : api'[x] # "failing"
    BY <1>0, <1>1 DEF SubmitAdmit, SubmitRefuse, Subscribe, Enters, dbVars, CalmJob
  <2> QED
    BY <1>0, <2>1 DEF CalmInv, CalmJob, CalmRun, CalmWatch, FailedJobIsJudged, Enters
<1>2. CASE SubmitInsert(s)
  <2>1. /\ UNCHANGED <<job, run, handler, watch>> /\ job[s].st = "none"
        /\ \A x \in Submission : Enters(x)' => Enters(x) /\ x # s
        /\ \A x \in Submission : api'[x] # "failing"
        /\ \A x \in Submission \ {s} : row'[x] = row[x]
    BY <1>0, <1>2 DEF SubmitInsert, Enters, CalmJob
  <2>2. FailedJobIsJudged'
    BY <1>0, <2>1 DEF FailedJobIsJudged
  <2> QED
    BY <1>0, <2>1, <2>2 DEF CalmInv, CalmJob, CalmRun, CalmWatch, Enters
<1>3. CASE SubmitEnqueue(s)
  <2>1. /\ UNCHANGED <<row, run, handler, watch>> /\ job' = Enqueued(s)
        /\ \A x \in Submission : Enters(x)' => Enters(x) /\ x # s
        /\ \A x \in Submission : api'[x] # "failing"
    BY <1>0, <1>3 DEF SubmitEnqueue, Enters, dbVars, CalmJob
  <2>2. /\ \A x \in Submission \ {s} : job'[x] = job[x]
        /\ job'[s] = job[s] \/ (job[s].st = "none" /\ job'[s].st = "waiting" /\ job'[s].stalls = 0)
    BY <2>1, JobAdded
  <2>3. ASSUME NEW w \in Worker PROVE CalmRun(w)'
    BY <1>0, <2>1, <2>2, PipelineAssumption DEF CalmRun, JobOK, RunOK
  <2>4. ASSUME NEW x \in Submission PROVE CalmJob(x)'
    BY <1>0, <2>1, <2>2 DEF CalmJob, Enters
  <2>5. FailedJobIsJudged'
    BY <1>0, <2>1, <2>2 DEF FailedJobIsJudged
  <2> QED
    BY <1>0, <2>1, <2>3, <2>4, <2>5 DEF CalmInv, CalmWatch, Enters
<1>4. CASE EvictFailed(s)
  <2>1. /\ UNCHANGED <<row, api, run, handler, watch>> /\ job' = [job EXCEPT ![s] = NoJob]
        /\ job[s].st = "failed"
    BY <1>4 DEF EvictFailed, dbVars
  <2>2. /\ \A x \in Submission \ {s} : job'[x] = job[x]
        /\ job'[s].st = "none" /\ job'[s].stalls = 0
    BY <2>1, JobRemoved
  <2>3. ASSUME NEW w \in Worker PROVE CalmRun(w)'
    BY <1>0, <2>1, <2>2 DEF CalmRun, JobOK, RunOK
  <2>4. ASSUME NEW x \in Submission PROVE CalmJob(x)'
    BY <1>0, <2>1, <2>2 DEF CalmJob, Enters
  <2>5. FailedJobIsJudged'
    BY <1>0, <2>1, <2>2 DEF FailedJobIsJudged
  <2> QED
    BY <1>0, <2>1, <2>3, <2>4, <2>5 DEF CalmInv, CalmWatch, Enters
<1> QED
  BY <1>1, <1>2, <1>3, <1>4 DEF CalmSubmit

LEMMA CalmWorkers ==
    ASSUME WellFormed, CalmInv, NEW w \in Worker, CalmWorker(w)
    PROVE  CalmInv'
<1>0. /\ job \in [Submission -> JobType] /\ row \in [Submission -> Status]
      /\ \A x \in Submission : JobOK(x) /\ CalmJob(x)
      /\ \A v \in Worker : RunOK(v) /\ CalmRun(v)
      /\ CalmWatch /\ FailedJobIsJudged /\ run \in [Worker -> RunType] /\ Nobody \notin Worker
      /\ handler \in [Worker -> [Submission -> {"none", "finalize", "publish"}]]
  BY PipelineAssumption DEF WellFormed, TypeOK, CalmInv
\* A run's own job and its slot.
<1>1. ASSUME NEW s \in Submission, Pick(w, s) PROVE CalmInv'
  <2>0. /\ run[w].pc = "idle" /\ job[s].st = "waiting"
        /\ job'[s].st = "active" /\ job'[s].lock = w /\ job'[s].stalls = job[s].stalls
        /\ \A x \in Submission \ {s} : job'[x] = job[x]
        /\ run'[w].pc = "picked" /\ run'[w].sub = s
        /\ \A v \in Worker \ {w} : run'[v] = run[v]
        /\ UNCHANGED <<row, api, handler, stream, watch>>
    BY <1>1, Picked
  <2>1. ASSUME NEW x \in Submission PROVE CalmJob(x)'
    <3>1. CASE x = s
      BY <1>0, <2>0, <3>1 DEF CalmJob, Enters
    <3>2. CASE x # s
      <4>1. CalmJob(x) /\ job'[x] = job[x] /\ (job[x].st = "active" => job[x].lock \in Worker \ {w})
        BY <1>0, <2>0, <3>2 DEF CalmJob, JobOK
      <4> QED
        BY <2>0, <4>1 DEF CalmJob, Enters
    <3> QED
      BY <3>1, <3>2
  <2>2. ASSUME NEW v \in Worker PROVE CalmRun(v)'
    <3>1. CASE v = w
      BY <2>0, <3>1 DEF CalmRun
    <3>2. CASE v # w
      <4>1. run[v].pc # "idle" => run[v].sub \in Submission /\ run[v].sub # s
        BY <1>0, <2>0 DEF CalmRun, RunOK, JobOK
      <4> QED
        BY <1>0, <2>0, <3>2, <4>1 DEF CalmRun
    <3> QED
      BY <3>1, <3>2
  <2>3. FailedJobIsJudged'
    BY <1>0, <2>0 DEF FailedJobIsJudged
  <2> QED
    BY <1>0, <2>0, <2>1, <2>2, <2>3 DEF CalmInv, CalmWatch, Enters
<1>2. CASE RunSandbox(w) \/ FinalizeRun(w) \/ PublishRun(w)
  <2>0. /\ run[w].pc # "idle" /\ run'[w].pc # "idle" /\ run'[w].sub = run[w].sub
        /\ \A v \in Worker \ {w} : run'[v] = run[v]
        /\ UNCHANGED <<api, job, handler, watch>>
    BY <1>2, RunGoesOn
  <2>1. \A x \in Submission : row'[x] = row[x] \/ (row[x] = "pending" /\ row'[x] # "pending")
    <3>1. CASE FinalizeRun(w)
      <4>1. run[w].sub \in Submission /\ run[w].out \in Verdict
        BY <1>0, <2>0 DEF RunOK, RunType
      <4>2. CASE run[w].sub \in RunOnly
        BY <3>1, <4>2 DEF FinalizeRun, dbVars
      <4>3. CASE run[w].sub \notin RunOnly
        <5>1. Finalize(run[w].sub, run[w].out)
          BY <3>1, <4>3 DEF FinalizeRun
        <5> QED
          BY <4>1, <5>1, RowFinalized DEF Verdict
      <4> QED
        BY <4>2, <4>3
    <3>2. CASE RunSandbox(w) \/ PublishRun(w)
      BY <3>2 DEF RunSandbox, PublishRun, dbVars
    <3> QED
      BY <1>2, <3>1, <3>2
  <2>2. ASSUME NEW x \in Submission PROVE CalmJob(x)'
    BY <1>0, <2>0, <2>1 DEF CalmJob, Enters, JobOK
  <2>3. ASSUME NEW v \in Worker PROVE CalmRun(v)'
    BY <1>0, <2>0 DEF CalmRun
  <2>4. FailedJobIsJudged'
    BY <1>0, <2>0, <2>1 DEF FailedJobIsJudged
  <2> QED
    BY <1>0, <2>0, <2>2, <2>3, <2>4 DEF CalmInv, CalmWatch, Enters
\* A run ends: no other slot held its job.
<1>3. ASSUME run[w].pc # "idle", run' = [run EXCEPT ![w] = Idle],
             UNCHANGED <<row, api, watch>>,
             \A x \in Submission \ {run[w].sub} : job'[x] = job[x],
             job'[run[w].sub].st # "active", job'[run[w].sub].stalls = 0,
             FailedJobIsJudged'
      PROVE  CalmInv'
  <2>0. /\ run'[w].pc = "idle" /\ \A v \in Worker \ {w} : run'[v] = run[v]
        /\ run[w].sub \in Submission /\ job[run[w].sub].lock = w
    BY <1>0, <1>3, RunEnds DEF RunOK, CalmRun
  <2>1. ASSUME NEW x \in Submission PROVE CalmJob(x)'
    <3>1. CASE x = run[w].sub
      <4>1. ~Enters(x)
        BY <1>0, <2>0, <3>1 DEF CalmJob, JobOK
      <4> QED
        BY <1>0, <1>3, <3>1, <4>1 DEF CalmJob, Enters
    <3>2. CASE x # run[w].sub
      <4>1. job[x].st = "active" => job[x].lock \in Worker \ {w}
        BY <1>0, <3>2 DEF CalmJob, JobOK
      <4> QED
        BY <1>0, <1>3, <2>0, <3>2, <4>1 DEF CalmJob, Enters
    <3> QED
      BY <3>1, <3>2
  <2>2. ASSUME NEW v \in Worker PROVE CalmRun(v)'
    <3>1. CASE v = w
      BY <2>0, <3>1 DEF CalmRun
    <3>2. CASE v # w
      <4>1. run[v].pc # "idle" => run[v].sub \in Submission /\ run[v].sub # run[w].sub
        BY <1>0, <2>0, <3>2 DEF CalmRun, RunOK
      <4> QED
        BY <1>0, <1>3, <2>0, <3>2, <4>1 DEF CalmRun
    <3> QED
      BY <3>1, <3>2
  <2> QED
    BY <1>0, <1>3, <2>1, <2>2 DEF CalmInv, CalmWatch, Enters
<1>4. CASE CompleteRun(w)
  <2>1. run[w].pc # "idle" /\ run[w].sub \in Submission /\ job[run[w].sub].lock = w
    BY <1>0, <1>4 DEF CompleteRun, RunOK, CalmRun
  <2>2. /\ job' = [job EXCEPT ![run[w].sub] = NoJob] /\ run' = [run EXCEPT ![w] = Idle]
        /\ UNCHANGED <<row, api, handler, watch>>
    BY <1>4, <2>1 DEF CompleteRun, dbVars
  <2>3. /\ \A x \in Submission \ {run[w].sub} : job'[x] = job[x]
        /\ job'[run[w].sub].st = "none" /\ job'[run[w].sub].stalls = 0
    BY <2>1, <2>2, JobRemoved
  <2>4. FailedJobIsJudged'
    BY <1>0, <2>2, <2>3 DEF FailedJobIsJudged
  <2> QED
    BY <1>3, <2>1, <2>2, <2>3, <2>4
<1>5. CASE RunFails(w)
  <2>1. run[w].pc # "idle" /\ run[w].sub \in Submission /\ job[run[w].sub].lock = w
    BY <1>0, <1>5 DEF RunFails, RunOK, CalmRun
  <2>a. PICK s \in Submission : s = run[w].sub
    BY <2>1
  <2>2. /\ FailedAttempt(s, w, FALSE) /\ run' = [run EXCEPT ![w] = Idle]
        /\ UNCHANGED <<row, api, watch>>
    BY <1>5, <2>1, <2>a DEF RunFails, dbVars
  <2>3. /\ job'[s].st \in {"waiting", "failed"} /\ job'[s].stalls = job[s].stalls
        /\ \A x \in Submission \ {s} : job'[x] = job[x]
        /\ \A v \in Worker, x \in Submission : v # w \/ x # s => handler'[v][x] = handler[v][x]
        /\ job'[s].st = "failed" =>
               handler'[w][s] = IF s \in RunOnly THEN "publish" ELSE "finalize"
    <3>1. EndsAttempt(s, w)
      BY <2>2 DEF EndsAttempt
    <3> QED
      BY <3>1, AttemptOver
  <2>4. FailedJobIsJudged'
    <3> SUFFICES ASSUME NEW x \in Submission \ RunOnly, job'[x].st = "failed", row'[x] = "pending"
                 PROVE  \E v \in Worker : handler'[v][x] = "finalize"
      BY DEF FailedJobIsJudged
    <3>1. CASE x = s
      BY <2>3, <3>1
    <3>2. CASE x # s
      <4>1. job[x].st = "failed" /\ row[x] = "pending"
        BY <2>2, <2>3, <3>2
      <4> QED
        BY <1>0, <2>3, <3>2, <4>1 DEF FailedJobIsJudged
    <3> QED
      BY <3>1, <3>2
  <2>5. job'[s].stalls = 0
    BY <1>0, <2>3 DEF CalmJob
  <2> QED
    BY <1>3, <2>1, <2>2, <2>3, <2>4, <2>5, <2>a
<1>6. ASSUME NEW s \in Submission, HandleExhausted(w, s) \/ HandlerPublish(w, s) PROVE CalmInv'
  <2>1. /\ UNCHANGED <<api, job, run, watch>>
        /\ \A v \in Worker, x \in Submission : v # w \/ x # s => handler'[v][x] = handler[v][x]
    BY <1>0, <1>6 DEF HandleExhausted, HandlerPublish
  <2>2. \/ row' = row /\ handler[w][s] = "publish"
        \/ /\ \A x \in Submission \ {s} : row'[x] = row[x]
           /\ row'[s] # "pending" /\ (row[s] = "absent" => row'[s] = "absent")
    <3>1. CASE HandlerPublish(w, s)
      BY <3>1 DEF HandlerPublish, dbVars
    <3>2. CASE HandleExhausted(w, s)
      BY <3>2, RowFinalized DEF HandleExhausted, Verdict
    <3> QED
      BY <1>6, <3>1, <3>2
  <2>3. FailedJobIsJudged'
    <3> SUFFICES ASSUME NEW x \in Submission \ RunOnly, job'[x].st = "failed", row'[x] = "pending"
                 PROVE  \E v \in Worker : handler'[v][x] = "finalize"
      BY DEF FailedJobIsJudged
    <3>1. job[x].st = "failed" /\ row[x] = "pending" /\ (x # s \/ handler[w][s] = "publish")
      BY <2>1, <2>2
    <3>2. PICK v \in Worker : handler[v][x] = "finalize"
      BY <1>0, <3>1 DEF FailedJobIsJudged
    <3> QED
      BY <2>1, <3>1, <3>2
  <2> QED
    BY <1>0, <2>1, <2>2, <2>3 DEF CalmInv, CalmJob, CalmRun, CalmWatch, Enters
<1> QED
  BY <1>1, <1>2, <1>4, <1>5, <1>6 DEF CalmWorker

LEMMA CalmWatchdog ==
    ASSUME WellFormed, CalmInv, WatchdogStep
    PROVE  CalmInv'
<1>0. /\ watch \in WatchType /\ watch.todo \subseteq Submission
      /\ \A x \in Submission : JobOK(x) /\ CalmJob(x)
      /\ \A v \in Worker : RunOK(v) /\ CalmRun(v)
      /\ CalmWatch /\ FailedJobIsJudged /\ Nobody \notin Worker
  BY PipelineAssumption DEF WellFormed, TypeOK, CalmInv, WatchType
<1>1. ASSUME UNCHANGED <<row, api, job, run, handler>>, CalmWatch' PROVE CalmInv'
  BY <1>0, <1>1 DEF CalmInv, CalmJob, CalmRun, FailedJobIsJudged, Enters
<1>2. CASE WatchdogTick
  <2>1. \A s \in Orphans : ~Enters(s)
    BY <1>0 DEF Orphans, CalmJob
  <2>2. watch'.todo = Orphans /\ watch'.pc = "scan" /\ UNCHANGED <<row, api, job, run, handler>>
    BY <1>2 DEF WatchdogTick, dbVars
  <2> QED
    BY <1>1, <2>1, <2>2 DEF CalmWatch, Enters
<1>3. ASSUME NEW s \in Submission, WatchdogLookup(s) PROVE CalmInv'
  <2>1. /\ watch'.todo = watch.todo \ {s} /\ s \in watch.todo
        /\ watch'.pc = "scan" \/ watch'.sub = s
        /\ UNCHANGED <<row, api, job, run, handler>>
    BY <1>0, <1>3 DEF WatchdogLookup, WatchType, dbVars
  <2> QED
    BY <1>0, <1>1, <2>1 DEF CalmWatch, Enters
<1>4. CASE WatchdogReload \/ WatchdogDone
  <2>1. /\ watch'.todo \subseteq watch.todo
        /\ watch'.pc \in {"missing", "adding"} =>
               watch.pc \in {"missing", "adding"} /\ watch'.sub = watch.sub
        /\ UNCHANGED <<row, api, job, run, handler>>
    BY <1>0, <1>4 DEF WatchdogReload, WatchdogDone, WatchType, Resting, dbVars
  <2> QED
    BY <1>0, <1>1, <2>1 DEF CalmWatch, Enters
<1>5. CASE WatchdogAdd
  <2>1. PICK s \in Submission : s = watch.sub /\ ~Enters(s)
    BY <1>0, <1>5 DEF WatchdogAdd, WellFormed, WatchOK, CalmWatch
  <2>2. /\ watch'.todo = watch.todo /\ watch'.pc = "scan"
        /\ job' = Enqueued(s) \/ job' = job
        /\ UNCHANGED <<row, api, run, handler>>
    BY <1>0, <1>5, <2>1 DEF WatchdogAdd, WatchType, dbVars
  <2>3. /\ \A x \in Submission \ {s} : job'[x] = job[x]
        /\ job'[s] = job[s] \/ (job[s].st = "none" /\ job'[s].st = "waiting" /\ job'[s].stalls = 0)
    BY <2>2, JobAdded
  <2>4. ASSUME NEW w \in Worker PROVE CalmRun(w)'
    BY <1>0, <2>2, <2>3 DEF CalmRun, JobOK, RunOK
  <2>5. ASSUME NEW x \in Submission PROVE CalmJob(x)'
    BY <1>0, <2>1, <2>2, <2>3 DEF CalmJob, Enters
  <2>6. FailedJobIsJudged'
    BY <1>0, <2>2, <2>3 DEF FailedJobIsJudged
  <2> QED
    BY <1>0, <2>2, <2>4, <2>5, <2>6 DEF CalmInv, CalmWatch, Enters
<1> QED
  BY <1>2, <1>3, <1>4, <1>5 DEF WatchdogStep

\* Faults are never taken back.
LEMMA FaultsCount == ASSUME WellFormed, [Next]_vars, faults' = 0 PROVE faults = 0
<1>1. faults \in Nat
  BY PipelineAssumption DEF WellFormed, TypeOK
<1>2. faults' = faults \/ Fault
  <2>1. ASSUME NEW s \in Submission, SubmitStep(s) \/ Stall(s) \/ EvictFailed(s)
        PROVE  faults' = faults \/ Fault
    BY SMTT(30), <2>1 DEF SubmitStep, SubmitAdmit, SubmitRefuse, SubmitInsert, SubmitEnqueue,
       SubmitEnqueueFails, SubmitMarkError, SubmitMarkErrorFails, SubmitPrepareFails, Subscribe,
       Stall, EvictFailed
  <2>2. ASSUME NEW w \in Worker, WorkerStep(w) \/ Crash(w) PROVE faults' = faults \/ Fault
    BY <2>2 DEF WorkerStep, Crash, Pick, PickDoomed, RunSandbox, FinalizeRun, PublishRun,
       CompleteRun, RunFails, HandleExhausted, HandlerPublish, HandlerFails, Publish
  <2>3. CASE WatchdogStep \/ ApiCrash
    BY <2>3 DEF WatchdogStep, WatchdogTick, WatchdogReload, WatchdogAdd, WatchdogDone,
       WatchdogLookup, ApiCrash
  <2>4. CASE UNCHANGED vars
    BY <2>4 DEF vars
  <2> QED
    BY <2>1, <2>2, <2>3, <2>4 DEF Next
<1> QED
  BY <1>1, <1>2 DEF Fault

Calm == faults = 0 => CalmInv

LEMMA CalmNext == WellFormed /\ Calm /\ [Next]_vars => Calm'
<1> SUFFICES ASSUME WellFormed, Calm, [Next]_vars, faults' = 0 PROVE CalmInv'
  BY DEF Calm
<1>1. CalmInv /\ faults' = faults
  BY FaultsCount DEF Calm
<1>2. CASE UNCHANGED vars
  BY <1>1, <1>2 DEF vars, dbVars, CalmInv, CalmJob, CalmRun, CalmWatch, FailedJobIsJudged, Enters
<1> QED
  BY <1>1, <1>2, CalmSteps, CalmRequests, CalmWorkers, CalmWatchdog

LEMMA AlwaysCalm == Spec => [](WellFormed /\ Calm)
<1>1. Init => WellFormed /\ Calm
  BY WellFormedInit, CalmInit DEF Calm
<1> QED
  BY <1>1, WellFormedNext, CalmNext, PTL DEF Spec

\* Until something fails, whatever requests, retries and the watchdog do, a failed job is judged
\* or its 'failed' handler is about to judge it: it has failed with its last attempt, the one
\* the handler waits for (attemptsMade >= attempts).
THEOREM FailedJobsAreJudged == Spec => [](faults = 0 => FailedJobIsJudged)
<1>1. Calm => (faults = 0 => FailedJobIsJudged)
  BY DEF Calm, CalmInv
<1> QED
  BY <1>1, AlwaysCalm, PTL

-----------------------------------------------------------------------------
(* Before the first fault, if the watchdog takes no request's row, a submission is     *)
(* finalized by one run or by one handler.                                             *)

OnceRow(s) ==
    /\ s \in RunOnly => row[s] = "absent" /\ api[s] # "admitted"
    /\ api[s] = "inserted" => job[s].st = "none"
    /\ s \notin RunOnly =>
           /\ api[s] = "inserted" \/ job[s].st = "waiting" => row[s] = "pending"
           /\ job[s].st = "failed" => row[s] \in {"pending", "system_error"}
           /\ api[s] = "ended" /\ row[s] = "pending" => job[s].st # "none"

OnceRun(w) ==
    run[w].sub \in Submission \ RunOnly =>
        /\ run[w].pc \in {"picked", "judged"} => row[run[w].sub] = "pending"
        /\ run[w].pc \in {"finalized", "published"} => row[run[w].sub] = run[w].out

OnceHandler(w, s) ==
    s \notin RunOnly =>
        /\ handler[w][s] = "finalize" =>
               /\ row[s] = "pending" /\ job[s].st = "failed"
               /\ \A v \in Worker \ {w} : handler[v][s] # "finalize"
        /\ handler[w][s] = "publish" => row[s] = "system_error"

\* The watchdog finds no job only of a submission that has been judged since its tick.
OnceWatch ==
    /\ watch.pc # "adding"
    /\ watch.pc = "missing" => row[watch.sub] \in Verdict
    /\ \A s \in watch.todo : api[s] = "ended" /\ row[s] \in Verdict \cup {"pending"}

OnceInv ==
    /\ \A s \in Submission : OnceRow(s)
    /\ \A w \in Worker : OnceRun(w)
    /\ \A w \in Worker, s \in Submission : OnceHandler(w, s)
    /\ OnceWatch
    /\ StreamTellsVerdict

LEMMA OnceInit == Init => OnceInv
BY DEF Init, OnceInv, OnceRow, OnceRun, OnceHandler, OnceWatch, StreamTellsVerdict, NoJob, Idle,
       Resting, Verdict

\* What the steps below start from.
LEMMA OnceFacts ==
    ASSUME WellFormed, CalmInv, OnceInv
    PROVE  /\ job \in [Submission -> JobType] /\ row \in [Submission -> Status]
           /\ run \in [Worker -> RunType]
           /\ stream \in [Submission -> {"none", "open"} \cup Verdict]
           /\ api \in [Submission -> {"idle", "admitted", "inserted", "failing", "ended"}]
           /\ handler \in [Worker -> [Submission -> {"none", "finalize", "publish"}]]
           /\ watch.todo \subseteq Submission
           /\ watch.pc \in {"missing", "adding"} => watch.sub \in Submission
           /\ \A x \in Submission : JobOK(x) /\ CalmJob(x) /\ OnceRow(x)
           /\ \A v \in Worker : RunOK(v) /\ CalmRun(v) /\ OnceRun(v)
           /\ \A v \in Worker, x \in Submission : OnceHandler(v, x)
           /\ OnceWatch /\ FailedJobIsJudged /\ StreamTellsVerdict
           /\ Nobody \notin Worker
BY PipelineAssumption DEF WellFormed, TypeOK, CalmInv, OnceInv, WatchOK, WatchType

\* While a job is with a worker no other slot runs it and no handler has it.
LEMMA OneHasIt ==
    ASSUME WellFormed, CalmInv, OnceInv, NEW w \in Worker, run[w].pc # "idle"
    PROVE  /\ run[w].sub \in Submission /\ job[run[w].sub].st = "active"
           /\ \A v \in Worker \ {w} : run[v].pc # "idle" => run[v].sub # run[w].sub
           /\ run[w].sub \notin RunOnly => \A v \in Worker : handler[v][run[w].sub] # "finalize"
<1>1. /\ run[w].sub \in Submission /\ job[run[w].sub].lock = w /\ job[run[w].sub].st = "active"
  BY OnceFacts DEF RunOK, CalmRun, JobOK
<1>2. \A v \in Worker \ {w} : run[v].pc # "idle" => run[v].sub # run[w].sub
  BY <1>1, OnceFacts DEF CalmRun
<1>3. run[w].sub \notin RunOnly => \A v \in Worker : handler[v][run[w].sub] # "finalize"
  BY <1>1, OnceFacts DEF OnceHandler
<1> QED
  BY <1>1, <1>2, <1>3

LEMMA OnceRequests ==
    ASSUME WellFormed, CalmInv, OnceInv, NEW s \in Submission, CalmSubmit(s) \/ EvictFailed(s)
    PROVE  OnceInv'
<1>0. /\ \A x \in Submission : JobOK(x) /\ CalmJob(x) /\ OnceRow(x)
      /\ \A v \in Worker : RunOK(v) /\ CalmRun(v) /\ OnceRun(v)
      /\ \A v \in Worker, x \in Submission : OnceHandler(v, x)
      /\ OnceWatch /\ FailedJobIsJudged /\ StreamTellsVerdict /\ watch.todo \subseteq Submission
      /\ watch.pc \in {"missing", "adding"} => watch.sub \in Submission
      /\ api \in [Submission -> {"idle", "admitted", "inserted", "failing", "ended"}]
      /\ row \in [Submission -> Status]
      /\ stream \in [Submission -> {"none", "open"} \cup Verdict]
  BY OnceFacts
<1>1. CASE SubmitAdmit(s) \/ SubmitRefuse(s)
  <2>1. /\ UNCHANGED <<row, job, run, handler, stream, watch>> /\ api[s] = "idle"
        /\ \A x \in Submission \ {s} : api'[x] = api[x]
        /\ api'[s] \in {"admitted", "inserted", "ended"}
        /\ api'[s] = "inserted" => s \in RunOnly
        /\ api'[s] = "admitted" => s \notin RunOnly
    BY <1>0, <1>1 DEF SubmitAdmit, SubmitRefuse, dbVars
  <2>2. ASSUME NEW x \in Submission PROVE OnceRow(x)'
    BY <1>0, <2>1 DEF OnceRow, CalmJob, Enters
  <2>3. OnceWatch'
    BY <1>0, <2>1 DEF OnceWatch
  <2> QED
    BY <1>0, <2>1, <2>2, <2>3 DEF OnceInv, OnceRun, OnceHandler, StreamTellsVerdict
<1>2. CASE SubmitInsert(s)
  <2>1. /\ UNCHANGED <<results, awards, job, run, handler, stream, watch>> /\ api[s] = "admitted"
        /\ \A x \in Submission \ {s} : api'[x] = api[x] /\ row'[x] = row[x]
        /\ api'[s] = "inserted" /\ row'[s] = "pending"
    BY <1>0, <1>2 DEF SubmitInsert
  <2>2. row[s] = "absent" /\ job[s].st = "none" /\ s \notin RunOnly
    BY <1>0, <2>1 DEF CalmJob, Enters, OnceRow
  <2>3. ASSUME NEW x \in Submission PROVE OnceRow(x)'
    BY <1>0, <2>1, <2>2 DEF OnceRow
  <2>4. ASSUME NEW w \in Worker PROVE OnceRun(w)'
    <3>1. run[w].pc # "idle" => run[w].sub # s
      BY <2>2, OneHasIt
    <3> QED
      BY <1>0, <2>1, <3>1 DEF OnceRun
  <2>5. ASSUME NEW w \in Worker, NEW x \in Submission PROVE OnceHandler(w, x)'
    BY <1>0, <2>1, <2>2 DEF OnceHandler
  <2>6. OnceWatch'
    BY <1>0, <2>1, <2>2 DEF OnceWatch, Verdict
  <2>7. StreamTellsVerdict'
    BY <1>0, <2>1, <2>2 DEF StreamTellsVerdict, Verdict
  <2> QED
    BY <2>3, <2>4, <2>5, <2>6, <2>7 DEF OnceInv
<1>3. CASE SubmitEnqueue(s)
  <2>1. /\ UNCHANGED <<row, run, handler, stream, watch>> /\ api[s] = "inserted"
        /\ job' = Enqueued(s) /\ api'[s] = "ended"
        /\ \A x \in Submission \ {s} : api'[x] = api[x]
    BY <1>0, <1>3 DEF SubmitEnqueue, dbVars
  <2>2. /\ \A x \in Submission \ {s} : job'[x] = job[x]
        /\ job[s].st = "none" /\ job'[s].st = "waiting"
    BY <1>0, <2>1, JobAdded DEF OnceRow
  <2>3. ASSUME NEW x \in Submission PROVE OnceRow(x)'
    BY <1>0, <2>1, <2>2 DEF OnceRow
  <2>4. ASSUME NEW w \in Worker, NEW x \in Submission PROVE OnceHandler(w, x)'
    BY <1>0, <2>1, <2>2 DEF OnceHandler
  <2>5. OnceWatch'
    BY <1>0, <2>1 DEF OnceWatch
  <2> QED
    BY <1>0, <2>1, <2>3, <2>4, <2>5 DEF OnceInv, OnceRun, StreamTellsVerdict
<1>4. CASE Subscribe(s)
  <2>1. /\ UNCHANGED <<row, api, job, run, handler, watch>> /\ stream'[s] = "open"
        /\ \A x \in Submission \ {s} : stream'[x] = stream[x]
    BY <1>0, <1>4 DEF Subscribe, dbVars
  <2>2. StreamTellsVerdict'
    BY <1>0, <2>1 DEF StreamTellsVerdict, Verdict
  <2> QED
    BY <1>0, <2>1, <2>2 DEF OnceInv, OnceRow, OnceRun, OnceHandler, OnceWatch
<1>5. CASE EvictFailed(s)
  <2>1. /\ UNCHANGED <<row, api, run, handler, stream, watch>> /\ job' = [job EXCEPT ![s] = NoJob]
        /\ job[s].st = "failed" /\ \A w \in Worker : handler[w][s] = "none"
    BY <1>5 DEF EvictFailed, dbVars
  <2>2. /\ \A x \in Submission \ {s} : job'[x] = job[x]
        /\ job'[s].st = "none"
    BY <2>1, JobRemoved
  <2>3. s \notin RunOnly => row[s] = "system_error"
    BY <1>0, <2>1 DEF FailedJobIsJudged, OnceRow
  <2>4. ASSUME NEW x \in Submission PROVE OnceRow(x)'
    BY <1>0, <2>1, <2>2, <2>3 DEF OnceRow
  <2>5. ASSUME NEW w \in Worker, NEW x \in Submission PROVE OnceHandler(w, x)'
    BY <1>0, <2>1, <2>2 DEF OnceHandler
  <2> QED
    BY <1>0, <2>1, <2>4, <2>5 DEF OnceInv, OnceRun, OnceWatch, StreamTellsVerdict
<1> QED
  BY <1>1, <1>2, <1>3, <1>4, <1>5 DEF CalmSubmit

LEMMA OnceWorkers ==
    ASSUME WellFormed, CalmInv, OnceInv, NEW w \in Worker, CalmWorker(w), faults' = faults
    PROVE  OnceInv'
<1>0. /\ \A x \in Submission : JobOK(x) /\ CalmJob(x) /\ OnceRow(x)
      /\ \A v \in Worker : RunOK(v) /\ CalmRun(v) /\ OnceRun(v)
      /\ \A v \in Worker, x \in Submission : OnceHandler(v, x)
      /\ OnceWatch /\ FailedJobIsJudged /\ StreamTellsVerdict /\ watch.todo \subseteq Submission
      /\ watch.pc \in {"missing", "adding"} => watch.sub \in Submission
      /\ row \in [Submission -> Status] /\ run \in [Worker -> RunType]
      /\ stream \in [Submission -> {"none", "open"} \cup Verdict]
      /\ handler \in [Worker -> [Submission -> {"none", "finalize", "publish"}]]
  BY OnceFacts
\* A terminal event reaches whoever waits for it.
<1>p. ASSUME NEW s \in Submission, NEW v \in Verdict, Publish(s, v), s \in RunOnly \/ row[s] = v,
             row' = row
      PROVE  StreamTellsVerdict'
  <2>1. ~Fault
    BY DEF Fault, WellFormed, TypeOK
  <2>2. stream' = [stream EXCEPT ![s] = IF @ = "open" THEN v ELSE @]
    BY <1>p, <2>1 DEF Publish
  <2> QED
    BY <1>0, <1>p, <2>2 DEF StreamTellsVerdict
<1>1. ASSUME NEW s \in Submission, Pick(w, s) PROVE OnceInv'
  <2>1. /\ job[s].st = "waiting" /\ job'[s].st = "active"
        /\ \A x \in Submission \ {s} : job'[x] = job[x]
        /\ run'[w].pc = "picked" /\ run'[w].sub = s
        /\ \A v \in Worker \ {w} : run'[v] = run[v]
        /\ UNCHANGED <<row, api, handler, stream, watch>>
    BY <1>1, Picked
  <2>2. ASSUME NEW x \in Submission PROVE OnceRow(x)'
    BY <1>0, <2>1 DEF OnceRow
  <2>3. ASSUME NEW v \in Worker PROVE OnceRun(v)'
    BY <1>0, <2>1 DEF OnceRun, OnceRow
  <2>4. ASSUME NEW v \in Worker, NEW x \in Submission PROVE OnceHandler(v, x)'
    BY <1>0, <2>1 DEF OnceHandler
  <2> QED
    BY <1>0, <2>1, <2>2, <2>3, <2>4 DEF OnceInv, OnceWatch, StreamTellsVerdict
<1>2. CASE RunSandbox(w)
  <2>1. /\ run[w].pc = "picked" /\ run'[w].pc = "judged" /\ run'[w].sub = run[w].sub
        /\ \A v \in Worker \ {w} : run'[v] = run[v]
        /\ UNCHANGED <<row, api, job, handler, stream, watch>>
    <3>1. PICK v \in {"accepted", "rejected"} :
             run' = [run EXCEPT ![w].pc = "judged", ![w].out = v]
      BY <1>2 DEF RunSandbox
    <3>2. run'[w].pc = "judged" /\ run'[w].sub = run[w].sub
          /\ \A u \in Worker \ {w} : run'[u] = run[u]
      BY <1>0, <3>1 DEF RunType
    <3> QED
      BY <1>2, <3>2 DEF RunSandbox, dbVars
  <2>2. ASSUME NEW v \in Worker PROVE OnceRun(v)'
    BY <1>0, <2>1 DEF OnceRun
  <2> QED
    BY <1>0, <2>1, <2>2 DEF OnceInv, OnceRow, OnceHandler, OnceWatch, StreamTellsVerdict
<1>3. CASE FinalizeRun(w)
  <2>0. /\ run[w].pc = "judged" /\ run'[w].pc = "finalized" /\ run'[w].sub = run[w].sub
        /\ run'[w].out = run[w].out /\ \A v \in Worker \ {w} : run'[v] = run[v]
        /\ UNCHANGED <<api, job, handler, stream, watch>>
    BY <1>0, <1>3 DEF FinalizeRun, RunType
  <2>a. PICK s \in Submission : s = run[w].sub
    BY <2>0, OneHasIt
  <2>1. CASE s \in RunOnly
    <3>1. row' = row
      BY <1>3, <2>1, <2>a DEF FinalizeRun, dbVars
    <3>2. ASSUME NEW v \in Worker PROVE OnceRun(v)'
      BY <1>0, <2>0, <2>1, <2>a, <3>1 DEF OnceRun
    <3> QED
      BY <1>0, <2>0, <3>1, <3>2 DEF OnceInv, OnceRow, OnceHandler, OnceWatch, StreamTellsVerdict
  <2>2. CASE s \notin RunOnly
    <3>1. /\ row[s] = "pending" /\ job[s].st = "active"
          /\ \A v \in Worker : handler[v][s] # "finalize"
          /\ \A v \in Worker \ {w} : run[v].pc # "idle" => run[v].sub # s
          /\ run[w].out \in Verdict
      BY <1>0, <2>0, <2>2, <2>a, OneHasIt DEF OnceRun, RunType
    <3>2. row'[s] = run[w].out /\ \A x \in Submission \ {s} : row'[x] = row[x]
      <4>1. Finalize(s, run[w].out)
        BY <1>3, <2>2, <2>a DEF FinalizeRun
      <4> QED
        BY <3>1, <4>1, RowFinalized
    <3>3. ASSUME NEW x \in Submission PROVE OnceRow(x)'
      BY <1>0, <2>0, <2>2, <3>1, <3>2 DEF OnceRow, Verdict
    <3>4. ASSUME NEW v \in Worker PROVE OnceRun(v)'
      BY <1>0, <2>0, <2>2, <2>a, <3>1, <3>2 DEF OnceRun
    <3>5. ASSUME NEW v \in Worker, NEW x \in Submission PROVE OnceHandler(v, x)'
      BY <1>0, <2>0, <2>2, <3>1, <3>2 DEF OnceHandler
    <3>6. OnceWatch'
      BY <1>0, <2>0, <3>1, <3>2 DEF OnceWatch, Verdict
    <3>7. StreamTellsVerdict'
      BY <1>0, <2>0, <3>1, <3>2 DEF StreamTellsVerdict, Verdict
    <3> QED
      BY <3>3, <3>4, <3>5, <3>6, <3>7 DEF OnceInv
  <2> QED
    BY <2>1, <2>2
<1>4. CASE PublishRun(w)
  <2>1. /\ run[w].pc = "finalized" /\ run'[w].pc = "published" /\ run'[w].sub = run[w].sub
        /\ run'[w].out = run[w].out /\ \A v \in Worker \ {w} : run'[v] = run[v]
        /\ UNCHANGED <<row, api, job, handler, watch>>
        /\ Publish(run[w].sub, run[w].out)
    BY <1>0, <1>4 DEF PublishRun, RunType, dbVars
  <2>2. run[w].sub \in Submission /\ run[w].out \in Verdict
    BY <1>0, <2>1, OneHasIt DEF RunType
  <2>3. run[w].sub \in RunOnly \/ row[run[w].sub] = run[w].out
    BY <1>0, <2>1, <2>2 DEF OnceRun
  <2>4. StreamTellsVerdict'
    BY <1>p, <2>1, <2>2, <2>3
  <2>5. ASSUME NEW v \in Worker PROVE OnceRun(v)'
    BY <1>0, <2>1 DEF OnceRun
  <2> QED
    BY <1>0, <2>1, <2>4, <2>5 DEF OnceInv, OnceRow, OnceHandler, OnceWatch
<1>5. CASE CompleteRun(w)
  <2>a. PICK s \in Submission : s = run[w].sub /\ run[w].pc = "published" /\ job[s].lock = w
    BY <1>0, <1>5, OneHasIt DEF CompleteRun, CalmRun
  <2>1. /\ job' = [job EXCEPT ![s] = NoJob] /\ run' = [run EXCEPT ![w] = Idle]
        /\ UNCHANGED <<row, api, handler, stream, watch>>
    BY <1>5, <2>a DEF CompleteRun, dbVars
  <2>2. /\ \A x \in Submission \ {s} : job'[x] = job[x]
        /\ job'[s].st = "none"
        /\ run'[w].sub \notin Submission /\ \A v \in Worker \ {w} : run'[v] = run[v]
    BY <2>1, JobRemoved, RunEnds
  <2>3. s \notin RunOnly => row[s] \in Verdict
    BY <1>0, <2>a DEF OnceRun, RunType
  <2>4. /\ job[s].st = "active"
        /\ s \notin RunOnly => \A v \in Worker : handler[v][s] # "finalize"
    BY <2>a, OneHasIt
  <2>5. ASSUME NEW x \in Submission PROVE OnceRow(x)'
    BY <1>0, <2>1, <2>2, <2>3, <2>4 DEF OnceRow, Verdict
  <2>6. ASSUME NEW v \in Worker PROVE OnceRun(v)'
    BY <1>0, <2>1, <2>2 DEF OnceRun
  <2>7. ASSUME NEW v \in Worker, NEW x \in Submission PROVE OnceHandler(v, x)'
    BY <1>0, <2>1, <2>2, <2>4 DEF OnceHandler
  <2> QED
    BY <1>0, <2>1, <2>5, <2>6, <2>7 DEF OnceInv, OnceWatch, StreamTellsVerdict
<1>6. CASE RunFails(w)
  <2>a. PICK s \in Submission :
           s = run[w].sub /\ run[w].pc \in {"picked", "judged"} /\ job[s].lock = w
    BY <1>0, <1>6, OneHasIt DEF RunFails, CalmRun
  <2>1. /\ EndsAttempt(s, w) /\ run' = [run EXCEPT ![w] = Idle]
        /\ UNCHANGED <<row, api, stream, watch>>
    BY <1>6, <2>a DEF RunFails, dbVars, EndsAttempt
  <2>2. /\ job'[s].st \in {"waiting", "failed"}
        /\ \A x \in Submission \ {s} : job'[x] = job[x]
        /\ \A v \in Worker, x \in Submission : v # w \/ x # s => handler'[v][x] = handler[v][x]
        /\ job'[s].st = "failed" =>
               handler'[w][s] = IF s \in RunOnly THEN "publish" ELSE "finalize"
        /\ job'[s].st = "waiting" => handler'[w][s] = handler[w][s]
    BY <2>1, AttemptOver
  <2>3. run'[w].sub \notin Submission /\ \A v \in Worker \ {w} : run'[v] = run[v]
    BY <2>1, RunEnds
  <2>4. /\ job[s].st = "active" /\ (s \notin RunOnly => row[s] = "pending")
        /\ s \notin RunOnly => \A v \in Worker : handler[v][s] # "finalize"
    BY <1>0, <2>a, OneHasIt DEF OnceRun
  <2>5. ASSUME NEW x \in Submission PROVE OnceRow(x)'
    BY <1>0, <2>1, <2>2, <2>4 DEF OnceRow
  <2>6. ASSUME NEW v \in Worker PROVE OnceRun(v)'
    BY <1>0, <2>1, <2>3 DEF OnceRun
  <2>7. ASSUME NEW v \in Worker, NEW x \in Submission PROVE OnceHandler(v, x)'
    <3>1. CASE x # s
      BY <1>0, <2>1, <2>2, <3>1 DEF OnceHandler
    <3>2. CASE x = s
      <4>1. s \notin RunOnly =>
                /\ row'[s] = "pending"
                /\ \A u \in Worker \ {w} : handler'[u][s] = handler[u][s]
        BY <2>1, <2>2, <2>4
      <4>2. s \notin RunOnly => \A u \in Worker : handler[u][s] = "none"
        BY <1>0, <2>4 DEF OnceHandler
      <4> QED
        BY <2>2, <3>2, <4>1, <4>2 DEF OnceHandler
    <3> QED
      BY <3>1, <3>2
  <2> QED
    BY <1>0, <2>1, <2>5, <2>6, <2>7 DEF OnceInv, OnceWatch, StreamTellsVerdict
<1>7. ASSUME NEW s \in Submission, HandleExhausted(w, s) PROVE OnceInv'
  <2>1. /\ handler[w][s] = "finalize" /\ handler'[w][s] = "publish" /\ Finalize(s, "system_error")
        /\ \A v \in Worker, x \in Submission : v # w \/ x # s => handler'[v][x] = handler[v][x]
        /\ UNCHANGED <<api, job, run, stream, watch>>
    BY <1>0, <1>7 DEF HandleExhausted
  <2>2. /\ \A x \in Submission \ {s} : row'[x] = row[x]
        /\ IF row[s] = "pending" THEN row'[s] = "system_error" ELSE row'[s] = row[s]
    BY <2>1, RowFinalized DEF Verdict
  <2>3. CASE s \in RunOnly
    <3>1. \A x \in Submission : row'[x] = row[x]
      BY <1>0, <2>2, <2>3 DEF OnceRow
    <3>2. ASSUME NEW x \in Submission PROVE OnceRow(x)'
      BY <1>0, <2>1, <3>1 DEF OnceRow
    <3>3. ASSUME NEW v \in Worker PROVE OnceRun(v)'
      BY <1>0, <2>1, <3>1 DEF OnceRun
    <3>4. ASSUME NEW v \in Worker, NEW x \in Submission PROVE OnceHandler(v, x)'
      BY <1>0, <2>1, <2>3, <3>1 DEF OnceHandler
    <3>5. OnceWatch' /\ StreamTellsVerdict'
      BY <1>0, <2>1, <3>1 DEF OnceWatch, StreamTellsVerdict
    <3> QED
      BY <3>2, <3>3, <3>4, <3>5 DEF OnceInv
  <2>4. CASE s \notin RunOnly
    <3>1. /\ row[s] = "pending" /\ row'[s] = "system_error" /\ job[s].st = "failed"
          /\ \A v \in Worker \ {w} : handler[v][s] = "none"
      BY <1>0, <2>1, <2>2, <2>4 DEF OnceHandler
    <3>2. ASSUME NEW x \in Submission PROVE OnceRow(x)'
      BY <1>0, <2>1, <2>2, <2>4, <3>1 DEF OnceRow
    <3>3. ASSUME NEW v \in Worker PROVE OnceRun(v)'
      <4>1. run[v].pc # "idle" => run[v].sub # s
        BY <3>1, OneHasIt
      <4> QED
        BY <1>0, <2>1, <2>2, <4>1 DEF OnceRun, RunType
    <3>4. ASSUME NEW v \in Worker, NEW x \in Submission PROVE OnceHandler(v, x)'
      BY <1>0, <2>1, <2>2, <2>4, <3>1 DEF OnceHandler
    <3>5. OnceWatch'
      BY <1>0, <2>1, <2>2, <3>1 DEF OnceWatch, Verdict
    <3>6. StreamTellsVerdict'
      BY <1>0, <2>1, <2>2, <3>1 DEF StreamTellsVerdict, Verdict
    <3> QED
      BY <3>2, <3>3, <3>4, <3>5, <3>6 DEF OnceInv
  <2> QED
    BY <2>3, <2>4
<1>8. ASSUME NEW s \in Submission, HandlerPublish(w, s) PROVE OnceInv'
  <2>1. /\ handler[w][s] = "publish" /\ handler'[w][s] = "none" /\ Publish(s, "system_error")
        /\ \A v \in Worker, x \in Submission : v # w \/ x # s => handler'[v][x] = handler[v][x]
        /\ UNCHANGED <<row, api, job, run, watch>>
    BY <1>0, <1>8 DEF HandlerPublish, dbVars
  <2>2. StreamTellsVerdict'
    <3>1. s \in RunOnly \/ row[s] = "system_error"
      BY <1>0, <2>1 DEF OnceHandler
    <3> QED
      BY <1>p, <2>1, <3>1 DEF Verdict
  <2>3. ASSUME NEW v \in Worker, NEW x \in Submission PROVE OnceHandler(v, x)'
    BY <1>0, <2>1 DEF OnceHandler
  <2> QED
    BY <1>0, <2>1, <2>2, <2>3 DEF OnceInv, OnceRow, OnceRun, OnceWatch
<1> QED
  BY <1>1, <1>2, <1>3, <1>4, <1>5, <1>6, <1>7, <1>8 DEF CalmWorker

LEMMA OnceWatchdog ==
    ASSUME ~LongRequest, WellFormed, CalmInv, OnceInv, WatchdogStep, faults' = faults
    PROVE  OnceInv'
<1>0. /\ watch \in WatchType /\ watch.todo \subseteq Submission /\ OnceWatch
      /\ \A x \in Submission : OnceRow(x) /\ CalmJob(x)
      /\ row \in [Submission -> Status] /\ ~Fault
  BY OnceFacts DEF WellFormed, TypeOK, Fault
<1>1. ASSUME UNCHANGED <<row, api, job, run, handler, stream>>, OnceWatch' PROVE OnceInv'
  BY <1>1 DEF OnceInv, OnceRow, OnceRun, OnceHandler, StreamTellsVerdict
<1>2. CASE WatchdogTick
  <2>1. \A s \in Orphans : api[s] = "ended" /\ row[s] = "pending"
    BY DEF Orphans
  <2> QED
    BY <1>1, <1>2, <2>1 DEF WatchdogTick, OnceWatch, dbVars
<1>3. ASSUME NEW s \in Submission, WatchdogLookup(s) PROVE OnceInv'
  <2>1. /\ watch'.todo \subseteq watch.todo /\ s \in watch.todo
        /\ UNCHANGED <<row, api, job, run, handler, stream>>
        /\ \/ watch'.pc = "scan"
           \/ watch'.pc = "missing" /\ watch'.sub = s /\ job[s].st = "none"
    BY <1>0, <1>3 DEF WatchdogLookup, WatchType, dbVars
  <2>2. job[s].st = "none" => row[s] \in Verdict
    <3>1. api[s] = "ended" /\ row[s] \in Verdict \cup {"pending"}
      BY <1>0, <2>1 DEF OnceWatch
    <3> QED
      BY <1>0, <3>1 DEF OnceRow
  <2> QED
    BY <1>0, <1>1, <2>1, <2>2 DEF OnceWatch
<1>4. CASE WatchdogReload \/ WatchdogDone
  <2>1. /\ watch'.todo \subseteq watch.todo /\ watch'.pc \in {"idle", "scan"}
        /\ UNCHANGED <<row, api, job, run, handler, stream>>
    BY <1>0, <1>4 DEF WatchdogReload, WatchdogDone, WatchType, Resting, dbVars, OnceWatch, Verdict
  <2> QED
    BY <1>0, <1>1, <2>1 DEF OnceWatch
<1>5. CASE WatchdogAdd
  BY <1>0, <1>5 DEF WatchdogAdd, OnceWatch
<1> QED
  BY <1>2, <1>3, <1>4, <1>5 DEF WatchdogStep

Once == faults = 0 => OnceInv

LEMMA OnceNext ==
    ASSUME ~LongRequest
    PROVE  WellFormed /\ Calm /\ Once /\ [Next]_vars => Once'
<1> SUFFICES ASSUME WellFormed, Calm, Once, [Next]_vars, faults' = 0 PROVE OnceInv'
  BY DEF Once
<1>1. CalmInv /\ OnceInv /\ faults' = faults
  BY FaultsCount DEF Calm, Once
<1>2. CASE UNCHANGED vars
  BY <1>1, <1>2 DEF vars, dbVars, OnceInv, OnceRow, OnceRun, OnceHandler, OnceWatch,
     StreamTellsVerdict
<1> QED
  BY <1>1, <1>2, CalmSteps, OnceRequests, OnceWorkers, OnceWatchdog

\* Until something fails, and as long as no submit request outlives the watchdog's threshold,
\* the terminal status a client's stream is closed with is the one on record: the retries of a
\* job, its handler and the watchdog never make two runs answer for one submission.
THEOREM StreamsTellVerdicts ==
    ASSUME ~LongRequest
    PROVE  Spec => [](faults = 0 => StreamTellsVerdict)
<1>1. Init => WellFormed /\ Calm /\ Once
  BY WellFormedInit, CalmInit, OnceInit DEF Calm, Once
<1>2. Once => (faults = 0 => StreamTellsVerdict)
  BY DEF Once, OnceInv
<1>3. WellFormed /\ Calm /\ Once /\ [Next]_vars => Once'
  BY OnceNext
<1> QED
  BY <1>1, <1>2, <1>3, WellFormedNext, CalmNext, PTL DEF Spec

=============================================================================
