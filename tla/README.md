# A verification of the judge, of exam attempts and of the services around them

This directory holds TLA+ models of the parts of the platform in which several
processes change the same rows, keys or jobs, the TLC runs that check them on small
instances, and proofs of the most important properties for every instance.
`PROJECT.json` lists components, runs, mutants, findings, hazards and theorems, and
names for every definition the lines of the source it stands for.

## 1. Inventory

The platform is an online judge with exams: a TypeScript monorepo with an HTTP API
(`apps/api`), a worker (`apps/worker`), a sandbox that executes programs
(`apps/sandbox`) and shared code (`packages/shared`).  PostgreSQL holds the durable
state, Redis holds the BullMQ queue, pub/sub, the telemetry stream and short-lived keys.

| Component | State it keeps | Operations | What must hold | What makes it hard |
|---|---|---|---|---|
| Submission requests (`submission.service`) | row of `submissions` | `submitCode`, `runCode`, error path of the enqueue | a recorded submission is eventually judged; its verdict is final | the row and the job are in two stores; an enqueue error is ambiguous; the error path writes unconditionally |
| Judge queue (`judge-queue`, BullMQ) | jobs with state, attempts, stalls, lock | `addJob`, `getJobById`, `publish` | one job per submission | errors are reported as "no job"; failed jobs are retained under the same id |
| Worker (`worker.service`) | running jobs, 'failed' handlers in progress | `processJob`, 'failed' handler | a job is removed only when judged; an exhausted job is judged | a stalled job runs twice; processes die between any two steps |
| Finalization (`submission-finalization`) | `submissions`, `result_submissions`, `users.rankingPoint`, `user_item_completions`, `roadmap_progress` | `finalizeSubmissionResult` | one verdict, points once, completions with the verdict | concurrent READ COMMITTED transactions, an advisory lock per (user, problem) |
| Circuit breaker (`worker/grpc`) | circuit, paused worker, statistics | `fire`, `open`, `halfOpen`, `close` | an outage burns few attempts; the circuit recovers | circuit and worker wait for each other |
| Sandbox (`sandbox.service`) and judge utilities (`judge.ts`) | running executions | execute, compile, test; the status of a row and of a submission | capacity comes back; accepted means all tests passed | calls are given up but their executions go on; the status is derived twice, from texts that quote the program |
| Watchdog (`cron/watchdog`) | pass in progress | reconcile orphans | orphans are recovered, nothing judged twice | lookup, reload and requeue are three steps |
| Status stream (`sse.service`, pub/sub) | open streams | subscribe, deliver, close | the last event shown is the recorded verdict; a stream closes | events of a run that was ignored; a verdict before the subscription |
| Problem metadata (`submission-metadata-cache`, `challenge.service`) | promises with expiry, per process | get-or-load, invalidate; the edits of a problem | stale data stays within its time to live | a load in flight when the key is invalidated; two statements per edit |
| Exam access (`exam-access.service`) | participants, entry sessions, participations | access state, start, sync, submit, expire, revoke | attempts within the limit; one attempt in progress; answers are frozen at the end | every handler reads, awaits and then writes unconditionally |
| Exam entry (`exam-access.service`, invites, one-time codes) | participant, invites, opened and eligible sessions, the code in memory | register, add, approve, invite, resolve, send and verify a code, bind, revoke | a session that can be started belongs to a bound account; invited persons open their invite first | every step is a statement of its own; administrators decide in between |
| Merging of participants (`exam-access.service`) | participants and the rows that point to them | `mergeParticipants` | no row is left with a participant that is gone or with somebody else's account | seven statements in no transaction; unique keys; accounts bound meanwhile |
| Exam administration (`exam-access.service`, `exam.service`) | row of `exam`, participants, attempts | create, publish, cancel, archive, edit, delete; register, join | a cancelled exam stays empty; who has joined keeps the attempt and its terms | two services with different checks; every request reads, awaits and writes |
| Legacy exam sessions and auto-submit (`exam.service`) | participations, answers, scores | join, session, sync, submit, leaderboard, timer | answers are frozen at the end; stored score and leaderboard agree | no key on (exam, user); timer ticks overlap requests; two pieces of code score |
| Proctoring telemetry (`proctoring-websocket`, `-redis`, `-telemetry-persister`, `-final-flush`, `-submit-guard`) | tokens and sequences of sockets, a Redis stream with a consumer group, events, summary, receipt | frames, polls, recovery, final flush, the submit's wait | what was acknowledged is kept; the summary catches up | at-least-once delivery, overlapping polls, crashes, a batch that is refused as a whole |
| Proctoring AI jobs (`proctoring-ai-job`, `-llm-summary`, worker) | job table, circuit, results, summaries | claim, run, retry, dead-letter, request | one runner per job; results are told as they came out | select and update are two statements; polls overlap; retries after a half-written result |
| Roadmaps (`roadmap.service`) | items with an order, progress | add, remove, reorder, complete | orders are 1..n | read-then-insert, compaction in another transaction |
| Accounts (`auth.service`) | passwords, refresh tokens, one-time codes, a queue of last-login writes | login, refresh, logout, change and reset | a replaced password ends its sessions; the queue drains | a login hashes between reading and writing; state in memory |
| Proctoring gate, consents, reviews and settings; comments and likes, favorites, leaderboard, notifications, user administration, topics and lessons, middleware, generators, migrations | see `PROJECT.json` | | | left out, with a reason each |

How they interact.  A submit request looks the problem up in its process's metadata cache,
writes a row in PostgreSQL and adds a job with the row's id to the BullMQ queue in Redis.
A worker slot takes the job, calls the sandbox through the circuit breaker (gRPC), derives
the verdict, runs the finalization transaction and publishes the verdict on a Redis channel;
the API instance that holds the client's stream forwards it.  BullMQ calls the worker's
`failed` handler back when an attempt fails.  The watchdog, inside the API process, reads
pending rows and the queue and adds jobs again.  Exam requests, the auto-submit timer and
administrators share rows in PostgreSQL and nothing else: no lock is held from one statement
to the next except where the code opens a transaction.  A proctored client sends frames over
a web socket to a Redis stream; polls of the persisters store them and enqueue AI jobs, which
polls of the worker run; a submit sends a final flush and waits for its receipt.

## 2. Modules

| Module | Models | Used by |
|---|---|---|
| `SubmissionLedger` | what the judge promises: one verdict per submission, points with the first accepted one outside exams | abstract specification of the next two |
| `FinalizeTx` | `finalizeSubmissionResult`, statement by statement, as concurrent READ COMMITTED transactions | `MCFinalizeTx`, `FinalizeTxProofs` |
| `JudgePipeline` | submit request, queue, worker, `failed` handler, watchdog, stream | `MCJudgePipeline`, `JudgePipelineProofs` |
| `SandboxBreaker` | circuit breaker and the worker it pauses | `BreakerProbe.cfg`, `MCServices`, `ServiceProofs` |
| `SandboxRun` | executions in the sandbox, the calls that wait for them, and the verdict of what they leave behind | `MCServices`, `ServiceProofs` |
| `ProblemMetadata` | the cache of each API process, loads and the edits of a problem | `MCRequests`, `RequestProofs` |
| `ExamAttempt` | one participant's sessions and attempts, the timer, the administrators | `MCExamAttempt`, `ExamAttemptProofs` |
| `ExamEntry` | one person's way to an entry session: registration, invites, codes | `MCRequests`, `ExamEntryProofs` |
| `ExamMerge` | merging of participants over the rows it moves | `MCRequests`, `RequestProofs` |
| `LegacyExam` | the exam endpoints that know no participants, with scores and leaderboard | `MCServices`, `ServiceProofs` |
| `ExamLifecycle` | one exam from creation to archive or deletion, edited on both kinds of endpoints while candidates register and join | `MCRequests`, `RequestProofs` |
| `TelemetrySocket` | batches of frames on one web socket | `MCServices`, `ProctoringProofs` |
| `TelemetryStream` | stream, persisters, final flush, submit guard, summary | `MCServices`, `ProctoringProofs` |
| `ProctoringAiJobs` | job table, polls, circuit, explanations, LLM summaries | `MCServices`, `ProctoringProofs` |
| `RoadmapItems` | adding, removing and reordering the items of a roadmap | `RoadmapAdds.cfg`, `MCServices`, `ServiceProofs` |
| `AccountSessions` | logins, tokens, changes of passwords, the last-login queue | `MCRequests`, `RequestProofs` |

`NumberFacts` holds no model: it proves that a set of natural numbers has a least element, and a
bounded one a greatest, which the proofs about summaries, reorders and scores need.

The `MC` modules name constants and symmetry sets; each `.cfg` is one instance.
`MCServices` and `MCRequests` put modules that share no state beside one another: a behaviour
moves one of them, which `under` names, so a run checks the sum of their states and not the
product.  Services with liveness and their neighbours are in the first; in the second are five
whose requests race with one another only.
The same promise, `SubmissionLedger`, is implemented twice: `FinalizeTx` shows that the
transaction is atomic to everyone outside, and `JudgePipeline`, which may therefore take
it as one step (`Finalize`), shows that nothing around it breaks the promise.

### State and code

**SubmissionLedger.** `verdict` is `submissions.status`; the five judged statuses other
than ACCEPTED and SYSTEM_ERROR are one value `rejected`, for nothing in the pipeline tells
them apart, and RUNNING is written by nobody.  `awards[k]` counts how often the points of
the (user, problem) pair `k` were added to `users.rankingPoint`.

**FinalizeTx.** `verdict`, `awards`, `completed` and `progress` are the committed tables.
`tx[t]` is what session `t`'s transaction holds in memory, `pairLock` the advisory lock,
`rowLock` and `progLock` the row locks.  A statement that waits is an action whose guard
asks for the lock; writes become visible in `Commit`, together, which also releases the
locks; `Abort` may happen instead at any point.  Reads see committed rows.  Roadmap items
are identified with the pair they come from, points with units of the problem's total.

**JudgePipeline.** `row`, `results`, `awards` are the database; `api[s]` where the request
for `s` is; `job[s]` the BullMQ job with its state, `attemptsMade`, stall count and lock
holder; `run[w]` what slot `w` executes, which may be a job it no longer holds;
`handler[w][s]` the asynchronous `failed` handler; `stream[s]` the client's stream; `watch`
the watchdog's pass with the row it is working on.  The actions follow the awaits: each
action is the code from one await to the next.  RUN_CODE jobs (`RunOnly`) have no row.
`waiting` stands for waiting, delayed and prioritized.  What BullMQ itself does (`Pick`,
`PickDoomed`, `Stall`, `EvictFailed`) is external and modelled as the worker and the queue
wrapper rely on it: add with an existing id keeps the job, a lock that expires sends the
job back, a job that stalled more than `maxStalledCount` times fails when it is picked.

**SandboxBreaker.** `circuit`, `paused` and `blocked` (a fetch already waiting when the
worker was paused) against slots and jobs; `fires` and `fails` are opossum's window, capped
at `volumeThreshold`.  Time appears only in orders the constants of the code fix: the call
timeout and `resetTimeout` are both 30 s, so calls in flight when the circuit opens have
ended when it half-opens.

**SandboxRun.** `exec[e]` is one call of `executeCode` with the rows of its tests and the
verdict made of them, `activeJobs` the map whose size the sandbox compares with its limit,
`call[w]` the execution slot `w` waits for; a slot that gives up leaves the execution without
a caller.  A row is what the test run came to and which of the words the classification looks
for the quoted output contains; `determineTestCaseStatus` and `determineFinalStatus` are
applied twice, as in the code: by the sandbox, and by the worker to the text that arrived,
from which truncation may have taken any of the program's words.

**ProblemMetadata.** `problem` and `testcases` say which edit each table is from, for an edit
writes them in two statements; `cache[i]` is the entry of process `i`, which holds a promise,
that is the load of some request and when it expires; `load[q]` the load request `q` began and
what it read.  `query[q].due` is history: the last edit the request has to know of.

**ExamAttempt.** `sess` and `att` are the participant's rows, oldest first; `access` and
`approved` the participant row; `req[t]` a request in flight with what it has read: between
two awaits it acts on that copy, as the code does, and its writes are by id alone wherever
the code's are.  `tick[k]` is a timer pass about to end an attempt; passes overlap because
`setInterval` does not wait.  `late`, `inTime`, `from` and `acked` are what time and history
the properties need.  `Drop` ends a request anywhere: a check that refuses, a failed
statement or a dead process.

**ExamEntry.** `part` is the row of `exam_participants` (`source` decides whether the invite
flow applies; the exam is of hybrid access mode, where both kinds occur), `inv` and `sess`
the rows of invites and entry sessions, oldest first, `otp` whether the process's `otpStore`
has a code for the person, `account` its row of `users`.  The account of the person's email is
unique, so binding is a flag.  `req[t]` is a request in flight, of the person or of an
administrator, between two awaits; `via` is how the person proves who it is.  The endpoints
share the tail `Bind`, `VerifyRead`, `VerifyWrite` (`ensureVerifiedEntrySession`), as in the
code.  `Start` is what `ExamAttempt` models in full.

**ExamMerge.** `userId` and `merged` are columns of `exam_participants`, `rows` the invites,
sessions and attempts with the participant they are with and, for attempts, the account;
`merge[m]` is a request between two statements with the two rows it read at the start.  An
account is bound by its address, so the account of participant `p`'s address is called `p`;
the unique key on (exam, account) is a guard of the statement it makes fail.

**LegacyExam.** `tries` and `subs` are the user's attempts and submissions, oldest first, with
the score an attempt was given; `visit[t]` a request between two awaits; `ending` the attempt
the timer is about to end.  Answers are reduced to the time stamp `syncSession` compares.
For each problem `calculateExamScore` picks the latest submission linked to the attempt, over
the latest one made while it ran, and counts what has passed two statements later;
`getExamLeaderboard` asks for the same in other words.  Each problem has one point.

**ExamLifecycle.** `exam` is the row with its status, visibility and terms, and whether an audit
log refers to it, which is what the foreign keys make a deletion fail on; `admin[r]` is a request
between two awaits with its input, `candidate[c]` one of a candidate, with the terms it read.
The terms stand for all the legacy edit refuses to change once there are attempts (duration,
dates, number of attempts, challenges) and are known by the day they end on.  The conditional
updates (`publishIfDraft`, `cancelIfPublishedWithoutParticipants`, `ArchiveWrites`) are one
step; all other writes are by id alone.  `late` and `excused` are history.

**TelemetrySocket.** `seen` and `handler` are a session's `seenSequences` and the messages
being handled, frame by frame with an append awaited at each; `streamed` what reached Redis.

**TelemetryStream.** `stream`, `read` and `pending` are the Redis stream and its consumer
group; `events`, `summary` and `receipt` the tables; `pass[p]` a poll, first over old entries
(`XAUTOCLAIM`), then over new ones, with its batch; `guard` the submit's wait, after which it
recomputes the summary itself.  The summary is the set of events it was computed from.

**ProctoringAiJobs.** `job` is the table by job key with status and attempts; `poll[p]` a poll
of the worker between two statements; `failures` and `open` the in-memory circuit; `result`,
`row` and `jobRow` the anomaly result's explanation, the LLM summaries and the one the job's
payload names.  The result followed is the row of this window under one version of the model.
The answers of the AI server name the row they are for: a prediction named elsewhere leaves the
followed row alone, an explanation named elsewhere updates nothing of it and its job is
completed all the same (`persistExplanation`).  `missed` is history: the row does not show what
its explanation job did last.  `resolveStaleExplanations` runs in polls the open circuit does
not turn away, and gives up what has been pending for an hour.

**RoadmapItems.** `order[i]` is the column of item `i`, 0 if the row is not there; `edit[e]` a
request with the orders it is about to write, worked out from rows read before.

**AccountSessions.** `password[u]` counts changes, so a token is as old as the password its
login compared (`login[l].read`); `token[l]` is the one token login `l` makes.  The last-login
queue is a set of users with a number of writes under way and whether a drain is scheduled.

## 3. Runs

All runs finish within three minutes on two TLC workers.

| Run | Instance | Checks | What it shows |
|---|---|---|---|
| `judge_stalls` | 2 submissions of one pair, 2 slots, 2 attempts, 1 stall allowed, backlog 1, 1 fault | `ResultsMatchVerdict`, `ImplementsLedger` | runs of one job by two slots, crashes, requeues of a live job, and the database still moves only as the ledger allows |
| `judge_kinds` | practice, exam and run-code submission, 2 slots, no fault | `FailedJobIsJudged`, `StreamTellsVerdict` | attempts and handler agree; a stream tells the recorded verdict |
| `judge_live` | 2 submissions, 1 slot, 1 fault, ambiguous enqueue errors, fair | `VerdictFallsOnlyToError`, `PendingIsJudgedOrParked`, `SubscriberIsTold` | what an ambiguous error can cost, that every row is judged or parked, and that streams close |
| `finalize_concurrent` | 2 sessions, 4 submissions (3 of one pair, one of these in an exam), 1 roadmap | `RoadmapShowsAccepted`, `ImplementsLedger` | the transaction is atomic; points once |
| `breaker_probe` | 2 slots, 2 jobs, 1 outage, fair | `HalfOpenTriesSandbox` violated | finding 1 |
| `exam_serial_access` | 2 tabs, one of which asks for the access state, 2 attempts, 3 sessions | `SessionStartsOneAttempt`, `AttemptsWithinLimit`, `OneAttemptInProgress` | racing starts respect the limit |
| `exam_one_tab` | 1 tab, 2 timer passes, 2 answers, 1 decision, fair | `LockedKeepsConfirmed`, `OnTimeSubmissionStands`, `EveryAttemptEnds` | confirmed answers are locked in; in-time submissions stand; the timer ends attempts |
| `exam_two_sessions` | 2 tabs, both ask for the access state | `AttemptsWithinLimit` violated | finding 2 |
| `exam_archived` | 1 tab, 1 pass, archiving allowed, fair | `EveryAttemptEnds` violated | finding 3 |
| `requests` | five modules, seven instances, below | nine properties, below | no race of requests undoes what one of them was promised |
| `roadmap_adds` | 2 items, 2 editors | `OrdersAreDistinct` violated | finding 4 |
| `services` | seven modules, twelve instances, below | sixteen properties, below | each service keeps what it promises in any interleaving of its own |

The instances of `services`, by the value of `under`.  `TypeOK` holds of whichever moves; the
types of all components, those of `requests` included, are proved (section 5).

| `under` | Module and instance | Checks |
|---|---|---|
| `socket` | `TelemetrySocket`: 2 frames, 2 handlers, 1 failed append | `AckedIsStreamed` |
| `polls`, `submit`, `refused` | `TelemetryStream`: 2 entries, batches of 2, 1 fault; two polls; one poll with flush and submit; one poll with events the table refuses | `DeliveredIsKept`, `StreamedIsStored`, `SummaryCatchesUp` |
| `predictions`, `summaries` | `ProctoringAiJobs`: 2 polls, 2 attempts, threshold 2, 2 requests, 1 crash; a telemetry window, or summaries | `JobHasOneRunner`, `ExplanationIsTold`, `PendingSummaryHasJob`, `JobsSettle`, `ExplanationsEnd` |
| `roadmap` | `RoadmapItems`: 3 items, 2 editors, orders up to 3 | `GapMeansRace` |
| `breaker` | `SandboxBreaker`: 2 slots, 2 jobs, 2 attempts, 2 outages or restarts | `OpenCircuitSparesAttempts` |
| `capacity` | `SandboxRun`: 3 executions, 2 slots, room for 2, all tests pass | `RefusalMeansAbandoned` |
| `verdicts` | `SandboxRun`: 1 execution, 2 tests, three words | `VerdictFits` |
| `answers`, `scores` | `LegacyExam`: 2 tabs, 2 attempts, 2 submissions of 1 problem; answers without programs, or programs without answers | `EndedKeepsAnswers`, `ScoreMatchesBoard` |

The instances of `requests`:

| `under` | Module and instance | Checks |
|---|---|---|
| `entry` | `ExamEntry`: 2 requests of the person, 1 of an administrator, 2 invites, 2 sessions, 3 decisions | `InviteFlowNeedsInvite`, `UsedInviteOpensDoor`, `OneWorkingLink` |
| `merge` | `ExamMerge`: 3 participants, 2 merges | `MergeLosesNothing` |
| `closing`, `terms` | `ExamLifecycle`: 2 requests, 2 candidates, 2 days; status and participants, or edits, deletions and attempts | `CancelledStaysEmpty`, `JoinedKeepsTerms` |
| `expiry` | `ProblemMetadata`: 2 processes, 2 requests, 1 edit (by `p1`: the processes are alike), a time to live of 1 tick | `EditIsSeen` |
| `passwords` | `AccountSessions`: 1 account, a login, a Google login, a change and a reset | `OldSessionsEnd` |
| `audits` | `AccountSessions`: 3 accounts, concurrency 1, room for 2 | `AuditsMove` |

### Bounds, and why they are enough

* Two submissions of one pair are the smallest case in which the second must not earn the
  points again, two slots the smallest in which a stalled job runs twice; the third
  submission of `finalize_concurrent` is on another problem, so the advisory locks do not
  meet and the roadmap row does, and the fourth, in an exam, competes for nothing.
* `MaxAttempts` is 2, not the code's 3: one attempt that is retried and one that exhausts
  the job.  `MaxBacklog` is 1 so that the second submission finds the queue full.
* One fault per behaviour (`MaxFaults`): each fault the code handles, at every point.  Two
  faults together are covered by the proofs, which bound nothing.
* Three sessions and two attempts: the limit is reached, and a session is left over to
  exceed it with.  `MaxSessions` stands for nothing in the code; a request that would need
  another session can only be dropped.
* `exam_one_tab` has one tab because `LockedKeepsConfirmed` and `OnTimeSubmissionStands`
  promise something to a client that waits for its answers; with two tabs both fail (a sync
  in flight when the attempt is submitted still writes its answers, by id alone).
* `entry`: two requests are the smallest race, one administrator because `OneWorkingLink`
  holds for one at a time (two that resend at once leave two links).  Three decisions are
  enough to add or approve, invite, and invite again or revoke; two invites and two sessions
  let a session be resumed with the other invite or added behind a linked one.
* `services` and `requests`, their cuts.  Where a module holds two concerns that only their product makes
  large, an instance moves one: events the table refuses meet one poll and no submit;
  predictions meet no summaries; programs meet no syncs.  A second poll stands for another
  persister as for the same one's timer, so `polls` has two and `submit` and `refused` one.
  Requests that are alike start in one order (`q1`, `m1` first), which leaves out mirror images
  only.  A merge is followed until another request overtakes it, since `MergeLosesNothing`
  says nothing afterwards; one that stops is followed on, with the merges begun after it, as
  the property is about what it leaves.  Invites move like sessions and are left out.
  `scores` has one attempt, joined from one tab and with programs from the other, and leaves
  out the timer, which scores nothing, and requests that stop, which change nothing.
  `closing` keeps the terms, which no participant depends on, and `terms` has no participants,
  which no edit looks at, and no visibility.  Two candidates are one whom a request saw and one it
  did not.
* `services` and `requests`, their numbers.  Two entries with batches of two let a refused event poison its
  batch and a redelivered entry meet a new one.  One edit is enough to be missed by an entry
  made before or during it, and a clock of one tick to let that entry expire.  Three
  executions in room for two: two abandoned and one refused.  Two tests suffice for two
  failures of which one is graver.
* Symmetry: slots, sessions of the database and, in the breaker, jobs are interchangeable
  everywhere.  In `FinalizeTx` two of the submissions of one pair are too.  No run that
  checks liveness uses symmetry.
* Deadlock is not checked where the system may stop: once every submission was made and
  judged, or every session was used, nothing is left to do.  `FinalizeTx` can always begin
  another transaction, so there deadlock is checked.

### Fairness

* `JudgePipeline!FairSpec`: a request that has been admitted goes on (its process runs), a
  busy slot goes on, the `failed` handler goes on, an expired lock is noticed (BullMQ's
  stalled checker is a timer), the watchdog keeps its interval.  `Pick` has strong fairness:
  the queue is FIFO, and a slot that keeps becoming free takes a given waiting job in the end.
  Submitting, faults and eviction of failed jobs are under no fairness: nobody owes them.
* `SandboxBreaker!FairSpec`: slots, the timers of opossum and the fetch timeout; the sandbox
  comes back.  A restart is not owed, which is the point of finding 1.
* `ExamAttempt!FairSpec`: the exam's end date passes, and the timer keeps its interval.  No
  request need end and no participant need act.
* `MCServices!Spec`: the timers of persisters and worker start polls while their process
  lives, and calls of the database, of Redis and of the AI server end with an answer or an
  error.  That a given pending entry is claimed in the end is strong fairness, entry by entry:
  it is claimable only between polls, and `XAUTOCLAIM` starts at the oldest, so no entry is
  passed over for ever.  The AI worker's circuit is open until a time that passes.  The sweep
  of stale explanations is owed once predictions are no longer run again: every twelfth poll
  that the circuit lets begin makes one, and a prediction has finitely many attempts and
  crashes, so an explanation still pending then ages until a sweep finds it.

## 4. Findings

1. `breaker_probe`: opening the circuit pauses the worker, only closing it resumes it, and a
   half-open circuit closes only on a call, which only a job makes.  The first outage that
   opens the circuit stops judging until the process is restarted.
2. `exam_two_sessions`: two access-state requests at once create two sessions, and a start
   from each passes the count of attempts.
3. `exam_archived`: an exam can be archived as soon as it has ended; the timer scans
   published exams only, so an attempt in progress then stays so.
4. `roadmap_adds`: the comment in `addItemToRoadmap` (`roadmap.service.ts:187`) says that the
   order it takes prevents conflicts of concurrent requests; the highest order is read in one
   statement and the item inserted in another (lines 188 to 191), so two items get one order.

More things the models show, or that were met while modelling.  None contradicts what the
repository says of itself, except where a comment is quoted.

*Judge.*  After a stall the second run of a job publishes its verdict although its
finalization was ignored, so `StreamTellsVerdict` holds only without faults.  A submission
whose exhausted job's handler could not write the verdict stays pending while BullMQ retains
the failed job, because the watchdog finds that job: `PendingIsJudgedOrParked` says no more
than that.  Two problems of one roadmap accepted at the same time: each transaction reads the
progress row without a lock and writes back the list it read, so one item may be missing from
`roadmap_progress`, which `getCompletionStats` counts (`roadmapProgress.repository.ts:101`;
compare the comment at `roadmap.service.ts:79`); `RoadmapShowsAccepted` shows what saves the
reader, `user_item_completions` has both.  A program killed by the `timeout` inside the jail
leaves no envelope and is judged `runtime_error`; `time_limit_exceeded` comes only from a
process killed from outside.  An nsjail that cannot be started is judged `wrong_answer`.  A
compiler's message that mentions memory or a timeout changes the verdict, and so may any
output that is quoted in an error; a truncated text can make worker and sandbox differ.  What
`VerdictFits` leaves is that none of this makes a failed submission accepted.

*Problems.*  A submission admitted between an edit's check for submissions and its writes is
judged by the old tests.  `deleteChallenge` deletes solution, test cases and problem in three
statements; one that fails after the first leaves a problem that can be deleted no more,
because the next try finds no solution to delete.

*Exams.*  A sync that overtakes a submit changes the answers of a submitted attempt, though
not the locked snapshot.  A submit or a verified code makes the access eligible or completed
again if an administrator revoked it after the participant was read.  A proctored start whose
session record fails to be inserted leaves an attempt that is resumed with no gate and no
record (`exam-access.service.ts:1575`).  A merge of a bound source into an unbound target
always fails at the unique key, after it has handed its rows over; two merges that cross make
both participants vanish.  The legacy session endpoint inserts an attempt and then updates it
by id without a condition (`exam.service.ts:178`), which can reopen one that has ended
meanwhile; a program submitted or judged after an attempt has been scored still counts on the
leaderboard, and not in the stored score.

`updateAdminExam` changes duration, dates, attempts and challenges of an exam people have joined,
which the legacy edit refuses, and both write by id what they compared before: a legacy edit of
the title can put back terms an administrator has just changed.  An exam that was created through
the administration can never be deleted, since its audit log refers to it; one whose log was not
written can, with the attempts made since the deletion looked for some.  A legacy edit shows an
exam whatever its status.

*Proctoring.*  A frame is remembered as seen before it is appended: if the append fails, what
the client sends again is dropped as a duplicate.  A receipt says `persisted` after the first
batch, and `upsertReceipt` takes it back when the flush is retried.  The submit's summary
throws where a session has no events, so that submit fails.  One event the table refuses holds
up its batch for ever.  The attempts a claim writes are those its select read, so a failure in
between is not counted; a prediction that is retried resets the explanation it already asked for, and an explanation
answered for another window or version completes its job and changes nothing, both of which
leave the result pending until the sweep declares it failed; a
second request for a summary that failed has a row and no job; jobs left `running` by a
dead worker are never taken up (`JobsSettle` excepts them).  The worker of data requests is
wired to nothing.  `activateDefault` clears the default of the versions its statement saw, so
of three activations at once two may end as default; `registerAndActivateSummaryModel` does not
look at the type of a version that exists; a bypass code issued without an entry session
verifies and opens nothing; a consent without a participation cannot be withdrawn.

*Accounts.*  `refreshToken` does not rotate; `loginWithGoogle` does not look at the status; a
wrong code uses up the one that was sent, and a reset that ends deletes a code sent meanwhile;
`cleanupExpiredTokens` is called by nobody; an administrator who sets a password through
`updateUser` revokes no token.  The counter of likes drifts: row and counter are written in
two statements (`commentLike.service.ts:35` speaks of one).

## 5. Proofs

Eight modules hold theorems, checked with TLAPS for every value of the constants that
satisfies the named assumptions.

* `FinalizeTxProofs` (assumption: `TxAssumption`, the types of the constants).
  `FinalizeTypeOK`; `FinalizeImplementsLedger`; `RoadmapAlwaysShows`; `ProgressAlwaysEarned`;
  `LedgerAwardsOnce` and `FinalizeAwardsOnce`.  The refinement needs `LockInv`: a session
  past the advisory lock holds it, one past the update holds the row lock and the row is still
  pending; and `pts`, the answer of the check, is still what the committed rows say, since
  whoever could change it needs the lock.  That last conjunct is why the award and the check
  are atomic.  The roadmap properties need `RoadmapInv`: what a transaction saw in the
  progress rows was completed, and stays so.  That the ledger pays once is proved of the
  ledger alone (`LedgerInv`: an award and an accepted row come together) and carried over by
  the refinement.
* `JudgePipelineProofs` (assumption `PipelineAssumption`).  Types need `WellFormed`: a job is
  locked exactly while it is active, and one that may still run has an attempt left
  (`PipelineTypeOK`).  `VerdictsFallOnlyToError` needs `NoRowYet`: before its insert a
  submission has no row.  `PipelineImplementsLedger`, `ResultsAlwaysMatch` and
  `JobsLeaveJudged` also assume `Trusted`: enqueue errors are unambiguous and no request
  outlives the watchdog's threshold.  They need `SafeInv`: until its request has ended a
  submission is touched by no job, run, handler or watchdog pass, and while the request is on
  its error path the row is pending, which is what makes the unconditional `updateStatus`
  harmless and what either half of `Trusted` failing takes away (`RequestFirst`); a run past
  its finalization has left a verdict on record (`RunJudged`).
  `FailedJobsAreJudged` and `StreamsTellVerdicts` speak of behaviours up to their first fault
  (`faults = 0 => ...`), because both properties fail after one.  The first trusts nothing:
  `CalmInv` says that an active job and the run of its lock's holder name each other, so no job
  stalls, the attempt that exhausts a job is the one its handler counts, and a submission has
  neither row nor job before its request inserts the row.  The second assumes that no request
  outlives the watchdog's threshold.  `OnceInv` follows a submission: pending until one run
  finalizes it, from then on with the verdict that run publishes, or pending until the one
  handler of its failed job has written; the watchdog finds no job only of a submission that
  has been judged since its tick (`OnceWatch`), so it never adds a job beside a run.
* `ExamAttemptProofs` (assumption `AttemptAssumption`).  `ExamTypeOK` needs an invariant
  beyond types, `IInv`: every index a session, a request or a timer pass remembers is that of
  an existing row (rows are never deleted), and no session made two attempts, so that there
  are no more attempts than sessions.  `SessionsStartOnce`: once a session has made an attempt
  it is linked, to that attempt or another, and never unlinked, so the transaction's
  condition on the link does not hold a second time.
  `AttemptLimitHolds` and `AttemptsOneAtATime`, for any number of tabs, sessions and attempts,
  assume `SerialAccess`: requests for the access state do not overlap.  `SerialInv` says that
  every session but the latest is linked or expired (`OlderClosed`), that an access request
  under way would resume the latest or add one behind closed ones (`ResumesLatest`), and that
  what a start on the latest, unlinked session has checked is still so (`StartsFree`): no
  attempt is in progress and the limit is not reached.  So the transaction's own condition on
  the session decides, among racing starts, for one.
  `ConfirmedStaysLocked` and `SubmissionsStand` assume `OneTab`, one request in flight at a
  time; timer passes, clock and administrators move as they like.  `OneTabInv` says that what
  is confirmed is on record, and in the answers a request has read (`HoldsFit`): the request
  need not fear the timer, which ends an attempt but neither locks it nor touches its answers.
  A timer pass holds only an attempt whose time is over, so one submitted in time is held by
  none (`TicksFit`), and what a late sync ends is not submitted.
* `ExamEntryProofs` (assumption `EntryAssumption`; for `OneLinkWorks` also `OneAdmin`:
  administrators' requests do not overlap).  `EntryTypes`, `EligibleAlwaysBound`,
  `InviteAlwaysOpened`, `UsedInviteAlwaysOpens`, `OneLinkWorks`.  `IInv` says what a request
  relies on at each of its awaits (`Fits`): past the binding the participant is bound, on the
  way through an invite that invite is opened, and where an invite is needed the request has
  one.  It survives the steps of everyone else because of what no step takes back (`Grows`:
  the source of the participant, the binding, opened invites, sessions that were made
  eligible), and before there is a participant nothing relies on it (`NothingBefore`).
  `OneLinkWorks` adds that between revoking and creating every invite is dead (`LinkInv`).
* `RequestProofs` (the assumptions of its four modules), for components whose statements race
  only with those of other requests.
  `MergesLoseNothing` from `~overtaken => Undisturbed`: while nobody overtakes a merge, rows are
  with participants that exist, each merge finds what it read, merges under way touch different
  participants, and an attempt that is not with its account's participant has been handed over
  by a merge, under way or stopped, whose source has that account still (`HandedOver`).  A
  merge with a bound source and an unbound target always stops there: the theorem says that
  what it leaves can be found again, not that it ends.  `OldSessionsAlwaysEnd` and `AuditsAlwaysMove` from `AccountIInv`: a token or a
  login under way that is older than the password either overlapped a revocation or is
  `Replaced` by a change that has yet to revoke.  `CancelledAlwaysEmpty` from `LateInv`: since a
  cancellation the exam is published no more, so who is registering is late.
  `JoinedAlwaysKeepTerms` from `TermsInv`: a legacy edit about to write has the terms of the
  exam, or everyone it saw is excused by now (`EditFits`), for whatever changed the terms after
  it had compared them excused them too.  `EditsAreSeen` and `FailuresAreForgotten` from
  `TablesFollow`: each table is as new as every edit that has come to its end, and only the
  edit under way may be ahead; `EntriesFresh`: a cache entry that has not expired has a load
  that read, or will read, no less than what its process knew when the entry was made; and
  `QueriesFresh`, the same of what a request joined.  The proof turns on an edit that ends
  dropping the entry of its own process also while its load is under way.  Types:
  `MergeKeepsTypes`, `AccountTypes`, `LifecycleTypes`, `MetadataTypes`.
* `ProctoringProofs` (the assumptions of its three modules).
  `OnlyRefusedFramesAreLost` from `Covered`: a frame seen is in the stream, about to be appended
  or among those whose append failed, which the code does acknowledge when they are sent again.
  `DeliveredAlwaysKept` from `TelemetryIInv`: an entry is
  acknowledged only by a poll whose batch is parsed and inserted, or after it has been put in
  the dead-letter stream (`BatchFits`); that survives other polls, claims and deaths of the
  process because the stream, its events and the dead letters only grow (`StreamGrows`).
  `JobsHaveOneRunner`, `ExplanationsAreTold` and `PendingSummariesHaveJobs` from `AiJobsIInv`:
  as in `ExamEntryProofs`, what a poll relies on at each step (`Fits`) survives the others
  because of what no step takes back (`Grows`); `JobsFit` relates the tables to one another.
  `ExplanationsAreTold` has two exceptions, collected in `missed`: the mark of the explanation
  job was replaced by a prediction that ran again, or its last answer named another row.  What
  becomes of the result in those cases is liveness, `ExplanationsEnd`.
  Types: `SocketTypes`, `TelemetryTypes`, `AiJobsTypes`; the last bounds the attempts counted
  for a job, not its runs, for a claim may write an older count.
* `ServiceProofs` (the assumptions of its four modules, and those of `ProctoringProofs`).
  `OutageCostsFewAttempts` from `BreakerIInv`: while the circuit is open, the calls rejected,
  the slots still busy and a blocked fetch together are fewer than the slots, for the one whose
  call opened the circuit is free.  `RefusedBehindAbandoned` from `Held` (an execution in the
  map is waited for or abandoned, and no two slots wait for one), by counting: if none were
  abandoned the map would map injectively into the slots but the idle one.  `VerdictsFit` from
  `Judged`, with `VerdictOfRows` and `GravestIsOne` about the derivation.
  `GapsAlwaysMeanRaces` from `RoadmapIInv`, which says what an edit's plan is worth as long as
  it is not stale: an addition comes first or behind a row that is there (`AddFits`), a
  renumbering leaves no gap (`RenumberFits`), and a reorder gives rows that are numbered within
  `1..n` all the orders `1..n` (`ReorderFits`), so no order goes missing.
  `EndedAlwaysKeepAnswers` and `ScoresMatchBoard` from `LegacyIInv`: a request between two
  statements holds picks, or a score, that were up to date when they were made and are so until
  a program is submitted or judged (`UpToDate`), and the leaderboard's latest submission of a
  problem is the one `calculateExamScore` selects (`ScoreIsBoard`).  Types: `SandboxTypes`,
  `BreakerTypes`, `RoadmapAlwaysTyped`, `LegacyAlwaysTyped`; for the breaker these include that no
  job has more attempts than its limit (`JobsHeld`).  `ServicesTypes` puts all seven modules of
  `MCServices` together: a step of one leaves the variables of the others alone, so the
  conjunction of the invariants is inductive (`ComponentsHold`).
* `NumberFacts` (no assumption): least and greatest elements, from the library's theorem that
  the natural numbers are well-founded, where induction would take an operator.

Every invariant the passing runs check is a theorem, some under the conditions named above.
`JobsLeaveJudged` (`LeavesQueueJudged`) is proved only and no run repeats it.
Left to TLC is liveness, which is beyond the prover: `PendingIsJudgedOrParked`,
`SubscriberIsTold`, `EveryAttemptEnds`, `StreamedIsStored`, `SummaryCatchesUp`, `JobsSettle`
and `ExplanationsEnd`.

## 6. What is not modelled

`PROJECT.json` gives the reason for each component.  Within the modelled ones: validation
that refuses a request before anything is written; the wording of messages and errors;
obliterating the queue; heartbeats and disconnects of streams; the points of test cases and
the scoring of attempts with participants; rate limits and the access modes that are not
hybrid; more than one worker process in `SandboxBreaker`; the time of retries and priorities
among AI jobs; risk scores and payloads of telemetry; `completeRoadmapItem`; registration,
bans and roles of users.  `ExamAttempt` does not know the proctoring flush a submit may wait
for, which is the time between `SubmitRead` and `SubmitWrite`; `TelemetryStream` models it.

Most of the repository is left out for one of three reasons: it reads (listings, dashboards,
leaderboards, response mapping), it writes one row behind a check of that row (topics,
lessons, favorites, notifications, consents, reviews), or it transforms text (wrappers,
signatures, migrations of stored code).  A model of such code would repeat it line by line
and have no interleaving to explore.

## 7. Plan

Done: the judge from request to verdict, exams from creation to archive and from
registration to the end of an attempt, on both kinds of endpoints, the proctoring pipeline, roadmaps, the metadata cache and accounts.
Next:

1. Proofs: what two tabs may still count on.  `OneTab` could give way to the condition that no
   sync overlaps a submission or another sync of the same attempt, starts being harmless.
2. Deletion of problems against submissions and the cache, in `ProblemMetadata`.
3. The registry of models with the snapshot each activation takes, and the proctoring
   settings it gates; consents and bypasses, composed with `ExamAttempt`'s start.
4. `completeRoadmapItem`, composed with the completions `FinalizeTx` writes.
5. Likes and their counter, with the limit of pinned comments.
