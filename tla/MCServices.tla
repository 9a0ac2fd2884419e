------------------------------- MODULE MCServices -------------------------------
(***************************************************************************)
(* Seven components of one process each, on small instances.  They share   *)
(* nothing these modules model, so each behaviour moves one of them:       *)
(* "under" says which, and the states checked are the sum of theirs.       *)
(* Some are cut in instances by what may happen in them:                   *)
(*   socket       - the web socket that takes telemetry                    *)
(*   polls        - two overlapping polls of the persisters, no submit     *)
(*   submit       - one poll, the final flush and the submit request       *)
(*   refused      - one poll, and events the table refuses                 *)
(*   predictions  - AI jobs of a telemetry window, no summary requested    *)
(*   summaries    - AI jobs of summaries, no telemetry window              *)
(*   roadmap      - edits of the items of one roadmap                      *)
(*   breaker      - the circuit breaker and the worker's jobs              *)
(*   capacity     - several executions in the sandbox, all tests pass      *)
(*   verdicts     - one execution, whatever its tests come to and print    *)
(*   answers      - attempts without a participant, no programs            *)
(*   scores       - one such attempt and its programs, no answers          *)
(***************************************************************************)
EXTENDS TelemetrySocket, TelemetryStream, ProctoringAiJobs, RoadmapItems, SandboxBreaker,
        SandboxRun, LegacyExam

CONSTANTS p1, p2, x1, t1

MCFrame      == 1..2
MCEvent      == 1..4
MCFlushEvent == {2}
MCMalformed  == {3}
MCRejected   == {4}
MCWord       == {"time", "memory", "compile"}

AllWell == [outcome |-> "passed", said |-> {}]

VARIABLE under

proctoringVars == <<socketVars, telemetryVars, aiJobsVars>>
otherVars == <<roadmapVars, breakerVars, sandboxVars, legacyVars>>
vars == <<proctoringVars, otherVars, under>>

\* The components that a behaviour does not move stay as they began.
TypeOK ==
    /\ under = "socket" => SocketTypeOK
    /\ under \in {"polls", "submit", "refused"} => TelemetryTypeOK
    /\ under \in {"predictions", "summaries"} => AiJobsTypeOK
    /\ under = "roadmap" => RoadmapTypeOK
    /\ under = "breaker" => BreakerTypeOK
    /\ under \in {"capacity", "verdicts"} => SandboxTypeOK
    /\ under \in {"answers", "scores"} => LegacyTypeOK

Init ==
    /\ SocketInit /\ TelemetryInit /\ AiJobsInit
    /\ RoadmapInit /\ BreakerInit /\ SandboxInit /\ LegacyInit
    /\ under \in {"socket", "polls", "submit", "refused", "predictions", "summaries",
                  "roadmap", "breaker", "capacity", "verdicts", "answers", "scores"}
    \* Initial values that no component tells apart are one.
    /\ under # "roadmap" => Present = {}
    /\ \A w \in Slot : work[w] = CHOOSE j \in JudgeJob : TRUE

Streams(e) == \E i \in DOMAIN stream' : stream'[i].seq = e

Proctoring ==
    /\ UNCHANGED otherVars
    /\ \/ under = "socket" /\ SocketNext /\ UNCHANGED <<telemetryVars, aiJobsVars>>
       \/ /\ under = "polls" /\ TelemetryNext /\ UNCHANGED <<socketVars, aiJobsVars>>
          /\ guard' = guard /\ flush' = flush /\ ~Streams(4)
       \/ /\ under = "submit" /\ TelemetryNext /\ UNCHANGED <<socketVars, aiJobsVars>>
          /\ pass'[p2] = pass[p2] /\ ~Streams(3) /\ ~Streams(4)
       \/ /\ under = "refused" /\ TelemetryNext /\ UNCHANGED <<socketVars, aiJobsVars>>
          /\ guard' = guard /\ flush' = flush /\ pass'[p2] = pass[p2] /\ ~Streams(3)
       \/ /\ under = "predictions" /\ AiJobsNext /\ UNCHANGED <<socketVars, telemetryVars>>
          /\ row' = row
       \/ /\ under = "summaries" /\ AiJobsNext /\ UNCHANGED <<socketVars, telemetryVars>>
          /\ job'["prediction"] = job["prediction"]

\* One attempt, joined from one tab and with programs from the other; either may submit it.
\* No timer, and no request is abandoned.
ScoresOnly ==
    /\ Len(tries') < 2 /\ ending' = 0
    /\ visit'[t1].pc # "join" /\ \A t \in Visit \ {t1} : visit'[t].pc # "program"
    /\ \A t \in Visit : ~VisitStops(t)
    /\ \A t \in Visit : visit'[t].pc \notin {"expire", "completed", "insert", "sync"}

Others ==
    /\ UNCHANGED proctoringVars
    /\ \/ /\ under = "roadmap" /\ RoadmapNext
          /\ UNCHANGED <<breakerVars, sandboxVars, legacyVars>>
       \/ /\ under = "breaker" /\ BreakerNext
          /\ UNCHANGED <<roadmapVars, sandboxVars, legacyVars>>
       \/ /\ under \in {"capacity", "verdicts"} /\ SandboxNext
          /\ UNCHANGED <<roadmapVars, breakerVars, legacyVars>>
          /\ under = "capacity" => \A e \in Execution : Range(exec'[e].rows) \subseteq {AllWell}
          /\ under = "verdicts" => \A e \in Execution \ {x1} : exec'[e] = exec[e]
       \/ /\ under \in {"answers", "scores"} /\ LegacyNext
          /\ UNCHANGED <<roadmapVars, breakerVars, sandboxVars>>
          /\ under = "answers" => \A t \in Visit : visit'[t].pc # "program"
          /\ under = "scores" => ScoresOnly

Next == UNCHANGED under /\ (Proctoring \/ Others)

(* The timers of persisters and worker start polls for as long as their process lives;  *)
(* database, Redis and AI calls end with an answer or an error.  An entry left pending  *)
(* grows older until some poll claims it: XAUTOCLAIM starts at the oldest.  An open     *)
(* circuit has an end, and polls count up to the next sweep of stale explanations.      *)
Persists(p) == under = "polls" \/ (under \in {"submit", "refused"} /\ p = p1)
Predicts    == under \in {"predictions", "summaries"}

Fairness ==
    /\ \A p \in Pass : WF_telemetryVars(Persists(p) /\ Works(p))
    /\ \A i \in 1..MaxEntries :
         SF_telemetryVars(\E p \in Pass, ids \in SUBSET pending :
                              Persists(p) /\ i \in ids /\ recoverPendingOnce(p, ids))
    /\ \A p \in Poll : WF_aiJobsVars(Predicts /\ Polls(p))
    /\ WF_aiJobsVars(Predicts /\ CircuitCloses)
    /\ WF_aiJobsVars(Predicts /\ resolveStaleExplanations)

Spec == Init /\ [][Next]_vars /\ Fairness
=============================================================================
