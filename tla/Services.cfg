SPECIFICATION Spec
CONSTANTS
    Frame <- MCFrame
    Handler = {h1, h2}
    MaxXaddFails = 1
    Event <- MCEvent
    FlushEvent <- MCFlushEvent
    Malformed <- MCMalformed
    Rejected <- MCRejected
    p1 = p1
    p2 = p2
    Pass = {p1, p2}
    BatchSize = 2
    MaxEntries = 2
    MaxFaults = 1
    Poll = {p1, p2}
    MaxAttempts = 2
    Threshold = 2
    MaxRequests = 2
    MaxCrashes = 1
    Item = {i1, i2, i3}
    Editor = {e1, e2}
    MaxOrder = 3
    Slot = {w1, w2}
    JudgeJob = {j1, j2}
    Attempts = 2
    Volume = 2
    MaxOutages = 2
    x1 = x1
    Execution = {x1, x2, x3}
    Caller = {w1, w2}
    NoCaller = nobody
    MaxConcurrent = 2
    Tests = 2
    Word <- MCWord
    t1 = t1
    Visit = {t1, t2}
    Problem = {b1}
    NoProblem = noprob
    MaxTries = 2
    MaxRows = 2
    MaxSubs = 2
    MaxStamp = 1
INVARIANTS TypeOK AckedIsStreamed DeliveredIsKept JobHasOneRunner ExplanationIsTold PendingSummaryHasJob OpenCircuitSparesAttempts GapMeansRace RefusalMeansAbandoned VerdictFits ScoreMatchesBoard
PROPERTIES StreamedIsStored SummaryCatchesUp JobsSettle ExplanationsEnd EndedKeepsAnswers
CHECK_DEADLOCK FALSE
