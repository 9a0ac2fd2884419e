CONSTANTS
    s1 = s1
    s2 = s2
    s3 = s3
    u1p1 = u1p1
    Submission = {s1, s2, s3}
    Key = {u1p1}
    KeyOf <- OnePair
    Exam = {s2}
    RunOnly = {s3}
    Worker = {w1, w2}
    Nobody = Nobody
    Nothing = Nothing
    MaxAttempts = 2
    MaxStalls = 0
    MaxBacklog = 2
    MaxFaults = 0
    AmbiguousEnqueue = FALSE
    LongRequest = FALSE

SPECIFICATION Spec
SYMMETRY Workers
INVARIANTS FailedJobIsJudged StreamTellsVerdict
CHECK_DEADLOCK FALSE
