CONSTANTS
    s1 = s1
    s2 = s2
    s3 = s3
    u1p1 = u1p1
    Submission = {s1, s2}
    Key = {u1p1}
    KeyOf <- OnePair
    Exam = {}
    RunOnly = {}
    Worker = {w1, w2}
    Nobody = Nobody
    Nothing = Nothing
    MaxAttempts = 2
    MaxStalls = 1
    MaxBacklog = 1
    MaxFaults = 1
    AmbiguousEnqueue = FALSE
    LongRequest = FALSE

SPECIFICATION Spec
SYMMETRY Workers
INVARIANTS ResultsMatchVerdict
PROPERTY ImplementsLedger
CHECK_DEADLOCK FALSE
