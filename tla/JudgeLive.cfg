CONSTANTS
    s1 = s1
    s2 = s2
    s3 = s3
    u1p1 = u1p1
    Submission = {s1, s2}
    Key = {u1p1}
    KeyOf <- OnePair
    Exam = {}
    RunOnly = {}
    Worker = {w1}
    Nobody = Nobody
    Nothing = Nothing
    MaxAttempts = 2
    MaxStalls = 0
    MaxBacklog = 1
    MaxFaults = 1
    AmbiguousEnqueue = TRUE
    LongRequest = FALSE

SPECIFICATION FairSpec
PROPERTIES VerdictFallsOnlyToError PendingIsJudgedOrParked SubscriberIsTold
CHECK_DEADLOCK FALSE
