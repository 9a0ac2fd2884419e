CONSTANTS
    t1 = t1
    t2 = t2
    Tab = {t1}
    AccessTab = {t1}
    Tick = {k1, k2}
    Answer = {x, y}
    MaxAttempts = 2
    MaxSessions = 2
    MaxAdmin = 1
    MayArchive = FALSE

SPECIFICATION FairSpec
INVARIANT LockedKeepsConfirmed
PROPERTIES EveryAttemptEnds OnTimeSubmissionStands
CHECK_DEADLOCK FALSE
