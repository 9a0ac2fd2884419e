CONSTANTS
    t1 = t1
    t2 = t2
    Tab = {t1}
    AccessTab = {t1}
    Tick = {k1}
    Answer = {x}
    MaxAttempts = 1
    MaxSessions = 1
    MaxAdmin = 0
    MayArchive = TRUE

SPECIFICATION FairSpec
PROPERTY EveryAttemptEnds
CHECK_DEADLOCK FALSE
