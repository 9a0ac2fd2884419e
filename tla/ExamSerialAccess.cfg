CONSTANTS
    t1 = t1
    t2 = t2
    Tab = {t1, t2}
    AccessTab = {t1}
    Tick = {}
    Answer = {}
    MaxAttempts = 2
    MaxSessions = 3
    MaxAdmin = 0
    MayArchive = TRUE

SPECIFICATION Spec
INVARIANTS SessionStartsOneAttempt AttemptsWithinLimit OneAttemptInProgress
CHECK_DEADLOCK FALSE
