CONSTANTS
    t1 = t1
    t2 = t2
    Tab = {t1, t2}
    AccessTab = {t1, t2}
    Tick = {k1}
    Answer = {x}
    MaxAttempts = 1
    MaxSessions = 2
    MaxAdmin = 0
    MayArchive = FALSE

SPECIFICATION Spec
SYMMETRY Tabs
INVARIANT AttemptsWithinLimit
CHECK_DEADLOCK FALSE
