SPECIFICATION FairSpec
CONSTANTS
    Slot = {w1, w2}
    JudgeJob = {j1, j2}
    Attempts = 2
    Volume = 2
    MaxOutages = 1
PROPERTY HalfOpenTriesSandbox
CHECK_DEADLOCK FALSE
