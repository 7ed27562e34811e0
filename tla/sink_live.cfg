SPECIFICATION FairSpec
CONSTANTS
    a = a
    b = b
    c = c
    Free = Free
    Procs = {a, b}
    MaxAppends = 1
    MaxSegment = 4
    MaxClosed = 1
    LockTimeout = 1
    StaleAfter = 2
    Armed = FALSE
    Deadline = 2
    TornReads = FALSE
    Skewed = TRUE
    MaxFaults = 1
    MaxCrashes = 1
PROPERTIES
    StaleLockFalls
    LockAttemptEnds
