SPECIFICATION Spec
CONSTANTS
    a = a
    b = b
    c = c
    Free = Free
    Procs = {a, b, c}
    MaxAppends = 1
    MaxSegment = 4
    MaxClosed = 1
    LockTimeout = 1
    StaleAfter = 1
    Armed = TRUE
    Deadline = 1
    TornReads = FALSE
    Skewed = FALSE
    MaxFaults = 0
    MaxCrashes = 1
INVARIANTS
    InterleavingCaught
