SPECIFICATION Spec
CONSTANTS
    a = a
    b = b
    c = c
    Free = Free
    Procs = {a, b, c}
    MaxAppends = 1
    MaxSegment = 2
    MaxClosed = 1
    LockTimeout = 1
    StaleAfter = 1
    Armed = TRUE
    Deadline = 1
    TornReads = TRUE
    Skewed = FALSE
    MaxFaults = 1
    MaxCrashes = 1
SYMMETRY Symmetry
INVARIANTS
    TypeOK
    MutualExclusion
    LockHasOwner
    LiveLockNotJudged
PROPERTIES
    AppendNeverErases
