SPECIFICATION Spec
CONSTANTS
    a = a
    b = b
    c = c
    Free = Free
    Procs = {a, b, c}
    MaxAppends = 1
    MaxSegment = 4
    MaxClosed = 1
    LockTimeout = 1
    StaleAfter = 2
    Armed = FALSE
    Deadline = 2
    TornReads = FALSE
    Skewed = FALSE
    MaxFaults = 1
    MaxCrashes = 0
SYMMETRY Symmetry
INVARIANTS
    AckedNotErased
