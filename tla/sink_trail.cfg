SPECIFICATION CalmSpec
CONSTANTS
    a = a
    b = b
    c = c
    Free = Free
    Procs = {a, b}
    MaxAppends = 2
    MaxSegment = 4
    MaxClosed = 1
    LockTimeout = 1
    StaleAfter = 2
    Armed = TRUE
    Deadline = 3
    TornReads = FALSE
    Skewed = TRUE
    MaxFaults = 0
    MaxCrashes = 1
SYMMETRY Symmetry
PROPERTIES
    ImplementsTrail
    DamageQuarantinedFirst
