SPECIFICATION Spec
CONSTANTS
    repo = repo
    home = home
    out = out
    a = a
    l = l
    raw = raw
    long = long
    Up = Up
    Names = {repo, home, out, a, l, raw, long}
    MaxLinks = 3
    Nodes <- MCNodes
    Fixed <- MCFixed
    Candidates <- MCCandidates
    Redemptions <- MCRedemptions
    Boundary <- MCRepository
    Working <- MCRepository
    Foreign = {raw}
    Width <- MCWidth
    MaxSegments = 4
    MaxBytes = 7
    MaxChanges = 2
INVARIANTS
    TargetsAreExact
    ContainmentIsExact
    CreatesAreNew
    RevalidationSeesChanges
CHECK_DEADLOCK FALSE
