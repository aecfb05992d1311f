SPECIFICATION FilteredSpec
CONSTANTS
    Src = {a, b}
    Nonces = {n1, n2, n3}
    Window = 1
    Ttl = 4
    ReplayCap = 3
    RecentCap = 1
    MaxTime = 4
    MaxAhead = 0
    MaxBehind = 1
    MaxRestarts = 0
    MaxSteps = 0
    NftRefreshes = FALSE
    KnockPort = 62201
    OtherPort = 443
    Frames <- BoundaryFrames
SYMMETRY Symmetry
INVARIANTS NeverReplayed FilterIsExact
PROPERTIES  AllowSpacing RecentOverflow
CHECK_DEADLOCK FALSE
