SPECIFICATION Spec
CONSTANTS
    Src = {a, b}
    Nonces = {n1, n2}
    Window = 1
    Ttl = 4
    ReplayCap = 1
    RecentCap = 1
    MaxTime = 4
    MaxAhead = 1
    MaxBehind = 1
    MaxRestarts = 0
    MaxSteps = 0
    NftRefreshes = TRUE
SYMMETRY Symmetry
INVARIANT NeverReplayed
CHECK_DEADLOCK FALSE
