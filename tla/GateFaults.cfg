SPECIFICATION Spec
CONSTANTS
    Src = {a, b}
    Nonces = {n1, n2}
    Window = 1
    Ttl = 4
    ReplayCap = 1
    RecentCap = 1
    MaxTime = 4
    MaxAhead = 1
    MaxBehind = 1
    MaxRestarts = 1
    MaxSteps = 1
    NftRefreshes = TRUE
SYMMETRY Symmetry
INVARIANTS TypeOK ReplayBudget
PROPERTIES ReplaySpacing ImplementsSpaGate
CHECK_DEADLOCK FALSE
