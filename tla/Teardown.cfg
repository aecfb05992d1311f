SPECIFICATION QuietPolicySpec
CONSTANTS
    Entries = {e1, e2}
    Ips = {i1, i2}
SYMMETRY PolicySymmetry
INVARIANT TearsDown
CHECK_DEADLOCK FALSE
