SPECIFICATION FairSpec
CONSTANTS
    Pids = {p1, p2}
    Clis = {c1, c2, c3}
    MaxActive = 1
INVARIANTS TypeOK Tracked
PROPERTY ClientStops
CHECK_DEADLOCK FALSE
