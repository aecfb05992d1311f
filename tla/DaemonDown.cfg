SPECIFICATION QuietSpec
CONSTANTS
    Pids = {p1, p2}
    Clis = {c1, c2}
    MaxActive = 1
PROPERTY StoppedMeansGone
CHECK_DEADLOCK FALSE
