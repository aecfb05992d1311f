SPECIFICATION FairSpec
CONSTANTS
    Clients = {a}
    Others = {o}
    Addresses = {s}
    Address <- OneAddress
    Knocking = TRUE
    RetryAttempts = 2
    MaxDials = 1
    Forwards = {f}
    Ports = {p}
    Egress = {p}
    MaxBytes = 0
PROPERTY DeadPathDetected
CHECK_DEADLOCK FALSE
