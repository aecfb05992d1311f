SPECIFICATION FairSpec
CONSTANTS
    Clients = {a}
    Others = {o}
    Addresses = {s}
    Address <- OneAddress
    Knocking = TRUE
    RetryAttempts = 2
    MaxDials = 1
    Forwards = {f}
    Ports = {p, q}
    Egress = {p}
    MaxBytes = 1
INVARIANTS RelayTypeOK AdmittedByKnock MutuallyAuthenticated DialsPermittedOnly RelaysWhatIsConnected EndsAreReal
PROPERTIES DialsEnd TasksEnd RelaysEnd
CHECK_DEADLOCK FALSE
