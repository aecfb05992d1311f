SPECIFICATION FairSpec
CONSTANTS
    PoolSize = 2
    Forwards = {f1, f2}
    GraceRounds = 2
    Backlog = 1
    StreamLimit = 1
    BackoffMax = 2
    MaxSessions = 2
INVARIANTS TypeOK RequestsMatchSession GiveUpMeansNoLiveTunnel
PROPERTIES OpenTerminates Recovers
CHECK_DEADLOCK FALSE
