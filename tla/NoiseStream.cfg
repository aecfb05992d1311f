SPECIFICATION FairSpec
CONSTANTS
    MaxPlain = 2
    TagLen = 1
    WireCap = 3
    MaxBytes = 3
    MaxBuf = 3
    MaxGarbled = 1
INVARIANTS TypeOK EndsBetweenFrames EndMeansAll
PROPERTIES ImplementsByteFifo Arrives
CHECK_DEADLOCK FALSE
