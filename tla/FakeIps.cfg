SPECIFICATION ConfigSpec
CONSTANTS
    Names = {s1, s2}
    HostCount = 5
    FirstHost = 1
    TunHost = 2
    Outside = {6}
    Clis = {t1}
    MaxEdits = 2
    Hosts = {h1, h2}
    MaxKeys = 5
    Entries = {e1, e2, e3}
    Ips = {i1, i2}
SYMMETRY Symmetry
INVARIANTS TypeOK RoutesDistinct AddressesKept SequentialAssignment  SuccessIsComplete
PROPERTY KeepsLoadable
CHECK_DEADLOCK FALSE
