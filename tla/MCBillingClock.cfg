SPECIFICATION Spec
CONSTANTS
    Instance = {i1}
    Conn = {c1, c2, c3}
    NoConn = NoConn
    PoolSize = 2
    Interval = 2
    MaxTime = 6
    MaxFaults = 1
    MaxCrashes = 1
INVARIANTS
    ClockTypeOK
    SlicesTile
    FirstSliceRan
    LockHeld
    RefusalsBounded
SYMMETRY MCSymmetry
CHECK_DEADLOCK FALSE
