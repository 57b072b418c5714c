SPECIFICATION Spec
CONSTANTS
    Instance = {i1, i2}
    Tenant = {t1}
    Owner <- MCOwner
    Resource = {cpu}
    Need <- MCNeed
    Limit <- RoomForTwo
    Port <- MCPorts
    NoPort = NoPort
    Request = {r1, r2}
    NoInstance = NoInstance
    MaxFaults = 2
    MaxCrashes = 1
INVARIANTS
    TypeOK
    OrphanNeedsFailure
    RunningIsRecorded
PROPERTIES
    SettledStaysDeleted
    RowsKeepPromise
CHECK_DEADLOCK FALSE
