SPECIFICATION OrderlySpec
CONSTANTS
    Instance = {i1, i2, i3}
    Tenant = {t1}
    Owner <- MCOwner
    Resource = {cpu}
    Need <- MCNeed
    Limit <- RoomForTwo
    Port <- SparePorts
    NoPort = NoPort
    Request = {r1, r2}
    NoInstance = NoInstance
    MaxFaults = 0
    MaxCrashes = 0
INVARIANTS
    LivePortsUnique
    QuotaWhileNeverDeleted
    RowsMatchDocker
CHECK_DEADLOCK FALSE
