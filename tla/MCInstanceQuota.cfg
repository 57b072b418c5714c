SPECIFICATION Spec
CONSTANTS
    Instance = {i1, i2}
    Tenant = {t1}
    Owner <- MCOwner
    Resource = {cpu}
    Need <- MCNeed
    Limit <- RoomForOne
    Port <- MCPorts
    NoPort = NoPort
    Request = {r1}
    NoInstance = NoInstance
    MaxFaults = 0
    MaxCrashes = 0
INVARIANTS
    QuotaRespected
CHECK_DEADLOCK FALSE
