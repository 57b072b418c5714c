SPECIFICATION MCSpec
CONSTANTS
    Instance = {i1, i2}
    Tenant = {t1}
    Owner <- MCOwner
    Resource = {cpu}
    Need <- MCNeed
    Limit <- MCLimit
    Port <- MCPorts
    NoPort = NoPort
    Request = {r1}
    NoInstance = NoInstance
    MaxFaults = 1
    MaxCrashes = 1
    Task = {k1}
    PoolSize = 1
INVARIANTS
    TaskTypeOK
    VerdictMatchesRuns
PROPERTIES
    TaskSettles
    DeleteUnblocked
    CreateSettles
CHECK_DEADLOCK FALSE
