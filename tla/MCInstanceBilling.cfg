SPECIFICATION MCSpec
CONSTANTS
    Instance = {i1, i2}
    Tenant = {t1}
    Owner <- MCOwner
    Resource = {cpu}
    Need <- MCNeed
    Limit <- MCLimit
    Port <- MCPorts
    NoPort = NoPort
    Request = {r1}
    NoInstance = NoInstance
    MaxFaults = 1
    MaxCrashes = 1
    MaxDebt = 0
INVARIANTS
    SystemTypeOK
    FailedNeverRuns
PROPERTIES
    DeleteIsFinal
    OnlyGoneIsForgotten
    BrokeTenantHalts
    LostContainerRepaired
CONSTRAINTS
    OneFailure
CHECK_DEADLOCK FALSE
