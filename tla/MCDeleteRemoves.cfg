SPECIFICATION Spec
CONSTANTS
    d1 = d1
    x1 = x1
    x2 = x2
    d2 = d2
    Deployment = {d1}
    Deleter = {x1}
    NoDeployment = NoDeployment
    NoRecord = NoRecord
    MaxAttempts = 1
    MaxFaults = 0
    MaxLost = 0
    MaxCrashes = 0
INVARIANTS
    DeleteRemoves
CHECK_DEADLOCK FALSE
