SPECIFICATION MCSpec
CONSTANTS
    d1 = d1
    x1 = x1
    x2 = x2
    d2 = d2
    Deployment = {d1, d2}
    Deleter = {x1,x2}
    NoDeployment = NoDeployment
    NoRecord = NoRecord
    MaxAttempts = 2
    MaxFaults = 1
    MaxLost = 1
    MaxCrashes = 1
INVARIANTS
    DeploymentTypeOK
    NothingForgotten
PROPERTIES
    PipelineSettles
    DeleteReleases
CONSTRAINTS
    OneFailure
CHECK_DEADLOCK FALSE
