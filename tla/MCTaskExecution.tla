-------------------------- MODULE MCTaskExecution --------------------------
(* One task on two instances, the first of which is already up, and one    *)
(* request at a time.                                                      *)
EXTENDS TaskExecution, TLC

MCOwner == [i \in Instance |-> CHOOSE t \in Tenant : TRUE]
MCNeed  == [i \in Instance |-> [x \in Resource |-> 1]]
MCLimit == [x \in Resource |-> 2]
MCPorts == 22000 .. 22001

First == CHOOSE i \in Instance : TRUE

MCInit ==
    /\ status = [i \in Instance |-> IF i = First THEN "RUNNING" ELSE "absent"]
    /\ recorded = {First}
    /\ deletedAt = {}
    /\ sshPort = [i \in Instance |-> IF i = First THEN 22000 ELSE NoPort]
    /\ createOp = [i \in Instance |-> IF i = First THEN "SUCCESS" ELSE "absent"]
    /\ worker = [i \in Instance |-> IF i = First THEN "done" ELSE "none"]
    /\ pc = [r \in Request |-> "idle"]
    /\ target = [r \in Request |-> NoInstance]
    /\ pick = [r \in Request |-> NoPort]
    /\ docker = [i \in Instance |-> IF i = First THEN "running" ELSE "none"]
    /\ balance = [t \in Tenant |-> 1]
    /\ faults = 0
    /\ crashes = 0
    /\ TaskInit

MCSpec == MCInit /\ [][AllNext]_allVars /\ TaskFairness /\ InstanceFairness
=============================================================================
