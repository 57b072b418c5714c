------------------------- MODULE MCInstanceBilling -------------------------
(* Two instances of one tenant, one up and one whose creation has just     *)
(* been accepted, one request at a time beside provisioning and the        *)
(* billing tick, and one failure: a fault or a restart.                    *)
EXTENDS InstanceBilling

MCOwner == [i \in Instance |-> CHOOSE t \in Tenant : TRUE]
MCNeed  == [i \in Instance |-> [x \in Resource |-> 1]]
MCLimit == [x \in Resource |-> 2]
MCPorts == 22000 .. 22001

First == CHOOSE i \in Instance : TRUE

MCInit ==
    /\ status = [i \in Instance |-> IF i = First THEN "RUNNING" ELSE "PROVISIONING"]
    /\ recorded = {First}
    /\ deletedAt = {}
    /\ sshPort = [i \in Instance |-> IF i = First THEN 22000 ELSE 22001]
    /\ createOp = [i \in Instance |-> IF i = First THEN "SUCCESS" ELSE "PENDING"]
    /\ worker = [i \in Instance |-> IF i = First THEN "done" ELSE "queued"]
    /\ pc = [r \in Request |-> "idle"]
    /\ target = [r \in Request |-> NoInstance]
    /\ pick = [r \in Request |-> NoPort]
    /\ docker = [i \in Instance |-> IF i = First THEN "running" ELSE "none"]
    /\ balance = [t \in Tenant |-> 1]
    /\ faults = 0
    /\ crashes = 0
    /\ biller = "idle"
    /\ todo = {}
    /\ current = NoInstance
    /\ seen = "absent"
    /\ expired = FALSE
    /\ broke = {}
    /\ halting = {}
    /\ unstopped = {}
    /\ age = [i \in Instance |-> "old"]

MCSpec == MCInit /\ [][SystemNext]_systemVars /\ SystemFairness

\* Whatever fails, it is one thing.
OneFailure == faults + crashes <= 1
=============================================================================
