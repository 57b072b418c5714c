------------------------- MODULE InstanceLifecycle -------------------------
(***************************************************************************)
(* The life of a compute instance: the rows of table `instances`, their    *)
(* CREATE operation, the background provisioning task and the request      *)
(* handlers of ComputeService (create, delete, start, stop, reboot), run   *)
(* against a Docker daemon shared by all of them.                          *)
(*                                                                         *)
(* Every handler is a sync function that runs on a thread of its own with  *)
(* a database session of its own.  It reads the row once, calls Docker     *)
(* outside of any lock, and writes the row when it commits; one action     *)
(* below is the code between two such points.  A handler that answers an   *)
(* error before it changed anything is a request that never left "idle".   *)
(*                                                                         *)
(* A row is named by (tenant, name): the unique index keeps a name for     *)
(* ever, so a name has at most one row, one CREATE operation, one          *)
(* provisioning task and one container.                                    *)
(***************************************************************************)
EXTENDS Integers, FiniteSetsExt

CONSTANTS
    Instance,       \* the (tenant, name) pairs that may be asked for
    Tenant,
    Owner,          \* Owner[i]: the tenant of i
    Resource,       \* what a plan limits: vCPU, RAM
    Need,           \* Need[i][x]: what the flavor asked for i takes of x
    Limit,          \* Limit[x]: what the plan allows of x
    Port,           \* ssh_port_range_start .. ssh_port_range_end
    NoPort,
    Request,        \* the threads that serve requests
    NoInstance,
    MaxFaults,      \* bound: Docker calls and commits that fail, containers
                    \* that die
    MaxCrashes      \* bound: restarts of the API process

ASSUME InstanceAssumption ==
    /\ Owner \in [Instance -> Tenant]
    /\ Need \in [Instance -> [Resource -> Nat]]
    /\ Limit \in [Resource -> Nat]
    /\ Port \subseteq Nat
    /\ NoPort \notin Port
    /\ NoInstance \notin Instance
    /\ MaxFaults \in Nat
    /\ MaxCrashes \in Nat

VARIABLES
    status,         \* Instance.status, "absent" while there is no row
    recorded,       \* rows whose docker_container_id is set
    deletedAt,      \* rows whose deleted_at is set
    sshPort,        \* Instance.ssh_port
    createOp,       \* status of the CREATE InstanceOperation
    worker,         \* where _provision_instance_task of a row is
    pc,             \* where a request handler is
    target,         \* the row it works on
    pick,           \* the port request_instance_creation has chosen
    docker,         \* the container of a row, as the Docker daemon sees it
    balance,        \* Tenant.balance_credits
    faults,         \* Docker and database faults so far
    crashes         \* restarts so far

rowVars  == <<status, recorded, deletedAt, sshPort, createOp>>
reqVars  == <<pc, target, pick>>
envVars  == <<faults, crashes>>
vars     == <<rowVars, worker, reqVars, docker, balance, envVars>>

Statuses   == {"absent", "PROVISIONING", "RUNNING", "STOPPED", "ERROR", "TERMINATED"}
OpStatuses == {"absent", "PENDING", "RUNNING", "SUCCESS", "FAILED"}
Workers    == {"none", "queued", "create", "start", "commit", "cleanup", "unwind", "fail",
               "done", "lost", "killed"}
Pcs        == {"idle", "create_port", "create_insert", "delete_docker",
               "delete_commit", "start_docker", "start_commit", "stop_docker",
               "stop_commit", "reboot_docker"}
Containers == {"none", "created", "running", "exited", "removed"}

Init ==
    /\ status = [i \in Instance |-> "absent"]
    /\ recorded = {}
    /\ deletedAt = {}
    /\ sshPort = [i \in Instance |-> NoPort]
    /\ createOp = [i \in Instance |-> "absent"]
    /\ worker = [i \in Instance |-> "none"]
    /\ pc = [r \in Request |-> "idle"]
    /\ target = [r \in Request |-> NoInstance]
    /\ pick = [r \in Request |-> NoPort]
    /\ docker = [i \in Instance |-> "none"]
    /\ balance \in [Tenant -> {0, 1}]
    /\ faults = 0
    /\ crashes = 0

-----------------------------------------------------------------------------
(* What the handlers compute from the rows.                                *)

Live == {i \in Instance : status[i] \notin {"absent", "TERMINATED"}}

\* get_quota: what the rows of t that are not TERMINATED take of x.
Used(t, x) == MapThenSumSet(LAMBDA i : Need[i][x], {i \in Live : Owner[i] = t})

\* Mutant: the check forgets what the new instance takes.
CanAllocateMut(i) ==
    /\ balance[Owner[i]] > 0
    /\ \A x \in Resource : Used(Owner[i], x) <= Limit[x]

\* assert_can_allocate
CanAllocate(i) ==
    /\ balance[Owner[i]] > 0
    /\ \A x \in Resource : Used(Owner[i], x) + Need[i][x] <= Limit[x]

\* Mutants: the range ends one port late; only RUNNING rows hold a port.
FreePortsLateMut == (Port \cup {p + 1 : p \in Port}) \ {sshPort[i] : i \in Live}
FreePortsRunningMut == Port \ {sshPort[i] : i \in {j \in Live : status[j] = "RUNNING"}}

\* _allocate_ssh_port: the ports no row holds that is not TERMINATED.
FreePorts == Port \ {sshPort[i] : i \in Live}

-----------------------------------------------------------------------------
(* The Docker daemon.                                                      *)

Exists(i) == docker[i] \in {"created", "running", "exited"}

\* The daemon binds a host port for one running container only.
PortFree(i) == \A j \in Instance \ {i} :
                   docker[j] = "running" => sshPort[j] # sshPort[i]

CanStart(i) == Exists(i) /\ (docker[i] = "running" \/ PortFree(i))

SetDocker(i, c) == docker' = [docker EXCEPT ![i] = c]

Fault == faults < MaxFaults /\ faults' = faults + 1

\* Mutant: a container is stopped and never removed.
StopAndRemoveMut(i) ==
    /\ SetDocker(i, IF Exists(i) THEN "exited" ELSE docker[i])
    /\ UNCHANGED faults

\* stop, then remove(force), each failure swallowed: the container is gone
\* unless the daemon fails, and then it is left stopped or untouched.
StopAndRemove(i) ==
    \/ /\ SetDocker(i, IF Exists(i) THEN "removed" ELSE docker[i])
       /\ UNCHANGED faults
    \/ /\ Exists(i)
       /\ \E c \in {docker[i], "exited"} : SetDocker(i, c)
       /\ Fault

\* What happens outside of the API: a main process ends, an operator removes
\* a container.
ContainerGoes(i) ==
    /\ \/ docker[i] = "running" /\ SetDocker(i, "exited")
       \/ Exists(i) /\ SetDocker(i, "removed")
    /\ Fault
    /\ UNCHANGED <<rowVars, worker, reqVars, balance, crashes>>

-----------------------------------------------------------------------------
(* The request handlers.  A failure of the database before a handler has   *)
(* touched Docker or a row is a request that never left "idle".            *)

Goto(r, label) == pc' = [pc EXCEPT ![r] = label]

Return(r) ==
    /\ Goto(r, "idle")
    /\ target' = [target EXCEPT ![r] = NoInstance]
    /\ pick' = [pick EXCEPT ![r] = NoPort]

Begin(r, i, label) ==
    /\ pc[r] = "idle"
    /\ Goto(r, label)
    /\ target' = [target EXCEPT ![r] = i]
    /\ UNCHANGED <<rowVars, worker, pick, docker, balance, envVars>>

\* request_instance_creation up to the quota check: no row has the name, a
\* TERMINATED one included, and the plan has room.
CreateCheck(r, i) ==
    /\ status[i] = "absent"
    /\ CanAllocate(i)
    /\ Begin(r, i, "create_port")

\* The port: the lowest free one, 409 when there is none.
CreatePort(r) ==
    /\ pc[r] = "create_port"
    /\ \/ /\ FreePorts = {}
          /\ Return(r)
       \/ \E p \in FreePorts :
              /\ \A q \in FreePorts : p <= q
              /\ pick' = [pick EXCEPT ![r] = p]
              /\ Goto(r, "create_insert")
              /\ UNCHANGED target
    /\ UNCHANGED <<rowVars, worker, docker, balance, envVars>>

\* INSERT of the row and of its CREATE operation, then the background task.
\* Nothing is checked again but the name, by the unique index.
CreateInsert(r) ==
    LET i == target[r] IN
    /\ pc[r] = "create_insert"
    /\ Return(r)
    /\ IF status[i] = "absent"
       THEN /\ status' = [status EXCEPT ![i] = "PROVISIONING"]
            /\ sshPort' = [sshPort EXCEPT ![i] = pick[r]]
            /\ createOp' = [createOp EXCEPT ![i] = "PENDING"]
            /\ worker' = [worker EXCEPT ![i] = "queued"]
       ELSE UNCHANGED <<status, sshPort, createOp, worker>>
    /\ UNCHANGED <<recorded, deletedAt, docker, balance, envVars>>

\* delete_instance: a TERMINATED row is left alone.  The refusal while a task
\* runs on the instance is in module TaskExecution; here it is a delete that
\* is not taken.  A row without a container id skips Docker.
DeleteRead(r, i) ==
    /\ status[i] \notin {"absent", "TERMINATED"}
    /\ Begin(r, i, IF i \in recorded THEN "delete_docker" ELSE "delete_commit")

DeleteDocker(r) ==
    /\ pc[r] = "delete_docker"
    /\ StopAndRemove(target[r])
    /\ Goto(r, "delete_commit")
    /\ UNCHANGED <<rowVars, worker, target, pick, balance, crashes>>

\* Mutant: the container id is cleared with the status.
DeleteCommitMut(r) ==
    LET i == target[r] IN
    /\ pc[r] = "delete_commit"
    /\ status' = [status EXCEPT ![i] = "TERMINATED"]
    /\ deletedAt' = deletedAt \cup {i}
    /\ recorded' = recorded \ {i}
    /\ Return(r)
    /\ UNCHANGED <<sshPort, createOp, worker, docker, balance, envVars>>

\* docker_container_id is not cleared.
DeleteCommit(r) ==
    LET i == target[r] IN
    /\ pc[r] = "delete_commit"
    /\ status' = [status EXCEPT ![i] = "TERMINATED"]
    /\ deletedAt' = deletedAt \cup {i}
    /\ Return(r)
    /\ UNCHANGED <<recorded, sshPort, createOp, worker, docker, balance, envVars>>

\* Mutants: START without the container check, START of a TERMINATED row.
StartReadErrorMut(r, i) ==
    /\ status[i] \notin {"absent", "TERMINATED", "RUNNING"}
    /\ Begin(r, i, "start_docker")

StartReadTerminatedMut(r, i) ==
    /\ status[i] \notin {"absent", "RUNNING"}
    /\ i \in recorded
    /\ Begin(r, i, "start_docker")

\* apply_action(START): a no-op on RUNNING, 409 without a container id.
StartRead(r, i) ==
    /\ status[i] \notin {"absent", "TERMINATED", "RUNNING"}
    /\ i \in recorded
    /\ Begin(r, i, "start_docker")

\* A Docker call of an action that fails is a 500: the row is not written.
StartDocker(r) ==
    LET i == target[r] IN
    /\ pc[r] = "start_docker"
    /\ \/ /\ CanStart(i)
          /\ SetDocker(i, "running")
          /\ Goto(r, "start_commit")
          /\ UNCHANGED <<target, pick, faults>>
       \/ /\ IF CanStart(i) THEN Fault ELSE UNCHANGED faults
          /\ Return(r)
          /\ UNCHANGED docker
    /\ UNCHANGED <<rowVars, worker, balance, crashes>>

Commit(r, label, s) ==
    /\ pc[r] = label
    /\ status' = [status EXCEPT ![target[r]] = s]
    /\ Return(r)
    /\ UNCHANGED <<recorded, deletedAt, sshPort, createOp, worker, docker, balance, envVars>>

StartCommit(r) == Commit(r, "start_commit", "RUNNING")

\* Mutant: STOP writes the row before it stops the container.
StopReadMut(r, i) ==
    /\ status[i] = "RUNNING"
    /\ i \in recorded
    /\ Begin(r, i, "stop_commit")

\* apply_action(STOP): a no-op on STOPPED, 409 unless RUNNING with a container.
StopRead(r, i) ==
    /\ status[i] = "RUNNING"
    /\ i \in recorded
    /\ Begin(r, i, "stop_docker")

StopDocker(r) ==
    LET i == target[r] IN
    /\ pc[r] = "stop_docker"
    /\ \/ /\ Exists(i)
          /\ SetDocker(i, IF docker[i] = "running" THEN "exited" ELSE docker[i])
          /\ Goto(r, "stop_commit")
          /\ UNCHANGED <<target, pick, faults>>
       \/ /\ IF Exists(i) THEN Fault ELSE UNCHANGED faults
          /\ Return(r)
          /\ UNCHANGED docker
    /\ UNCHANGED <<rowVars, worker, balance, crashes>>

StopCommit(r) == Commit(r, "stop_commit", "STOPPED")

\* apply_action(REBOOT): restart, then a commit that touches updated_at only.
RebootRead(r, i) ==
    /\ status[i] = "RUNNING"
    /\ i \in recorded
    /\ Begin(r, i, "reboot_docker")

\* A restart that fails may have stopped the container already.
RebootDocker(r) ==
    LET i == target[r] IN
    /\ pc[r] = "reboot_docker"
    /\ \/ /\ CanStart(i)
          /\ SetDocker(i, "running")
          /\ UNCHANGED faults
       \/ /\ IF CanStart(i) THEN Fault ELSE UNCHANGED faults
          /\ \E c \in {docker[i]} \cup (IF docker[i] = "running" THEN {"exited"} ELSE {}) :
                 SetDocker(i, c)
    /\ Return(r)
    /\ UNCHANGED <<rowVars, worker, balance, crashes>>

\* The database fails under a handler at work: a 500, and what it has done to
\* Docker by then stays.
RequestLost(r) ==
    /\ pc[r] \in {"create_port", "create_insert", "delete_commit", "start_commit", "stop_commit"}
    /\ Fault
    /\ Return(r)
    /\ UNCHANGED <<rowVars, worker, docker, balance, crashes>>

-----------------------------------------------------------------------------
(* _provision_instance_task.  Nothing between its first commit and its     *)
(* last one reads the row's status.                                        *)

WorkerGoto(i, label) == worker' = [worker EXCEPT ![i] = label]

WorkerBegin(i) ==
    /\ worker[i] = "queued"
    /\ createOp' = [createOp EXCEPT ![i] = "RUNNING"]
    /\ WorkerGoto(i, "create")
    /\ UNCHANGED <<status, recorded, deletedAt, sshPort, reqVars, docker, balance, envVars>>

\* create_instance: pull and create, or no container id to clean up.
WorkerCreate(i) ==
    /\ worker[i] = "create"
    /\ \/ /\ SetDocker(i, "created")
          /\ WorkerGoto(i, "start")
          /\ UNCHANGED faults
       \/ /\ Fault
          /\ WorkerGoto(i, "fail")
          /\ UNCHANGED docker
    /\ UNCHANGED <<rowVars, reqVars, balance, crashes>>

\* start_instance and get_instance_ip; the second may fail once the container
\* is running.
WorkerStart(i) ==
    /\ worker[i] = "start"
    /\ \/ /\ CanStart(i)
          /\ SetDocker(i, "running")
          /\ \/ WorkerGoto(i, "commit") /\ UNCHANGED faults
             \/ WorkerGoto(i, "cleanup") /\ Fault
       \/ /\ IF CanStart(i) THEN Fault ELSE UNCHANGED faults
          /\ WorkerGoto(i, "cleanup")
          /\ UNCHANGED docker
    /\ UNCHANGED <<rowVars, reqVars, balance, crashes>>

\* Mutant: the operation is left RUNNING.
WorkerCommitMut(i) ==
    /\ worker[i] = "commit"
    /\ status' = [status EXCEPT ![i] = "RUNNING"]
    /\ recorded' = recorded \cup {i}
    /\ WorkerGoto(i, "done")
    /\ UNCHANGED <<createOp, deletedAt, sshPort, reqVars, docker, balance, envVars>>

WorkerCommit(i) ==
    /\ worker[i] = "commit"
    /\ status' = [status EXCEPT ![i] = "RUNNING"]
    /\ recorded' = recorded \cup {i}
    /\ createOp' = [createOp EXCEPT ![i] = "SUCCESS"]
    /\ WorkerGoto(i, "done")
    /\ UNCHANGED <<deletedAt, sshPort, reqVars, docker, balance, envVars>>

WorkerCleanup(i) ==
    /\ worker[i] = "cleanup"
    /\ StopAndRemove(i)
    /\ WorkerGoto(i, "fail")
    /\ UNCHANGED <<rowVars, reqVars, balance, crashes>>

\* docker_container_id was never set.
WorkerFail(i) ==
    /\ worker[i] = "fail"
    /\ status' = [status EXCEPT ![i] = "ERROR"]
    /\ createOp' = [createOp EXCEPT ![i] = "FAILED"]
    /\ WorkerGoto(i, "done")
    /\ UNCHANGED <<recorded, deletedAt, sshPort, reqVars, docker, balance, envVars>>

\* A last commit that fails runs into the except path, on a session that takes
\* no other commit: the container is cleaned up and nothing is written.
WorkerUnwind(i) ==
    /\ worker[i] = "unwind"
    /\ StopAndRemove(i)
    /\ WorkerGoto(i, "lost")
    /\ UNCHANGED <<rowVars, reqVars, balance, crashes>>

\* The database fails under the task: before or in its first commit, in what it
\* reads next, in its last commit or in the one that records the failure.  The
\* operation stays as it is for good.  A request that fails between its INSERT
\* and its add_task leaves the same behind as a task lost while queued.
WorkerLost(i) ==
    /\ worker[i] \in {"queued", "create", "commit", "fail"}
    /\ Fault
    /\ WorkerGoto(i, IF worker[i] = "commit" THEN "unwind" ELSE "lost")
    /\ UNCHANGED <<rowVars, reqVars, docker, balance, crashes>>

Provisioning(i) == worker[i] \in {"queued", "create", "start", "commit", "cleanup", "unwind",
                                  "fail"}

WorkerStep(i) ==
    \/ WorkerBegin(i)
    \/ WorkerCreate(i)
    \/ WorkerStart(i)
    \/ WorkerCommit(i)
    \/ WorkerCleanup(i)
    \/ WorkerFail(i)
    \/ WorkerUnwind(i)
    \/ WorkerLost(i)

-----------------------------------------------------------------------------
\* The API process ends and comes back: handlers and background tasks are
\* gone, nothing at startup looks for what they left; rows and containers
\* stay.
Crash ==
    /\ crashes < MaxCrashes
    /\ crashes' = crashes + 1
    /\ pc' = [r \in Request |-> "idle"]
    /\ target' = [r \in Request |-> NoInstance]
    /\ pick' = [r \in Request |-> NoPort]
    /\ worker' = [i \in Instance |-> IF Provisioning(i) THEN "killed" ELSE worker[i]]
    /\ UNCHANGED <<rowVars, docker, balance, faults>>

RequestStep(r) ==
    \/ CreatePort(r)
    \/ CreateInsert(r)
    \/ DeleteDocker(r)
    \/ DeleteCommit(r)
    \/ StartDocker(r)
    \/ StartCommit(r)
    \/ StopDocker(r)
    \/ StopCommit(r)
    \/ RebootDocker(r)
    \/ RequestLost(r)

RequestRead(r, i) ==
    \/ CreateCheck(r, i)
    \/ DeleteRead(r, i)
    \/ StartRead(r, i)
    \/ StopRead(r, i)
    \/ RebootRead(r, i)

Operate ==
    \/ \E r \in Request : RequestStep(r)
    \/ \E r \in Request, i \in Instance : RequestRead(r, i)
    \/ \E i \in Instance : WorkerStep(i)
    \/ \E i \in Instance : ContainerGoes(i)

Next == Operate \/ Crash

\* Threads are scheduled and every Docker call returns; nothing makes a user
\* send a request, a container die or the process restart.
RequestFairness(r) == WF_vars(RequestStep(r))
WorkerFairness(i)  == WF_vars(WorkerStep(i))

Fairness ==
    /\ \A r \in Request : RequestFairness(r)
    /\ \A i \in Instance : WorkerFairness(i)

Spec == Init /\ [][Next]_vars /\ Fairness

-----------------------------------------------------------------------------
(* What makes it correct.                                                  *)

TypeOK ==
    /\ status \in [Instance -> Statuses]
    /\ recorded \subseteq Instance
    /\ deletedAt \subseteq Instance
    /\ sshPort \in [Instance -> Port \cup {NoPort}]
    /\ createOp \in [Instance -> OpStatuses]
    /\ worker \in [Instance -> Workers]
    /\ pc \in [Request -> Pcs]
    /\ target \in [Request -> Instance \cup {NoInstance}]
    /\ pick \in [Request -> Port \cup {NoPort}]
    /\ docker \in [Instance -> Containers]
    /\ balance \in [Tenant -> Int]
    /\ faults \in 0 .. MaxFaults
    /\ crashes \in 0 .. MaxCrashes

\* No container is forgotten: one that exists is written in its row or still
\* in the hands of its provisioning task, whatever handlers interleave.  Excused
\* are a restart under the task, which nothing cleans up after, and a removal
\* that Docker refused; if the task's outcome is not recorded either, the
\* database has failed as well.
OrphanNeedsFailure ==
    \A i \in Instance :
        Exists(i) /\ i \notin recorded /\ ~Provisioning(i) =>
            \/ worker[i] = "killed" /\ crashes > 0
            \/ createOp[i] = "FAILED" /\ faults > 0
            \/ worker[i] = "lost" /\ faults > 1

\* An instance whose CREATE operation FAILED never comes to life: no order of
\* deletes, starts and stops around the failing task makes it RUNNING or
\* STOPPED, or gives it a container id.
FailedNeverRuns ==
    \A i \in Instance :
        /\ createOp[i] = "FAILED" => status[i] \in {"ERROR", "TERMINATED"}
        /\ i \in recorded => createOp[i] = "SUCCESS"

\* As long as billing does not touch the rows, whoever is RUNNING or STOPPED
\* has a container id, so STOP, START and DELETE always find what to act on.
RunningIsRecorded ==
    \A i \in Instance : status[i] \in {"RUNNING", "STOPPED"} => i \in recorded

\* The requests at work on i that may still change its status or start its
\* container.
Reviving(r) == pc[r] \in {"start_docker", "start_commit", "stop_docker", "stop_commit",
                          "reboot_docker"}

\* Deleted, and nobody who read the row before the delete is still at work.
Settled(i) ==
    /\ status[i] = "TERMINATED"
    /\ ~Provisioning(i)
    /\ \A r \in Request : target[r] = i => ~Reviving(r)

\* A delete is final once the operations it overlapped are over: the row
\* stays TERMINATED and its container is not started again.
SettledStaysDeleted ==
    [][\A i \in Instance :
          Settled(i) => /\ Settled(i)'
                        /\ docker'[i] = "running" => docker[i] = "running"]_vars

\* The live rows no delete has touched: a late commit may bring a deleted row
\* back to life, without its port and its share of the plan being free.
NeverDeleted == Live \ deletedAt

Creating(r) == pc[r] \in {"create_port", "create_insert"}

\* Creations come one at a time, those of a tenant do, the requests on a row do.
OneCreation == \A r, q \in Request : Creating(r) /\ Creating(q) => r = q

OneCreationPerTenant ==
    \A r, q \in Request :
        Creating(r) /\ Creating(q) /\ Owner[target[r]] = Owner[target[q]] => r = q

OneRequestPerRow ==
    \A r, q \in Request : target[r] # NoInstance /\ target[r] = target[q] => r = q

\* As long as creations come one at a time, rows that never came back from a
\* delete hold distinct SSH ports, whatever other requests interleave.
LivePortsUnique ==
    \A i, j \in NeverDeleted : sshPort[i] = sshPort[j] => i = j

\* As long as the creations of a tenant come one at a time, its rows that never
\* came back from a delete fit its plan, whatever deletes, starts, stops and
\* provisioning tasks interleave.
QuotaWhileNeverDeleted ==
    \A t \in Tenant, x \in Resource :
        MapThenSumSet(LAMBDA i : Need[i][x], {i \in NeverDeleted : Owner[i] = t}) <= Limit[x]

\* As long as the requests on a row come one at a time and nothing fails, a row
\* nobody is at work on tells what its container does.
RowsMatchDocker ==
    \A i \in Instance \ deletedAt :
        ~Provisioning(i) /\ (\A r \in Request : target[r] # i) =>
            /\ status[i] = "RUNNING" => docker[i] = "running"
            /\ status[i] = "STOPPED" => docker[i] = "exited"
            /\ status[i] = "ERROR" => ~Exists(i)

\* The tenant's view: one creation that ends once, starts and stops only after it
\* succeeded, and a deleted_at that stays, whatever handlers, tasks and failures
\* interleave.
Promise == INSTANCE InstancePromise

RowsKeepPromise == Promise!Spec

\* What the plan promises: no tenant holds more than its plan allows.
QuotaRespected == \A t \in Tenant, x \in Resource : Used(t, x) <= Limit[x]

\* Every CREATE operation, which the client polls, reaches SUCCESS or FAILED,
\* whatever Docker does, unless the process went down or the database failed
\* under its task: then nothing ends it.
CreateSettles ==
    \A i \in Instance :
        createOp[i] \in {"PENDING", "RUNNING"} ~>
            createOp[i] \in {"SUCCESS", "FAILED"} \/ worker[i] \in {"killed", "lost"}
=============================================================================
