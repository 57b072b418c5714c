---------------------- MODULE InstanceLifecycle_proofs ----------------------
(***************************************************************************)
(* Proofs about InstanceLifecycle, for any number of instances, tenants,   *)
(* request threads, ports, faults and restarts.                            *)
(*                                                                         *)
(* The safety invariants are not inductive by themselves: that no          *)
(* container is forgotten rests on where the provisioning task is, and     *)
(* that a failed instance never runs rests on which handlers can be at     *)
(* work on its row.  IInv states both.                                     *)
(***************************************************************************)
EXTENDS InstanceLifecycle, TLAPS

\* How far a row's CREATE operation, its provisioning task and its container
\* have come goes together.
RowPhase(i) ==
    /\ status[i] = "absent" <=> worker[i] = "none"
    /\ worker[i] = "none" <=> createOp[i] = "absent"
    /\ worker[i] = "queued" => createOp[i] = "PENDING"
    /\ worker[i] \in {"create", "start", "commit", "cleanup", "unwind", "fail"} =>
           createOp[i] = "RUNNING"
    /\ worker[i] = "done" <=> createOp[i] \in {"SUCCESS", "FAILED"}
    /\ worker[i] = "killed" => crashes > 0
    /\ worker[i] = "unwind" => faults > 0
    /\ worker[i] = "lost" => createOp[i] \in {"PENDING", "RUNNING"}
    /\ worker[i] = "lost" /\ Exists(i) => faults > 1
    /\ worker[i] \in {"none", "queued", "create"} => docker[i] = "none"
    /\ worker[i] = "fail" /\ Exists(i) => faults > 0
    /\ createOp[i] = "FAILED" /\ Exists(i) => faults > 0
    /\ createOp[i] = "FAILED" => status[i] \in {"ERROR", "TERMINATED"}
    /\ i \in recorded => createOp[i] = "SUCCESS"
    /\ createOp[i] = "SUCCESS" /\ i \notin recorded => ~Exists(i)
    /\ status[i] \in {"RUNNING", "STOPPED"} => createOp[i] = "SUCCESS"
    /\ status[i] = "TERMINATED" => i \in deletedAt

\* What a handler in the middle of its work has found out about its row.
HandlerPhase(r) ==
    /\ pc[r] # "idle" => target[r] \in Instance
    /\ pc[r] = "create_insert" => pick[r] \in Port
    /\ pc[r] \notin {"idle", "create_port", "create_insert"} => status[target[r]] # "absent"
    /\ pc[r] \notin {"idle", "create_port", "create_insert", "delete_commit"} =>
           createOp[target[r]] = "SUCCESS"

IInv ==
    /\ TypeOK
    /\ \A i \in Instance : RowPhase(i)
    /\ \A r \in Request : HandlerPhase(r)

-----------------------------------------------------------------------------
(* Types.                                                                  *)

\* The state starts well typed and with nothing under way.
LEMMA InitInv == Init => IInv
<1> SUFFICES ASSUME Init PROVE IInv
    OBVIOUS
<1>1. TypeOK
    BY InstanceAssumption DEF Init, TypeOK, Statuses, OpStatuses, Workers, Pcs, Containers
<1>2. ASSUME NEW i \in Instance PROVE RowPhase(i)
    BY <1>2 DEF Init, RowPhase, Exists
<1>3. ASSUME NEW r \in Request PROVE HandlerPhase(r)
    BY <1>3 DEF Init, HandlerPhase
<1> QED
    BY <1>1, <1>2, <1>3 DEF IInv

\* A fault is counted and stays within its bound.
LEMMA FaultCount ==
    ASSUME TypeOK, Fault \/ UNCHANGED faults
    PROVE  /\ faults' \in 0 .. MaxFaults
           /\ faults' >= faults
           /\ Fault => faults' > 0
           /\ Fault => faults' > faults
<1>1. faults \in Nat /\ MaxFaults \in Nat /\ faults <= MaxFaults
    BY InstanceAssumption DEF TypeOK
<1> QED
    BY <1>1 DEF Fault

\* Docker calls keep a container's state among the known ones, and only the
\* provisioning task makes one.
LEMMA StopAndRemoveType ==
    ASSUME NEW i \in Instance, TypeOK, StopAndRemove(i)
    PROVE  /\ docker' \in [Instance -> Containers]
           /\ faults' \in 0 .. MaxFaults
           /\ faults' >= faults
           /\ \A j \in Instance : j # i => docker'[j] = docker[j]
           /\ docker'[i] = "none" <=> docker[i] = "none"
           /\ ~Exists(i) => ~Exists(i)'
           /\ Exists(i)' => faults' > 0 /\ faults' > faults
<1>1. CASE /\ SetDocker(i, IF Exists(i) THEN "removed" ELSE docker[i])
           /\ UNCHANGED faults
    BY <1>1 DEF TypeOK, SetDocker, Exists, Containers
<1>2. ASSUME NEW c \in {docker[i], "exited"}, Exists(i), SetDocker(i, c), Fault
      PROVE  /\ docker' \in [Instance -> Containers]
             /\ faults' \in 0 .. MaxFaults
             /\ faults' >= faults
             /\ \A j \in Instance : j # i => docker'[j] = docker[j]
             /\ docker'[i] = "none" <=> docker[i] = "none"
             /\ faults' > 0
             /\ faults' > faults
    <2>1. faults' \in 0 .. MaxFaults /\ faults' >= faults /\ faults' > 0 /\ faults' > faults
        BY <1>2, FaultCount
    <2>2. docker' = [docker EXCEPT ![i] = c] /\ c \in Containers /\ c # "none"
        BY <1>2 DEF TypeOK, SetDocker, Exists, Containers
    <2>3. docker[i] # "none"
        BY <1>2 DEF Exists
    <2> QED
        BY <2>1, <2>2, <2>3 DEF TypeOK
<1> QED
    BY <1>1, <1>2 DEF StopAndRemove

\* Every step of a request handler keeps the types.
LEMMA RequestType ==
    ASSUME TypeOK, NEW r \in Request, HandlerPhase(r), RequestStep(r)
    PROVE  TypeOK'
<1>1. CASE CreatePort(r)
    BY <1>1 DEF TypeOK, CreatePort, Return, Goto, FreePorts, Pcs, rowVars, envVars
<1>2. CASE CreateInsert(r)
    BY <1>2 DEF TypeOK, CreateInsert, HandlerPhase, Return, Goto, Pcs, Statuses, OpStatuses,
                Workers, envVars
<1>3. CASE DeleteDocker(r)
    <2>1. target[r] \in Instance
        BY <1>3 DEF DeleteDocker, HandlerPhase
    <2>2. StopAndRemove(target[r])
        BY <1>3 DEF DeleteDocker
    <2> QED
        BY <1>3, <2>1, <2>2, StopAndRemoveType DEF TypeOK, DeleteDocker, Goto, Pcs, rowVars
<1>4. CASE DeleteCommit(r)
    BY <1>4 DEF TypeOK, DeleteCommit, HandlerPhase, Return, Goto, Pcs, Statuses, envVars
<1>5. CASE StartDocker(r)
    <2>1. faults' \in 0 .. MaxFaults
        BY <1>5, FaultCount DEF StartDocker
    <2>2. docker' \in [Instance -> Containers]
        BY <1>5 DEF TypeOK, StartDocker, SetDocker, Containers
    <2> QED
        BY <1>5, <2>1, <2>2 DEF TypeOK, StartDocker, Return, Goto, Pcs, rowVars
<1>6. CASE StartCommit(r)
    BY <1>6 DEF TypeOK, StartCommit, Commit, HandlerPhase, Return, Goto, Pcs, Statuses, envVars
<1>7. CASE StopDocker(r)
    <2>1. faults' \in 0 .. MaxFaults
        BY <1>7, FaultCount DEF StopDocker
    <2>2. docker' \in [Instance -> Containers]
        BY <1>7 DEF TypeOK, StopDocker, SetDocker, Containers
    <2> QED
        BY <1>7, <2>1, <2>2 DEF TypeOK, StopDocker, Return, Goto, Pcs, rowVars
<1>8. CASE StopCommit(r)
    BY <1>8 DEF TypeOK, StopCommit, Commit, HandlerPhase, Return, Goto, Pcs, Statuses, envVars
<1>9. CASE RebootDocker(r)
    <2>1. faults' \in 0 .. MaxFaults
        BY <1>9, FaultCount DEF RebootDocker
    <2>2. docker' \in [Instance -> Containers]
        BY <1>9 DEF TypeOK, RebootDocker, SetDocker, Containers
    <2> QED
        BY <1>9, <2>1, <2>2 DEF TypeOK, RebootDocker, Return, Goto, Pcs, rowVars
<1>10. CASE RequestLost(r)
    <2>1. faults' \in 0 .. MaxFaults
        BY <1>10, FaultCount DEF RequestLost
    <2> QED
        BY <1>10, <2>1 DEF TypeOK, RequestLost, Return, Goto, Pcs, rowVars
<1> QED
    BY <1>1, <1>2, <1>3, <1>4, <1>5, <1>6, <1>7, <1>8, <1>9, <1>10 DEF RequestStep

\* A request that begins only takes note of its row.
LEMMA ReadType ==
    ASSUME TypeOK, NEW r \in Request, NEW i \in Instance, RequestRead(r, i)
    PROVE  TypeOK'
BY DEF TypeOK, RequestRead, CreateCheck, DeleteRead, StartRead, StopRead, RebootRead, Begin,
       Goto, Pcs, rowVars, envVars

\* Every step of a provisioning task keeps the types.
LEMMA WorkerType ==
    ASSUME TypeOK, NEW i \in Instance, WorkerStep(i)
    PROVE  TypeOK'
<1>1. CASE WorkerBegin(i)
    BY <1>1 DEF TypeOK, WorkerBegin, WorkerGoto, OpStatuses, Workers, reqVars, envVars
<1>2. CASE WorkerCreate(i)
    <2>1. faults' \in 0 .. MaxFaults
        BY <1>2, FaultCount DEF WorkerCreate
    <2>2. docker' \in [Instance -> Containers]
        BY <1>2 DEF TypeOK, WorkerCreate, SetDocker, Containers
    <2> QED
        BY <1>2, <2>1, <2>2 DEF TypeOK, WorkerCreate, WorkerGoto, Workers, rowVars, reqVars
<1>3. CASE WorkerStart(i)
    <2>1. faults' \in 0 .. MaxFaults
        BY <1>3, FaultCount DEF WorkerStart
    <2>2. docker' \in [Instance -> Containers]
        BY <1>3 DEF TypeOK, WorkerStart, SetDocker, Containers
    <2> QED
        BY <1>3, <2>1, <2>2 DEF TypeOK, WorkerStart, WorkerGoto, Workers, rowVars, reqVars
<1>4. CASE WorkerCommit(i)
    BY <1>4 DEF TypeOK, WorkerCommit, WorkerGoto, Statuses, OpStatuses, Workers, reqVars, envVars
<1>5. CASE WorkerCleanup(i)
    BY <1>5, StopAndRemoveType DEF TypeOK, WorkerCleanup, WorkerGoto, Workers, rowVars, reqVars
<1>6. CASE WorkerFail(i)
    BY <1>6 DEF TypeOK, WorkerFail, WorkerGoto, Statuses, OpStatuses, Workers, reqVars, envVars
<1>7. CASE WorkerUnwind(i)
    BY <1>7, StopAndRemoveType DEF TypeOK, WorkerUnwind, WorkerGoto, Workers, rowVars, reqVars
<1>8. CASE WorkerLost(i)
    <2>1. faults' \in 0 .. MaxFaults
        BY <1>8, FaultCount DEF WorkerLost
    <2> QED
        BY <1>8, <2>1 DEF TypeOK, WorkerLost, WorkerGoto, Workers, rowVars, reqVars
<1> QED
    BY <1>1, <1>2, <1>3, <1>4, <1>5, <1>6, <1>7, <1>8 DEF WorkerStep

\* A container that ends or is removed, and a restart, keep the types.
LEMMA OutsideType ==
    ASSUME TypeOK, (\E i \in Instance : ContainerGoes(i)) \/ Crash
    PROVE  TypeOK'
<1>1. ASSUME NEW i \in Instance, ContainerGoes(i) PROVE TypeOK'
    BY <1>1, InstanceAssumption
       DEF TypeOK, ContainerGoes, SetDocker, Fault, Containers, rowVars, reqVars
<1>2. CASE Crash
    BY <1>2, InstanceAssumption DEF TypeOK, Crash, Pcs, Workers, rowVars
<1> QED
    BY <1>1, <1>2

\* Every step keeps the types.
LEMMA NextType ==
    ASSUME IInv, [Next]_vars
    PROVE  TypeOK'
<1>1. ASSUME NEW r \in Request, RequestStep(r) PROVE TypeOK'
    BY <1>1, RequestType DEF IInv
<1>2. ASSUME NEW r \in Request, NEW i \in Instance, RequestRead(r, i) PROVE TypeOK'
    BY <1>2, ReadType DEF IInv
<1>3. ASSUME NEW i \in Instance, WorkerStep(i) PROVE TypeOK'
    BY <1>3, WorkerType DEF IInv
<1>4. CASE (\E i \in Instance : ContainerGoes(i)) \/ Crash
    BY <1>4, OutsideType DEF IInv
<1>5. CASE UNCHANGED vars
    BY <1>5 DEF IInv, TypeOK, vars, rowVars, reqVars, envVars
<1> QED
    BY <1>1, <1>2, <1>3, <1>4, <1>5 DEF Next, Operate

-----------------------------------------------------------------------------
(* Rows.                                                                   *)

\* A step of a request handler keeps every row, operation, provisioning task
\* and container in phase.
LEMMA RequestRows ==
    ASSUME IInv, NEW r \in Request, RequestStep(r), NEW j \in Instance
    PROVE  RowPhase(j)'
<1> TypeOK /\ RowPhase(j) /\ HandlerPhase(r)
    BY DEF IInv
<1> USE DEF RowPhase, HandlerPhase
<1>1. CASE CreatePort(r)
    BY <1>1 DEF CreatePort, Exists, rowVars, envVars
<1>2. CASE CreateInsert(r)
    BY <1>2 DEF CreateInsert, TypeOK, Exists, envVars
<1>3. CASE DeleteDocker(r)
    <2>1. target[r] \in Instance /\ StopAndRemove(target[r])
        BY <1>3 DEF DeleteDocker
    <2>2. /\ docker'[j] = "none" <=> docker[j] = "none"
          /\ Exists(j)' => Exists(j)
          /\ faults > 0 => faults' > 0
          /\ faults > 1 => faults' > 1
        BY <2>1, StopAndRemoveType DEF TypeOK, Exists
    <2> QED
        BY <1>3, <2>2 DEF DeleteDocker, rowVars
<1>4. CASE DeleteCommit(r)
    BY <1>4 DEF DeleteCommit, TypeOK, Exists, envVars
<1>5. CASE StartDocker(r)
    <2>1. (faults > 0 => faults' > 0) /\ (faults > 1 => faults' > 1)
        BY <1>5, FaultCount DEF StartDocker, TypeOK
    <2>2. /\ docker'[j] = "none" <=> docker[j] = "none"
          /\ Exists(j)' => Exists(j)
        BY <1>5 DEF StartDocker, SetDocker, CanStart, Exists, TypeOK
    <2> QED
        BY <1>5, <2>1, <2>2 DEF StartDocker, rowVars
<1>6. CASE StartCommit(r)
    BY <1>6 DEF StartCommit, Commit, TypeOK, Exists, envVars
<1>7. CASE StopDocker(r)
    <2>1. (faults > 0 => faults' > 0) /\ (faults > 1 => faults' > 1)
        BY <1>7, FaultCount DEF StopDocker, TypeOK
    <2>2. /\ docker'[j] = "none" <=> docker[j] = "none"
          /\ Exists(j)' => Exists(j)
        BY <1>7 DEF StopDocker, SetDocker, Exists, TypeOK
    <2> QED
        BY <1>7, <2>1, <2>2 DEF StopDocker, rowVars
<1>8. CASE StopCommit(r)
    BY <1>8 DEF StopCommit, Commit, TypeOK, Exists, envVars
<1>9. CASE RebootDocker(r)
    <2>1. (faults > 0 => faults' > 0) /\ (faults > 1 => faults' > 1)
        BY <1>9, FaultCount DEF RebootDocker, TypeOK
    <2>2. /\ docker'[j] = "none" <=> docker[j] = "none"
          /\ Exists(j)' => Exists(j)
        BY <1>9 DEF RebootDocker, SetDocker, CanStart, Exists, TypeOK
    <2> QED
        BY <1>9, <2>1, <2>2 DEF RebootDocker, rowVars
<1>10. CASE RequestLost(r)
    <2>1. (faults > 0 => faults' > 0) /\ (faults > 1 => faults' > 1)
        BY <1>10, FaultCount DEF RequestLost, TypeOK
    <2> QED
        BY <1>10, <2>1 DEF RequestLost, Exists, rowVars
<1> QED
    BY <1>1, <1>2, <1>3, <1>4, <1>5, <1>6, <1>7, <1>8, <1>9, <1>10 DEF RequestStep

\* So does a request that begins: it writes nothing.
LEMMA ReadRows ==
    ASSUME IInv, NEW r \in Request, NEW i \in Instance, RequestRead(r, i), NEW j \in Instance
    PROVE  RowPhase(j)'
BY DEF IInv, RowPhase, Exists, RequestRead, CreateCheck, DeleteRead, StartRead, StopRead,
       RebootRead, Begin, rowVars, envVars

\* So does a step of a provisioning task.
LEMMA WorkerRows ==
    ASSUME IInv, NEW i \in Instance, WorkerStep(i), NEW j \in Instance
    PROVE  RowPhase(j)'
<1> TypeOK /\ RowPhase(j) /\ RowPhase(i)
    BY DEF IInv
<1> USE DEF RowPhase
<1>1. CASE WorkerBegin(i)
    BY <1>1 DEF WorkerBegin, WorkerGoto, TypeOK, Exists, envVars
<1>2. CASE WorkerCreate(i)
    <2>1. (faults > 0 => faults' > 0) /\ (faults > 1 => faults' > 1) /\ (Fault => faults' > 0)
        BY <1>2, FaultCount DEF WorkerCreate, TypeOK
    <2> QED
        BY <1>2, <2>1 DEF WorkerCreate, WorkerGoto, SetDocker, TypeOK, Exists, rowVars
<1>3. CASE WorkerStart(i)
    <2>1. (faults > 0 => faults' > 0) /\ (faults > 1 => faults' > 1)
        BY <1>3, FaultCount DEF WorkerStart, TypeOK
    <2>2. /\ docker'[j] = "none" <=> docker[j] = "none"
          /\ Exists(j)' => Exists(j)
        BY <1>3 DEF WorkerStart, SetDocker, CanStart, Exists, TypeOK
    <2> QED
        BY <1>3, <2>1, <2>2 DEF WorkerStart, WorkerGoto, TypeOK, rowVars
<1>4. CASE WorkerCommit(i)
    BY <1>4 DEF WorkerCommit, WorkerGoto, TypeOK, Exists, envVars
<1>5. CASE WorkerCleanup(i)
    <2>1. StopAndRemove(i)
        BY <1>5 DEF WorkerCleanup
    <2>2. /\ docker'[j] = "none" <=> docker[j] = "none"
          /\ Exists(j)' => Exists(j)
          /\ faults > 0 => faults' > 0
          /\ faults > 1 => faults' > 1
          /\ Exists(i)' => faults' > 0
        BY <2>1, StopAndRemoveType DEF TypeOK, Exists
    <2> QED
        BY <1>5, <2>2 DEF WorkerCleanup, WorkerGoto, TypeOK, rowVars
<1>6. CASE WorkerFail(i)
    BY <1>6 DEF WorkerFail, WorkerGoto, TypeOK, Exists, envVars
<1>7. CASE WorkerUnwind(i)
    <2>1. StopAndRemove(i) /\ faults > 0
        BY <1>7 DEF WorkerUnwind
    <2>2. /\ docker'[j] = "none" <=> docker[j] = "none"
          /\ Exists(j)' => Exists(j)
          /\ faults > 0 => faults' > 0
          /\ faults > 1 => faults' > 1
          /\ Exists(i)' => faults' > 1
        BY <2>1, StopAndRemoveType DEF TypeOK, Exists
    <2> QED
        BY <1>7, <2>2 DEF WorkerUnwind, WorkerGoto, TypeOK, rowVars
<1>8. CASE WorkerLost(i)
    <2>1. faults > 0 => faults' > 1
        BY <1>8, FaultCount DEF WorkerLost, TypeOK
    <2>2. (faults > 1 => faults' > 1) /\ faults' > 0
        BY <1>8, FaultCount DEF WorkerLost, TypeOK
    <2> QED
        BY <1>8, <2>1, <2>2 DEF WorkerLost, WorkerGoto, TypeOK, Exists, rowVars
<1> QED
    BY <1>1, <1>2, <1>3, <1>4, <1>5, <1>6, <1>7, <1>8 DEF WorkerStep

\* So do a container that goes and a restart.
LEMMA OutsideRows ==
    ASSUME IInv, (\E i \in Instance : ContainerGoes(i)) \/ Crash, NEW j \in Instance
    PROVE  RowPhase(j)'
<1> TypeOK /\ RowPhase(j)
    BY DEF IInv
<1>1. ASSUME NEW i \in Instance, ContainerGoes(i) PROVE RowPhase(j)'
    <2>1. (faults > 0 => faults' > 0) /\ (faults > 1 => faults' > 1)
        BY <1>1, FaultCount DEF ContainerGoes, TypeOK
    <2>2. /\ docker'[j] = "none" <=> docker[j] = "none"
          /\ Exists(j)' => Exists(j)
        BY <1>1 DEF ContainerGoes, SetDocker, Exists, TypeOK
    <2> QED
        BY <1>1, <2>1, <2>2 DEF RowPhase, ContainerGoes, rowVars
<1>2. CASE Crash
    BY <1>2 DEF RowPhase, Crash, Provisioning, TypeOK, Exists, OpStatuses, Workers, rowVars
<1> QED
    BY <1>1, <1>2

-----------------------------------------------------------------------------
(* Handlers.                                                               *)

\* A row, once there, stays; so does a creation that succeeded, and no request
\* or provisioning task clears a container id.
RowStays(j) ==
    /\ status[j] # "absent" => status'[j] # "absent"
    /\ createOp[j] = "SUCCESS" => createOp'[j] = "SUCCESS"
    /\ j \in recorded => j \in recorded'

LEMMA RowsStay ==
    ASSUME IInv, [Next]_vars, NEW j \in Instance
    PROVE  RowStays(j)
<1> USE DEF RowStays
<1>1. ASSUME NEW r \in Request, RequestStep(r) PROVE RowStays(j)
    BY <1>1 DEF IInv, TypeOK, RowPhase, RequestStep, CreatePort, CreateInsert, DeleteDocker,
                DeleteCommit, StartDocker, StartCommit, StopDocker, StopCommit, RebootDocker,
                RequestLost, Commit, rowVars
<1>2. ASSUME NEW r \in Request, NEW i \in Instance, RequestRead(r, i)
      PROVE  UNCHANGED rowVars
    BY <1>2 DEF RequestRead, CreateCheck, DeleteRead, StartRead, StopRead, RebootRead, Begin
<1>3. ASSUME NEW i \in Instance, WorkerStep(i) PROVE RowStays(j)
    BY <1>3 DEF IInv, TypeOK, RowPhase, WorkerStep, WorkerBegin, WorkerCreate, WorkerStart,
                WorkerCommit, WorkerCleanup, WorkerFail, WorkerUnwind, WorkerLost, rowVars
<1>4. CASE (\E i \in Instance : ContainerGoes(i)) \/ Crash
    BY <1>4 DEF ContainerGoes, Crash, rowVars
<1>5. CASE UNCHANGED vars
    BY <1>5 DEF vars, rowVars
<1> QED
    BY <1>1, <1>2, <1>3, <1>4, <1>5 DEF Next, Operate, rowVars

\* A handler that does not move keeps what it knows of its row.
LEMMA HandlerKeeps ==
    ASSUME IInv, [Next]_vars, NEW q \in Request,
           pc'[q] = pc[q], target'[q] = target[q], pick'[q] = pick[q]
    PROVE  HandlerPhase(q)'
BY RowsStay DEF IInv, HandlerPhase, RowStays

\* A step of a handler keeps every handler in phase.
LEMMA RequestHandlers ==
    ASSUME IInv, NEW r \in Request, RequestStep(r), NEW q \in Request
    PROVE  HandlerPhase(q)'
<1> TypeOK /\ HandlerPhase(r) /\ [Next]_vars
    BY DEF IInv, Next, Operate
<1>1. CASE q # r
    <2>1. pc'[q] = pc[q] /\ target'[q] = target[q] /\ pick'[q] = pick[q]
        BY <1>1 DEF TypeOK, RequestStep, CreatePort, CreateInsert, DeleteDocker, DeleteCommit,
                    StartDocker, StartCommit, StopDocker, StopCommit, RebootDocker, RequestLost,
                    Commit, Return, Goto
    <2> QED
        BY <2>1, HandlerKeeps
<1>2. ASSUME q = r, pc'[r] = "idle" PROVE HandlerPhase(q)'
    BY <1>2 DEF HandlerPhase
<1>3. CASE q = r /\ CreatePort(r)
    BY <1>2, <1>3 DEF CreatePort, Return, Goto, TypeOK, HandlerPhase, FreePorts
<1>4. CASE q = r /\ DeleteDocker(r)
    BY <1>4 DEF DeleteDocker, Goto, TypeOK, HandlerPhase, rowVars
<1>5. CASE q = r /\ StartDocker(r)
    BY <1>2, <1>5 DEF StartDocker, Return, Goto, TypeOK, HandlerPhase, rowVars
<1>6. CASE q = r /\ StopDocker(r)
    BY <1>2, <1>6 DEF StopDocker, Return, Goto, TypeOK, HandlerPhase, rowVars
<1>7. CASE q = r /\ (CreateInsert(r) \/ DeleteCommit(r) \/ StartCommit(r) \/ StopCommit(r)
                      \/ RebootDocker(r) \/ RequestLost(r))
    <2>1. pc'[r] = "idle"
        BY <1>7 DEF CreateInsert, DeleteCommit, StartCommit, StopCommit, RebootDocker,
                    RequestLost, Commit, Return, Goto, TypeOK
    <2> QED
        BY <1>2, <1>7, <2>1
<1> QED
    BY <1>1, <1>3, <1>4, <1>5, <1>6, <1>7 DEF RequestStep

\* A request that begins has just read what its phase says of its row.
LEMMA ReadHandlers ==
    ASSUME IInv, NEW r \in Request, NEW i \in Instance, RequestRead(r, i), NEW q \in Request
    PROVE  HandlerPhase(q)'
BY DEF IInv, TypeOK, RequestRead, CreateCheck, DeleteRead, StartRead, StopRead, RebootRead,
       Begin, Goto, HandlerPhase, RowPhase, rowVars

\* Every step keeps every handler in phase.
LEMMA NextHandlers ==
    ASSUME IInv, [Next]_vars, NEW q \in Request
    PROVE  HandlerPhase(q)'
<1>1. CASE Crash
    BY <1>1 DEF Crash, HandlerPhase
<1>2. ASSUME NEW i \in Instance, WorkerStep(i) \/ ContainerGoes(i) PROVE UNCHANGED reqVars
    BY <1>2 DEF WorkerStep, WorkerBegin, WorkerCreate, WorkerStart, WorkerCommit, WorkerCleanup,
                WorkerFail, WorkerUnwind, WorkerLost, ContainerGoes
<1>3. CASE UNCHANGED reqVars
    BY <1>3, HandlerKeeps DEF reqVars
<1>4. CASE UNCHANGED vars
    BY <1>3, <1>4 DEF vars, reqVars
<1> QED
    BY <1>1, <1>2, <1>3, <1>4, RequestHandlers, ReadHandlers DEF Next, Operate

-----------------------------------------------------------------------------
(* The theorems.                                                           *)

\* IInv is inductive.
LEMMA StepInv == IInv /\ [Next]_vars => IInv'
<1> SUFFICES ASSUME IInv, [Next]_vars PROVE IInv'
    OBVIOUS
<1>1. TypeOK'
    BY NextType
<1>2. ASSUME NEW j \in Instance PROVE RowPhase(j)'
    <2>1. CASE UNCHANGED vars
        BY <2>1 DEF IInv, RowPhase, Exists, vars, rowVars, envVars
    <2> QED
        BY <2>1, RequestRows, ReadRows, WorkerRows, OutsideRows DEF Next, Operate
<1>3. ASSUME NEW q \in Request PROVE HandlerPhase(q)'
    BY NextHandlers
<1> QED
    BY <1>1, <1>2, <1>3 DEF IInv

\* The inductive invariant holds in every state of every behaviour.
THEOREM Invariance == Spec => []IInv
BY InitInv, StepInv, PTL DEF Spec

\* Type correctness.
THEOREM TypeCorrect == Spec => []TypeOK
<1>1. IInv => TypeOK
    BY DEF IInv
<1> QED
    BY <1>1, Invariance, PTL

\* No container is forgotten unless Docker failed to remove it or the process
\* went down while its provisioning task ran; a database that fails under the
\* task does not do it alone.
THEOREM NoSilentOrphan == Spec => []OrphanNeedsFailure
<1>1. IInv => OrphanNeedsFailure
    BY DEF IInv, TypeOK, RowPhase, OrphanNeedsFailure, Exists, Provisioning, Workers, OpStatuses
<1> QED
    BY <1>1, Invariance, PTL

\* A failed creation never comes to life.
THEOREM FailureIsFinal == Spec => []FailedNeverRuns
<1>1. IInv => FailedNeverRuns
    BY DEF IInv, RowPhase, FailedNeverRuns
<1> QED
    BY <1>1, Invariance, PTL

\* As long as billing is out of the picture, a creation that succeeded has
\* written the container id, and nothing clears it.
Recorded == \A i \in Instance : createOp[i] = "SUCCESS" => i \in recorded

\* Only the commit that ends a provisioning task makes it SUCCESS, and it records
\* the container.
LEMMA RecordedStep == IInv /\ Recorded /\ [Next]_vars => Recorded'
<1> SUFFICES ASSUME IInv, Recorded, [Next]_vars, NEW i \in Instance, createOp'[i] = "SUCCESS"
             PROVE  i \in recorded'
    BY DEF Recorded
<1>1. CASE createOp[i] = "SUCCESS"
    BY <1>1, RowsStay DEF Recorded, RowStays
<1>2. CASE createOp[i] # "SUCCESS"
    BY <1>2 DEF IInv, TypeOK, Next, Operate, RequestStep, CreatePort, CreateInsert, DeleteDocker,
                DeleteCommit, StartDocker, StartCommit, StopDocker, StopCommit, RebootDocker,
                RequestLost, Commit, RequestRead, CreateCheck, DeleteRead, StartRead, StopRead,
                RebootRead, Begin, WorkerStep, WorkerBegin, WorkerCreate, WorkerStart,
                WorkerCommit, WorkerCleanup, WorkerFail, WorkerUnwind, WorkerLost, ContainerGoes,
                Crash, vars, rowVars
<1> QED
    BY <1>1, <1>2

\* Then whoever is RUNNING or STOPPED has a container id.
LEMMA RecordedRuns == IInv /\ Recorded => RunningIsRecorded
BY DEF IInv, RowPhase, Recorded, RunningIsRecorded

\* RUNNING and STOPPED rows have a container id as long as billing is out of
\* the picture.
THEOREM RunningHasContainer == Spec => []RunningIsRecorded
<1>1. Init => Recorded
    BY DEF Init, Recorded
<1> QED
    BY <1>1, InitInv, StepInv, RecordedStep, RecordedRuns, PTL DEF Spec

\* One step from a row whose delete is over.
LEMMA SettledStep ==
    ASSUME IInv, [Next]_vars, NEW i \in Instance, Settled(i)
    PROVE  Settled(i)' /\ (docker'[i] = "running" => docker[i] = "running")
<1> TypeOK /\ RowPhase(i) /\ (\A r \in Request : HandlerPhase(r)) /\ worker[i] # "none"
    BY DEF IInv, RowPhase, Settled
<1>1. ASSUME NEW r \in Request, RequestStep(r)
      PROVE  Settled(i)' /\ (docker'[i] = "running" => docker[i] = "running")
    <2>1. CASE target[r] = i
        <3>1. \/ CreatePort(r) \/ CreateInsert(r) \/ DeleteDocker(r) \/ DeleteCommit(r)
              \/ RequestLost(r)
            BY <1>1, <2>1 DEF Settled, Reviving, RequestStep, StartDocker, StartCommit,
                              StopDocker, StopCommit, RebootDocker, RequestLost, Commit
        <3>2. UNCHANGED worker /\ status'[i] = "TERMINATED"
            BY <2>1, <3>1 DEF TypeOK, Settled, CreatePort, CreateInsert, DeleteDocker,
                              DeleteCommit, RequestLost, rowVars
        <3>3. docker'[i] = "running" => docker[i] = "running"
            BY <2>1, <3>1 DEF TypeOK, CreatePort, CreateInsert, DeleteDocker, DeleteCommit,
                              RequestLost, StopAndRemove, SetDocker, Exists
        <3>4. \A q \in Request : target'[q] = i => ~Reviving(q)'
            BY <2>1, <3>1 DEF TypeOK, Settled, Reviving, CreatePort, CreateInsert, DeleteDocker,
                              DeleteCommit, RequestLost, Return, Goto
        <3> QED
            BY <3>2, <3>3, <3>4 DEF Settled, Provisioning
    <2>2. CASE target[r] # i
        <3>1. status'[i] = status[i] /\ worker'[i] = worker[i] /\ docker'[i] = docker[i]
            BY <1>1, <2>2 DEF TypeOK, RequestStep, CreatePort, CreateInsert, DeleteDocker,
                              DeleteCommit, StartDocker, StartCommit, StopDocker, StopCommit,
                              RebootDocker, RequestLost, Commit, StopAndRemove, SetDocker, rowVars
        <3>2. \A q \in Request : target'[q] = i => target[q] = i /\ pc'[q] = pc[q]
            BY <1>1, <2>2, InstanceAssumption
               DEF TypeOK, RequestStep, CreatePort, CreateInsert, DeleteDocker, DeleteCommit,
                   StartDocker, StartCommit, StopDocker, StopCommit, RebootDocker, RequestLost,
                   Commit, Return, Goto
        <3> QED
            BY <3>1, <3>2 DEF Settled, Reviving, Provisioning
    <2> QED
        BY <2>1, <2>2
<1>2. ASSUME NEW r \in Request, NEW k \in Instance, RequestRead(r, k)
      PROVE  Settled(i)' /\ UNCHANGED docker
    BY <1>2 DEF TypeOK, Settled, Reviving, Provisioning, RequestRead, CreateCheck, DeleteRead,
                StartRead, StopRead, RebootRead, Begin, Goto, rowVars
<1>3. ASSUME NEW k \in Instance, WorkerStep(k)
      PROVE  Settled(i)' /\ docker'[i] = docker[i]
    <2>1. k # i
        BY <1>3 DEF Settled, Provisioning, WorkerStep, WorkerBegin, WorkerCreate, WorkerStart,
                    WorkerCommit, WorkerCleanup, WorkerFail, WorkerUnwind, WorkerLost
    <2>2. /\ status'[i] = status[i] /\ worker'[i] = worker[i] /\ docker'[i] = docker[i]
          /\ UNCHANGED reqVars
        BY <1>3, <2>1 DEF TypeOK, WorkerStep, WorkerBegin, WorkerCreate, WorkerStart,
                          WorkerCommit, WorkerCleanup, WorkerFail, WorkerUnwind, WorkerLost,
                          StopAndRemove, SetDocker, WorkerGoto, rowVars
    <2> QED
        BY <2>2 DEF Settled, Reviving, Provisioning, reqVars
<1>4. ASSUME NEW k \in Instance, ContainerGoes(k)
      PROVE  Settled(i)' /\ (docker'[i] = "running" => docker[i] = "running")
    BY <1>4 DEF TypeOK, Settled, Reviving, Provisioning, ContainerGoes, SetDocker, rowVars,
                reqVars
<1>5. CASE Crash
    BY <1>5, InstanceAssumption
       DEF TypeOK, Settled, Reviving, Provisioning, Crash, rowVars
<1>6. CASE UNCHANGED vars
    BY <1>6 DEF Settled, Reviving, Provisioning, vars, rowVars, reqVars
<1> QED
    BY <1>1, <1>2, <1>3, <1>4, <1>5, <1>6 DEF Next, Operate

\* A delete is final once the operations it overlapped are over.
THEOREM DeleteStays == Spec => SettledStaysDeleted
<1>1. IInv /\ [Next]_vars =>
          [\A i \in Instance :
              Settled(i) => /\ Settled(i)'
                            /\ docker'[i] = "running" => docker[i] = "running"]_vars
    BY SettledStep
<1> QED
    BY <1>1, Invariance, PTL DEF Spec, SettledStaysDeleted

-----------------------------------------------------------------------------
(* What the API tells a tenant.                                            *)

\* Every write of a row or its operation is one the tenant was promised.
LEMMA PromiseStep ==
    ASSUME IInv, [Next]_vars
    PROVE  [Promise!Next]_(Promise!told)
<1> TypeOK
    BY DEF IInv
<1> USE DEF Promise!told
<1>1. ASSUME UNCHANGED rowVars PROVE UNCHANGED Promise!told
    BY <1>1 DEF rowVars
<1>2. ASSUME NEW r \in Request, RequestStep(r) PROVE [Promise!Next]_(Promise!told)
    <2> DEFINE i == target[r]
    <2>1. CASE UNCHANGED rowVars
        BY <1>1, <2>1
    <2>2. CASE CreateInsert(r) /\ ~UNCHANGED rowVars
        <3>1. i \in Instance /\ Promise!Accept(i)
            BY <2>2 DEF IInv, HandlerPhase, CreateInsert, Promise!Accept, rowVars
        <3> QED
            BY <3>1 DEF Promise!Next
    <2>3. CASE DeleteCommit(r)
        <3>1. i \in Instance /\ Promise!Delete(i)
            BY <2>3 DEF IInv, HandlerPhase, DeleteCommit, Promise!Delete
        <3> QED
            BY <3>1 DEF Promise!Next
    <2>4. CASE StartCommit(r) \/ StopCommit(r)
        <3>1. i \in Instance /\ createOp[i] = "SUCCESS"
            BY <2>4 DEF IInv, HandlerPhase, StartCommit, StopCommit, Commit
        <3>2. CASE StartCommit(r)
            BY <3>1, <3>2 DEF TypeOK, StartCommit, Commit, Promise!Power, Promise!Next
        <3>3. CASE StopCommit(r)
            <4>1. Promise!Power({i}, "STOPPED") /\ {i} \in SUBSET Instance
                BY <3>1, <3>3 DEF TypeOK, StopCommit, Commit, Promise!Power
            <4> QED
                BY <4>1 DEF Promise!Next
        <3> QED
            BY <2>4, <3>2, <3>3
    <2>5. CASE \/ CreatePort(r) \/ DeleteDocker(r) \/ StartDocker(r) \/ StopDocker(r)
               \/ RebootDocker(r) \/ RequestLost(r)
        BY <2>1, <2>5 DEF CreatePort, DeleteDocker, StartDocker, StopDocker, RebootDocker,
                          RequestLost
    <2> QED
        BY <1>2, <2>1, <2>2, <2>3, <2>4, <2>5 DEF RequestStep
<1>3. ASSUME NEW r \in Request, NEW i \in Instance, RequestRead(r, i) PROVE UNCHANGED rowVars
    BY <1>3 DEF RequestRead, CreateCheck, DeleteRead, StartRead, StopRead, RebootRead, Begin
<1>4. ASSUME NEW i \in Instance, WorkerStep(i) PROVE [Promise!Next]_(Promise!told)
    <2> RowPhase(i)
        BY DEF IInv
    <2>1. CASE WorkerBegin(i)
        <3>1. Promise!Provision(i)
            BY <2>1 DEF RowPhase, WorkerBegin, Promise!Provision
        <3> QED
            BY <3>1 DEF Promise!Next
    <2>2. CASE WorkerCommit(i)
        <3>1. Promise!Succeed(i)
            BY <2>2 DEF RowPhase, WorkerCommit, Promise!Succeed, Promise!End
        <3> QED
            BY <3>1 DEF Promise!Next
    <2>3. CASE WorkerFail(i)
        <3>1. Promise!Fail(i)
            BY <2>3 DEF RowPhase, WorkerFail, Promise!Fail, Promise!End
        <3> QED
            BY <3>1 DEF Promise!Next
    <2>4. CASE WorkerCreate(i) \/ WorkerStart(i) \/ WorkerCleanup(i) \/ WorkerUnwind(i)
               \/ WorkerLost(i)
        BY <1>1, <2>4 DEF WorkerCreate, WorkerStart, WorkerCleanup, WorkerUnwind, WorkerLost
    <2> QED
        BY <1>4, <2>1, <2>2, <2>3, <2>4 DEF WorkerStep
<1>5. ASSUME (\E i \in Instance : ContainerGoes(i)) \/ Crash \/ UNCHANGED vars
      PROVE  UNCHANGED rowVars
    BY <1>5 DEF ContainerGoes, Crash, vars
<1> QED
    BY <1>1, <1>2, <1>3, <1>4, <1>5 DEF Next, Operate

\* There is no instance at the start.
LEMMA PromiseInit == Init => Promise!Init
BY DEF Init, Promise!Init

\* Handlers, provisioning tasks, faults and restarts implement what the API tells
\* a tenant about an instance.
THEOREM RowsImplementPromise == Spec => RowsKeepPromise
<1>1. IInv /\ [Next]_vars => [Promise!Next]_(Promise!told)
    BY PromiseStep
<1> QED
    BY <1>1, PromiseInit, Invariance, PTL DEF Spec, RowsKeepPromise, Promise!Spec

-----------------------------------------------------------------------------
(* Every creation ends.  TLAPS does not know ENABLED: that a task which has *)
(* steps left can take one is a hypothesis, which TLC evaluates.            *)

TasksCanStep == \A i \in Instance : Provisioning(i) => ENABLED <<WorkerStep(i)>>_vars

\* Again and again a task takes a step or has none left.
Served(i) == []<>~Provisioning(i) \/ []<><<WorkerStep(i)>>_vars

At(i, s) == worker[i] = s
Ended(i) == worker[i] \in {"done", "lost", "killed"}

\* The places a task goes to from s.
After(s) ==
    CASE s = "queued"  -> {"create", "lost"}
      [] s = "create"  -> {"start", "fail", "lost"}
      [] s = "start"   -> {"commit", "cleanup"}
      [] s = "commit"  -> {"done", "unwind"}
      [] s = "cleanup" -> {"fail"}
      [] s = "unwind"  -> {"lost"}
      [] OTHER         -> {"done", "lost"}

\* A step of the task moves it on; any other leaves it or kills it.
LEMMA WorkerPath ==
    ASSUME IInv, NEW i \in Instance, Provisioning(i)
    PROVE  /\ WorkerStep(i) => worker'[i] \in After(worker[i])
           /\ [Next \/ UNCHANGED worker]_vars =>
                  worker'[i] \in {worker[i], "killed"} \cup After(worker[i])
<1> TypeOK
    BY DEF IInv
<1>1. WorkerStep(i) => worker'[i] \in After(worker[i])
    BY DEF After, TypeOK, WorkerStep, WorkerBegin, WorkerCreate, WorkerStart, WorkerCommit,
           WorkerCleanup, WorkerFail, WorkerUnwind, WorkerLost, WorkerGoto
<1>2. ASSUME NEW j \in Instance \ {i}, WorkerStep(j) PROVE worker'[i] = worker[i]
    BY <1>2 DEF TypeOK, WorkerStep, WorkerBegin, WorkerCreate, WorkerStart, WorkerCommit,
                WorkerCleanup, WorkerFail, WorkerUnwind, WorkerLost, WorkerGoto
<1>3. ASSUME NEW r \in Request, RequestStep(r) PROVE worker'[i] = worker[i]
    <2> status[target[r]] = "absent" => target[r] # i
        BY DEF IInv, RowPhase, Provisioning
    <2> QED
        BY <1>3 DEF TypeOK, RequestStep, CreatePort, CreateInsert, DeleteDocker, DeleteCommit,
                    StartDocker, StartCommit, StopDocker, StopCommit, RebootDocker, RequestLost,
                    Commit
<1>4. ASSUME NEW r \in Request, NEW j \in Instance, RequestRead(r, j) PROVE worker'[i] = worker[i]
    BY <1>4 DEF RequestRead, CreateCheck, DeleteRead, StartRead, StopRead, RebootRead, Begin
<1>5. ASSUME (\E j \in Instance : ContainerGoes(j)) \/ UNCHANGED worker \/ UNCHANGED vars
      PROVE  worker'[i] = worker[i]
    BY <1>5 DEF ContainerGoes, vars
<1>6. ASSUME Crash PROVE worker'[i] = "killed"
    BY <1>6 DEF Crash
<1> QED
    BY <1>1, <1>2, <1>3, <1>4, <1>5, <1>6 DEF Next, Operate

\* Each place of a task leads to the next ones, as far as its end.
LEMMA WorkerEnds ==
    ASSUME NEW i \in Instance
    PROVE  []IInv /\ [][Next \/ UNCHANGED worker]_vars /\ Served(i) =>
               (Provisioning(i) ~> Ended(i))
<1>1. /\ At(i, "queued") => Provisioning(i)
      /\ At(i, "create") => Provisioning(i)
      /\ At(i, "start") => Provisioning(i)
      /\ At(i, "commit") => Provisioning(i)
      /\ At(i, "cleanup") => Provisioning(i)
      /\ At(i, "unwind") => Provisioning(i)
      /\ At(i, "fail") => Provisioning(i)
    BY DEF Provisioning, At
<1>2. Provisioning(i) =>
          \/ At(i, "queued") \/ At(i, "create") \/ At(i, "start") \/ At(i, "commit")
          \/ At(i, "cleanup") \/ At(i, "unwind") \/ At(i, "fail")
    BY DEF Provisioning, At
<1>3. IInv /\ [Next \/ UNCHANGED worker]_vars =>
             /\ At(i, "queued") => (At(i, "queued") \/ At(i, "create") \/ Ended(i))'
             /\ At(i, "create") => (At(i, "create") \/ At(i, "start") \/ At(i, "fail") \/ Ended(i))'
             /\ At(i, "start") => (At(i, "start") \/ At(i, "commit") \/ At(i, "cleanup") \/ Ended(i))'
             /\ At(i, "commit") => (At(i, "commit") \/ At(i, "unwind") \/ Ended(i))'
             /\ At(i, "unwind") => (At(i, "unwind") \/ Ended(i))'
             /\ At(i, "cleanup") => (At(i, "cleanup") \/ At(i, "fail") \/ Ended(i))'
             /\ At(i, "fail") => (At(i, "fail") \/ Ended(i))'
    BY <1>1, WorkerPath DEF After, At, Ended
<1>4. IInv /\ <<WorkerStep(i)>>_vars =>
             /\ At(i, "queued") => (At(i, "create") \/ Ended(i))'
             /\ At(i, "create") => (At(i, "start") \/ At(i, "fail") \/ Ended(i))'
             /\ At(i, "start") => (At(i, "commit") \/ At(i, "cleanup"))'
             /\ At(i, "commit") => (At(i, "unwind") \/ Ended(i))'
             /\ At(i, "unwind") => Ended(i)'
             /\ At(i, "cleanup") => At(i, "fail")'
             /\ At(i, "fail") => Ended(i)'
    BY <1>1, WorkerPath DEF After, At, Ended
<1> QED
    BY <1>1, <1>2, <1>3, <1>4, PTL DEF Served

\* So the operation of a task that is served ends.  The hypotheses are what holds
\* of tasks beside billing and beside scripts, too.
Open(i)   == createOp[i] \in {"PENDING", "RUNNING"}
Closed(i) == createOp[i] \in {"SUCCESS", "FAILED"} \/ worker[i] \in {"killed", "lost"}

LEMMA ServedCloses ==
    ASSUME NEW i \in Instance
    PROVE  []IInv /\ [][Next \/ UNCHANGED worker]_vars /\ Served(i) => (Open(i) ~> Closed(i))
<1>1. IInv /\ Open(i) => Provisioning(i) \/ Closed(i)
    BY DEF IInv, TypeOK, RowPhase, Provisioning, Workers, Open, Closed
<1>2. IInv /\ Ended(i) => Closed(i)
    BY DEF IInv, RowPhase, Ended, Closed
<1> QED
    BY <1>1, <1>2, WorkerEnds, PTL

\* Every CREATE operation reaches SUCCESS or FAILED unless the process went down
\* or the database failed under its task, whatever requests, Docker, restarts
\* and the database under other threads do.
THEOREM CreationsEnd == Spec /\ []TasksCanStep => CreateSettles
<1>1. Spec /\ []TasksCanStep =>
          []IInv /\ [][Next]_vars /\ []TasksCanStep /\ \A i \in Instance : WorkerFairness(i)
    BY Invariance DEF Spec, Fairness
<1>2. ASSUME NEW i \in Instance
      PROVE  []IInv /\ [][Next]_vars /\ []TasksCanStep /\ WorkerFairness(i) => (Open(i) ~> Closed(i))
    <2>1. TasksCanStep => (Provisioning(i) => ENABLED <<WorkerStep(i)>>_vars)
        BY DEF TasksCanStep
    <2>2. []TasksCanStep /\ WorkerFairness(i) => Served(i)
        BY <2>1, PTL DEF Served, WorkerFairness
    <2>3. [Next]_vars => [Next \/ UNCHANGED worker]_vars
        OBVIOUS
    <2> QED
        BY <2>2, <2>3, ServedCloses, PTL
<1>3. []IInv /\ [][Next]_vars /\ []TasksCanStep /\ (\A i \in Instance : WorkerFairness(i)) =>
          \A i \in Instance : Open(i) ~> Closed(i)
    BY <1>2
<1> QED
    BY <1>1, <1>3 DEF CreateSettles, Open, Closed
=============================================================================
