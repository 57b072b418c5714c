----------------------- MODULE InstanceBilling_proofs -----------------------
(***************************************************************************)
(* What holds of instances when the billing tick writes their rows too,    *)
(* for any instances, tenants, requests and bounds.                        *)
(*                                                                         *)
(* The tick breaks what InstanceLifecycle promises of container ids, but   *)
(* not IInv: it takes only rows whose creation succeeded, and it clears a  *)
(* container id only when the container is gone.                           *)
(***************************************************************************)
EXTENDS InstanceBilling, InstanceSerial_proofs

\* Every row the tick has taken is one whose creation succeeded.
TakenOnce ==
    /\ \A i \in todo \cup halting : createOp[i] = "SUCCESS"
    /\ biller \in {"stats", "halt"} => createOp[current] = "SUCCESS"

TickInv == IInv /\ TickTypes /\ TakenOnce

\* What a step of the tick may do to instances.
TickWrites ==
    /\ UNCHANGED <<deletedAt, sshPort, createOp, worker, reqVars, crashes>>
    /\ balance' \in [Tenant -> Int]
    /\ status' \in [Instance -> Statuses]
    /\ \A i \in Instance : status'[i] # status[i] =>
           status'[i] = "STOPPED" /\ createOp[i] = "SUCCESS"
    /\ recorded' \subseteq recorded
    /\ \A i \in recorded : i \notin recorded' => ~Exists(i) /\ UNCHANGED docker
    /\ docker' \in [Instance -> Containers]
    /\ \A i \in Instance : docker'[i] # docker[i] =>
           docker[i] = "running" /\ docker'[i] = "exited"
    /\ Fault \/ UNCHANGED faults

-----------------------------------------------------------------------------
(* What the tick writes.                                                   *)

\* A row marked as stopped keeps its type.
LEMMA MarkStoppedWrites ==
    ASSUME IInv, NEW i \in Instance, NEW held, MarkStopped(i, held),
           createOp[i] = "SUCCESS", ~Exists(i) \/ i \notin recorded,
           UNCHANGED <<worker, reqVars, docker, balance, envVars>>
    PROVE  TickWrites
<1>1. /\ status' \in [Instance -> Statuses]
      /\ \A j \in Instance : status'[j] # status[j] =>
             status'[j] = "STOPPED" /\ createOp[j] = "SUCCESS"
    BY DEF MarkStopped, IInv, TypeOK, Statuses
<1>2. /\ recorded' \subseteq recorded
      /\ \A j \in recorded : j \notin recorded' => ~Exists(j)
    BY DEF MarkStopped
<1> QED
    BY <1>1, <1>2 DEF MarkStopped, TickWrites, IInv, TypeOK, envVars

\* Every step of the tick writes no more than TickWrites allows.
LEMMA BillerWrites ==
    ASSUME TickInv, BillerStep
    PROVE  TickWrites
<1> TypeOK /\ IInv /\ TickTypes /\ TakenOnce
    BY DEF TickInv, IInv
<1>1. CASE TickSelect \/ TickEnd
    BY <1>1 DEF TickSelect, TickEnd, TickWrites, TypeOK, vars, rowVars, reqVars, envVars
<1>2. ASSUME NEW i \in Instance, TickVisit(i) PROVE TickWrites
    <2>1. CASE UNCHANGED rowVars
        BY <1>2, <2>1 DEF TickVisit, TickWrites, TypeOK, rowVars, envVars
    <2>2. CASE ~UNCHANGED rowVars
        <3>1. /\ i \in todo /\ i \notin recorded
              /\ MarkStopped(i, IF expired THEN status[i] ELSE "RUNNING")
              /\ UNCHANGED <<worker, reqVars, docker, balance, envVars>>
            BY <1>2, <2>2 DEF TickVisit
        <3> QED
            BY <3>1, MarkStoppedWrites DEF TakenOnce
    <2> QED
        BY <2>1, <2>2
<1>3. CASE TickSkip
    BY <1>3 DEF TickSkip, TickWrites, TypeOK, rowVars
<1>4. CASE TickGone
    <2>1. /\ current \in Instance /\ createOp[current] = "SUCCESS" /\ ~Exists(current)
          /\ MarkStopped(current, seen)
          /\ UNCHANGED <<worker, reqVars, docker, balance, envVars>>
        BY <1>4 DEF TickGone, TickTypes, TakenOnce
    <2> QED
        BY <2>1, MarkStoppedWrites
<1>5. CASE TickCharge
    <2>1. Owner[current] \in Tenant /\ MaxDebt \in Nat
        BY <1>5, InstanceAssumption, BillingAssumption DEF TickCharge, TickTypes
    <2>2. balance' \in [Tenant -> Int]
        BY <1>5, <2>1 DEF TickCharge, TypeOK
    <2>3. UNCHANGED <<rowVars, worker, reqVars, docker, envVars>>
        BY <1>5 DEF TickCharge
    <2> QED
        BY <2>2, <2>3 DEF TickWrites, TypeOK, rowVars, envVars
<1>6. ASSUME NEW i \in Instance, HaltContainer(i) PROVE TickWrites
    <2>1. /\ docker' \in [Instance -> Containers]
          /\ \A j \in Instance : docker'[j] # docker[j] =>
                 docker[j] = "running" /\ docker'[j] = "exited"
        BY <1>6 DEF HaltContainer, SetDocker, TypeOK, Containers
    <2> QED
        BY <1>6, <2>1 DEF HaltContainer, TickWrites, TypeOK, rowVars
<1>7. CASE HaltCommit
    BY <1>7 DEF HaltCommit, TickWrites, TakenOnce, TypeOK, Statuses, envVars
<1>8. CASE TickFails
    BY <1>8 DEF TickFails, TickWrites, TypeOK, rowVars
<1> QED
    BY <1>1, <1>2, <1>3, <1>4, <1>5, <1>6, <1>7, <1>8 DEF BillerStep

\* Such a step keeps instances in order.
LEMMA WritesKeep ==
    ASSUME IInv, TickWrites
    PROVE  IInv'
<1>1. /\ faults' \in 0 .. MaxFaults
      /\ faults > 0 => faults' > 0
      /\ faults > 1 => faults' > 1
    BY FaultCount DEF TickWrites, IInv, TypeOK
<1>2. TypeOK'
    BY <1>1 DEF TickWrites, IInv, TypeOK, reqVars
<1>3. ASSUME NEW i \in Instance PROVE RowPhase(i)'
    <2>1. TypeOK /\ RowPhase(i)
        BY DEF IInv
    <2>2. /\ Exists(i)' => Exists(i)
          /\ docker'[i] = "none" <=> docker[i] = "none"
        BY DEF TickWrites, Exists
    <2>3. createOp[i] = "SUCCESS" /\ i \notin recorded' => ~Exists(i)'
        BY <2>1, <2>2 DEF TickWrites, RowPhase
    <2>4. \/ status'[i] = status[i]
          \/ status'[i] = "STOPPED" /\ createOp[i] = "SUCCESS"
        BY DEF TickWrites
    <2>5. worker[i] = "none" => createOp[i] # "SUCCESS"
        BY <2>1 DEF RowPhase
    <2> QED
        BY <1>1, <2>1, <2>2, <2>3, <2>4, <2>5 DEF TickWrites, RowPhase
<1>4. ASSUME NEW r \in Request PROVE HandlerPhase(r)'
    <2>1. HandlerPhase(r)
        BY DEF IInv
    <2>2. \A i \in Instance : status[i] # "absent" => status'[i] # "absent"
        BY DEF TickWrites
    <2> QED
        BY <2>1, <2>2 DEF TickWrites, HandlerPhase, reqVars
<1> QED
    BY <1>2, <1>3, <1>4 DEF IInv

-----------------------------------------------------------------------------
(* What the tick knows.                                                    *)

\* A step of the tick keeps its own types and takes no row but a created one.
LEMMA TickKeeps ==
    ASSUME TickInv, BillerStep
    PROVE  TickTypes' /\ TakenOnce'
<1> IInv /\ TypeOK /\ TickTypes /\ TakenOnce
    BY DEF TickInv, IInv
<1>1. createOp' = createOp
    BY BillerWrites DEF TickWrites
<1>2. \A i \in Instance : status[i] = "RUNNING" => createOp[i] = "SUCCESS"
    BY DEF IInv, RowPhase
<1> USE <1>1, <1>2 DEF TickTypes, TakenOnce, Billers, Ages
<1>3. CASE TickSelect
    BY <1>3 DEF TickSelect, Aged
<1>4. CASE TickEnd
    BY <1>4 DEF TickEnd
<1>5. ASSUME NEW i \in Instance, TickVisit(i) PROVE TickTypes' /\ TakenOnce'
    <2>1. (IF expired THEN status[i] ELSE "RUNNING") \in Statuses
        BY DEF TypeOK, Statuses
    <2> QED
        BY <1>5, <2>1 DEF TickVisit, MarkStopped
<1>6. CASE TickSkip \/ TickGone
    BY <1>6 DEF TickSkip, TickGone, MarkStopped, Leave, Statuses
<1>7. CASE TickCharge
    <2>1. CASE Spent((IF balance[Owner[current]] > -MaxDebt
                      THEN balance[Owner[current]] - 1 ELSE balance[Owner[current]]))
        BY <1>7, <2>1 DEF TickCharge
    <2>2. CASE Leave /\ UNCHANGED <<halting, unstopped>>
        BY <1>7, <2>2 DEF TickCharge, Leave, Statuses
    <2> QED
        BY <1>7, <2>1, <2>2 DEF TickCharge
<1>8. ASSUME NEW i \in Instance, HaltContainer(i) PROVE TickTypes' /\ TakenOnce'
    BY <1>8 DEF HaltContainer
<1>9. CASE HaltCommit
    <2>1. Owner[current] \in Tenant
        BY <1>9, InstanceAssumption DEF HaltCommit
    <2> QED
        BY <1>9, <2>1 DEF HaltCommit, Leave, Statuses
<1>10. CASE TickFails
    BY <1>10 DEF TickFails, TickGivesUp, Statuses
<1> QED
    BY <1>3, <1>4, <1>5, <1>6, <1>7, <1>8, <1>9, <1>10 DEF BillerStep

\* So does a step the tick takes no part in.
LEMMA OthersKeep ==
    ASSUME TickInv, [Next]_vars, BesideTick \/ UNCHANGED billVars
    PROVE  TickInv'
<1>1. IInv'
    BY StepInv DEF TickInv
<1>2. \A i \in Instance : createOp[i] = "SUCCESS" => createOp'[i] = "SUCCESS"
    BY RowsStay DEF TickInv, RowStays
<1>3. age' \in [Instance -> Ages] /\ UNCHANGED tickVars
    BY DEF TickInv, TickTypes, BesideTick, billVars, Ages
<1> QED
    BY <1>1, <1>2, <1>3 DEF TickInv, TickTypes, TakenOnce, tickVars

\* A restart leaves the tick with nothing in its hands.
LEMMA SystemCrashKeeps ==
    ASSUME TickInv, SystemCrash
    PROVE  TickInv'
<1>1. IInv'
    BY StepInv DEF TickInv, SystemCrash, Next
<1> QED
    BY <1>1 DEF TickInv, SystemCrash, TickGivesUp, TickTypes, TakenOnce, Billers, Statuses

\* Every step keeps instances and tick in order.
LEMMA TickStepInv == TickInv /\ [SystemNext]_systemVars => TickInv'
<1> SUFFICES ASSUME TickInv, [SystemNext]_systemVars PROVE TickInv'
    OBVIOUS
<1>1. CASE BillerStep
    BY <1>1, BillerWrites, WritesKeep, TickKeeps DEF TickInv
<1>2. CASE [Next]_vars /\ (BesideTick \/ UNCHANGED billVars)
    BY <1>2, OthersKeep
<1> QED
    BY <1>1, <1>2, SystemCrashKeeps DEF SystemNext, systemVars, Next

\* There is no tick and no instance at first.
LEMMA TickInitInv == SystemInit => TickInv
<1> SUFFICES ASSUME SystemInit PROVE TickInv
    OBVIOUS
<1>1. IInv
    BY InitInv DEF SystemInit
<1> QED
    BY <1>1 DEF SystemInit, TickInv, TickTypes, TakenOnce, Billers, Statuses, Ages

-----------------------------------------------------------------------------
(* The theorems.                                                           *)

\* So they are in every state.
LEMMA TickInOrder == SystemSpec => []TickInv
BY TickInitInv, TickStepInv, PTL DEF SystemSpec

\* Type correctness of rows, requests, host and tick together.
THEOREM SystemTypeCorrect == SystemSpec => []SystemTypeOK
<1>1. TickInv => SystemTypeOK
    BY DEF TickInv, IInv, SystemTypeOK
<1> QED
    BY <1>1, TickInOrder, PTL

\* Billing never brings a failed instance to life, nor loses a container: what
\* it forgets is gone.
THEOREM BillingKeepsInstances == SystemSpec => [](OrphanNeedsFailure /\ FailedNeverRuns)
<1>1. TickInv => OrphanNeedsFailure
    BY DEF TickInv, IInv, TypeOK, RowPhase, OrphanNeedsFailure, Exists, Provisioning, Workers,
           OpStatuses
<1>2. TickInv => FailedNeverRuns
    BY DEF TickInv, IInv, RowPhase, FailedNeverRuns
<1> QED
    BY <1>1, <1>2, TickInOrder, PTL

\* The container id of a container that exists is never thrown away.
THEOREM NeverForgets == SystemSpec => OnlyGoneIsForgotten
<1>1. TickInv /\ [SystemNext]_systemVars =>
          [\A i \in recorded : i \notin recorded' => ~Exists(i)]_systemVars
    <2> SUFFICES ASSUME TickInv, [SystemNext]_systemVars, NEW i \in recorded, i \notin recorded'
                 PROVE  ~Exists(i)
        OBVIOUS
    <2>1. i \in Instance
        BY DEF TickInv, IInv, TypeOK
    <2>2. ~[Next]_vars
        BY <2>1, RowsStay DEF TickInv, RowStays
    <2>3. BillerStep
        BY <2>2 DEF SystemNext, SystemCrash, Next, systemVars
    <2> QED
        BY <2>3, BillerWrites DEF TickWrites
<1> QED
    BY <1>1, TickInOrder, PTL DEF SystemSpec, OnlyGoneIsForgotten

\* A delete is final once the operations it overlapped are over, the tick that
\* had selected the row included.
THEOREM BillingKeepsDeletes == SystemSpec => DeleteIsFinal
<1> DEFINE Stays(i) ==
        Settled(i) /\ ~Held(i) => /\ Settled(i)' /\ ~Held(i)'
                                  /\ docker'[i] = "running" => docker[i] = "running"
<1>1. TickInv /\ [SystemNext]_systemVars => [\A i \in Instance : Stays(i)]_systemVars
    <2> SUFFICES ASSUME TickInv, [SystemNext]_systemVars, NEW i \in Instance,
                        Settled(i), ~Held(i)
                 PROVE  /\ Settled(i)' /\ ~Held(i)'
                        /\ docker'[i] = "running" => docker[i] = "running"
        OBVIOUS
    <2>1. CASE BillerStep
        <3>1. status[i] = "TERMINATED" /\ status[i] # "RUNNING"
            BY DEF Settled
        <3>2. TickTypes /\ i \notin todo /\ i \notin halting /\ i # current
            BY DEF TickInv, Held
        <3>3. i \notin todo' /\ i \notin halting' /\ i # current'
            BY <2>1, <3>1, <3>2, InstanceAssumption
               DEF BillerStep, TickSelect, TickEnd, TickVisit, TickSkip, TickGone, TickCharge,
                   HaltContainer, HaltCommit, TickFails, TickGivesUp, Leave
        <3>4. status'[i] = status[i]
            <4>1. TypeOK
                BY DEF TickInv, IInv
            <4> QED
                BY <2>1, <3>2, <4>1
                   DEF BillerStep, TickSelect, TickEnd, TickVisit, TickSkip, TickGone, TickCharge,
                       HaltContainer, HaltCommit, TickFails, MarkStopped, TypeOK, vars, rowVars
        <3>5. TickWrites
            BY <2>1, BillerWrites
        <3>6. Settled(i)'
            BY <3>4, <3>5 DEF TickWrites, Settled, Reviving, Provisioning, reqVars
        <3> QED
            BY <3>3, <3>5, <3>6 DEF TickWrites, Held
    <2>2. CASE [Next]_vars
        <3>1. Settled(i)' /\ (docker'[i] = "running" => docker[i] = "running")
            BY <2>2, SettledStep DEF TickInv
        <3>2. CASE BillerStep
            BY <2>1, <3>2
        <3>3. CASE BesideTick \/ UNCHANGED billVars
            BY <3>1, <3>3 DEF Held, BesideTick, billVars, tickVars
        <3>4. CASE SystemCrash
            BY <3>1, <3>4, InstanceAssumption DEF Held, SystemCrash, TickGivesUp
        <3> QED
            BY <3>2, <3>3, <3>4 DEF SystemNext, systemVars
    <2> QED
        BY <2>1, <2>2 DEF SystemNext, SystemCrash, Next, systemVars
<1> QED
    BY <1>1, TickInOrder, PTL DEF SystemSpec, DeleteIsFinal

-----------------------------------------------------------------------------
(* Ports and plans under billing.                                          *)

\* A row the tick stops is one that was live and that no delete has touched, or
\* one a delete has touched: it adds nothing to the rows that count.
LEMMA TickAddsNothing ==
    ASSUME IInv, TickWrites
    PROVE  /\ NeverDeleted' \subseteq NeverDeleted
           /\ \A i \in Instance : status[i] = "absent" => status'[i] = "absent"
<1> SUFFICES ASSUME NEW i \in Instance
             PROVE  /\ i \in NeverDeleted' => i \in NeverDeleted
                    /\ status[i] = "absent" => status'[i] = "absent"
    BY DEF NeverDeleted, Live
<1>1. /\ createOp[i] = "SUCCESS" => status[i] # "absent"
      /\ status[i] = "TERMINATED" => i \in deletedAt
    BY DEF IInv, RowPhase
<1>2. /\ status'[i] # status[i] => status'[i] = "STOPPED" /\ createOp[i] = "SUCCESS"
      /\ deletedAt' = deletedAt
    BY DEF TickWrites
<1> QED
    BY <1>1, <1>2 DEF NeverDeleted, Live

\* Live rows that never came back from a delete hold distinct ports beside
\* billing, as long as creations come one at a time.
THEOREM BillingKeepsPorts == SystemSpec /\ []OneCreation => []LivePortsUnique
<1>1. SystemInit => PortInv
    BY InitPorts DEF SystemInit
<1>2. OneCreation /\ TickInv /\ PortInv /\ [SystemNext]_systemVars => PortInv'
    <2> SUFFICES ASSUME OneCreation, TickInv, PortInv, [SystemNext]_systemVars PROVE PortInv'
        OBVIOUS
    <2>1. CASE BillerStep
        <3>1. TickWrites /\ NeverDeleted' \subseteq NeverDeleted
            BY <2>1, BillerWrites, TickAddsNothing DEF TickInv
        <3> QED
            BY <3>1 DEF TickWrites, PortInv, LivePortsUnique, reqVars
    <2>2. CASE [Next]_vars
        BY <2>2, PortStep DEF TickInv
    <2> QED
        BY <2>1, <2>2 DEF SystemNext, SystemCrash, Next, systemVars
<1>3. PortInv => LivePortsUnique
    BY DEF PortInv
<1> QED
    BY <1>1, <1>2, <1>3, TickInOrder, PTL DEF SystemSpec

\* A tenant that creates one instance at a time stays within its plan beside
\* billing, whatever rows the tick stops.
THEOREM BillingKeepsPlan == SystemSpec /\ []OneCreationPerTenant => []QuotaWhileNeverDeleted
<1>1. SystemInit => PlanInv
    BY InitPlan DEF SystemInit
<1>2. OneCreationPerTenant /\ TickInv /\ PlanInv /\ [SystemNext]_systemVars => PlanInv'
    <2> SUFFICES ASSUME OneCreationPerTenant, TickInv, PlanInv, [SystemNext]_systemVars
                 PROVE  PlanInv'
        OBVIOUS
    <2>1. CASE BillerStep
        <3>1. TickWrites
            BY <2>1, BillerWrites
        <3>2. /\ NeverDeleted' \subseteq NeverDeleted
              /\ \A i \in Instance : status[i] = "absent" => status'[i] = "absent"
            BY <3>1, TickAddsNothing DEF TickInv
        <3>3. UNCHANGED reqVars
            BY <3>1 DEF TickWrites
        <3> QED
            BY <3>2, <3>3, PlanKeeps DEF TickInv, reqVars
    <2>2. CASE [Next]_vars
        BY <2>2, PlanStep DEF TickInv
    <2> QED
        BY <2>1, <2>2 DEF SystemNext, SystemCrash, Next, systemVars
<1> QED
    BY <1>1, <1>2, PlanTells, TickInOrder, PTL DEF SystemSpec

-----------------------------------------------------------------------------
(* What the API tells a tenant, under billing.                             *)

\* What the tick writes is a stop the tenant was told of: of rows whose creation
\* succeeded, several at once.
LEMMA TickPromise ==
    ASSUME IInv, TickWrites
    PROVE  [Promise!Next]_(Promise!told)
<1> DEFINE rows == {i \in Instance : status'[i] # status[i]}
<1>1. \A i \in rows : createOp[i] = "SUCCESS" /\ status'[i] = "STOPPED"
    BY DEF TickWrites
<1>2. status' = [i \in Instance |-> IF i \in rows THEN "STOPPED" ELSE status[i]]
    <2>1. \A i \in Instance : status'[i] = IF i \in rows THEN "STOPPED" ELSE status[i]
        BY <1>1
    <2> HIDE DEF rows
    <2> QED
        BY <2>1 DEF TickWrites
<1>3. Promise!Power(rows, "STOPPED")
    BY <1>1, <1>2 DEF TickWrites, Promise!Power
<1> QED
    BY <1>3 DEF Promise!Next

\* Requests, provisioning and the tick together implement what the API tells a
\* tenant about an instance.
THEOREM BillingKeepsPromise == SystemSpec => RowsKeepPromise
<1>1. SystemInit => Promise!Init
    BY PromiseInit DEF SystemInit
<1>2. TickInv /\ [SystemNext]_systemVars => [Promise!Next]_(Promise!told)
    <2> SUFFICES ASSUME TickInv, [SystemNext]_systemVars PROVE [Promise!Next]_(Promise!told)
        OBVIOUS
    <2>1. CASE BillerStep
        BY <2>1, BillerWrites, TickPromise DEF TickInv
    <2>2. CASE [Next]_vars
        BY <2>2, PromiseStep DEF TickInv
    <2> QED
        BY <2>1, <2>2 DEF SystemNext, SystemCrash, Next, systemVars
<1> QED
    BY <1>1, <1>2, TickInOrder, PTL DEF SystemSpec, RowsKeepPromise, Promise!Spec

\* A provisioning task that has steps left can take one: the hypothesis that stands
\* for ENABLED, as in InstanceLifecycle_proofs.
ProvisionCanStep ==
    \A i \in Instance :
        Provisioning(i) => ENABLED <<WorkerStep(i) /\ BesideTick>>_systemVars

\* No step of a provisioning task is a stutter.
LEMMA WorkerMoves ==
    ASSUME TypeOK, NEW i \in Instance, WorkerStep(i)
    PROVE  <<WorkerStep(i)>>_vars
<1>1. worker'[i] # worker[i]
    BY DEF TypeOK, WorkerStep, WorkerBegin, WorkerCreate, WorkerStart, WorkerCommit, WorkerCleanup,
           WorkerFail, WorkerUnwind, WorkerLost, WorkerGoto
<1> QED
    BY <1>1 DEF vars

\* Every CREATE operation ends beside the tick, unless the process went down or
\* the database failed under its provisioning task.
THEOREM BillingKeepsCreations == SystemSpec /\ []ProvisionCanStep => CreateSettles
<1>1. SystemSpec /\ []ProvisionCanStep =>
          []TickInv /\ [][SystemNext]_systemVars /\ []ProvisionCanStep /\ \A i \in Instance : WorkerGoesOn(i)
    BY TickInOrder DEF SystemSpec, SystemFairness
<1>2. ASSUME NEW i \in Instance
      PROVE  []TickInv /\ [][SystemNext]_systemVars /\ []ProvisionCanStep /\ WorkerGoesOn(i) =>
                 (Open(i) ~> Closed(i))
    <2>1. ProvisionCanStep =>
              (Provisioning(i) => ENABLED <<WorkerStep(i) /\ BesideTick>>_systemVars)
        BY DEF ProvisionCanStep
    <2>2. TickInv /\ <<WorkerStep(i) /\ BesideTick>>_systemVars => <<WorkerStep(i)>>_vars
        BY WorkerMoves DEF TickInv, IInv
    <2>3. []TickInv /\ []ProvisionCanStep /\ WorkerGoesOn(i) => Served(i)
        BY <2>1, <2>2, PTL DEF Served, WorkerGoesOn
    <2>4. TickInv /\ [SystemNext]_systemVars => IInv /\ [Next \/ UNCHANGED worker]_vars
        BY BillerWrites DEF TickInv, TickWrites, SystemNext, SystemCrash, Next, systemVars
    <2> QED
        BY <2>3, <2>4, ServedCloses, PTL
<1>3. []TickInv /\ [][SystemNext]_systemVars /\ []ProvisionCanStep /\ (\A i \in Instance : WorkerGoesOn(i)) =>
          \A i \in Instance : Open(i) ~> Closed(i)
    BY <1>2
<1> QED
    BY <1>1, <1>3 DEF CreateSettles, Open, Closed
=============================================================================
