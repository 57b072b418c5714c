------------------------ MODULE TaskExecution_proofs ------------------------
(***************************************************************************)
(* What holds of tasks for any tasks, instances and pools, and what still  *)
(* holds of instances when tasks run on them.                              *)
(*                                                                         *)
(* A run looks at an instance and never writes it, so a step of            *)
(* TaskExecution is a step of InstanceLifecycle, leaves its variables      *)
(* alone, or counts a fault of the database: IInv survives all three.      *)
(***************************************************************************)
EXTENDS TaskExecution, InstanceSerial_proofs

Busy == {"check", "exec", "passed", "broken"}

\* How far a run's row, its thread and its task have come goes together.
RunPhase(n) ==
    /\ runPc[n] = "none" => runStatus[n] \in {"absent", "PENDING"}
    /\ runPc[n] = "none" /\ runStatus[n] = "PENDING" => taskPc[n[1]] \in {"queued", "lost", "killed"}
    /\ runPc[n] = "waiting" => runStatus[n] = "PENDING"
    /\ runPc[n] \in Busy => runStatus[n] = "RUNNING"
    /\ runPc[n] = "lost" => runStatus[n] \in {"PENDING", "RUNNING"}
    /\ runPc[n] = "done" => runStatus[n] \in {"SUCCESS", "FAILED"}
    /\ runPc[n] \in Busy \cup {"waiting"} => taskPc[n[1]] = "pool"
    /\ runPc[n] = "killed" => taskPc[n[1]] = "killed"
    /\ taskPc[n[1]] = "none" => runPc[n] = "none" /\ runStatus[n] = "absent"
    /\ taskPc[n[1]] = "queued" => runPc[n] = "none"

Good(t) == {n \in RunsOf(t) : runStatus[n] = "SUCCESS"}
Bad(t) == {n \in RunsOf(t) : runStatus[n] = "FAILED"}

\* No more runs at work than the pool has threads.
PoolBound ==
    \A t \in Task : IsFiniteSet(AtWork(t)) /\ Cardinality(AtWork(t)) <= PoolSize

TaskInv ==
    /\ TaskTypes
    /\ PoolBound
    /\ \A n \in Run : RunPhase(n)
    /\ \A t \in Task : taskPc[t] = "done" => taskStatus[t] = Verdict(Good(t), Bad(t))

-----------------------------------------------------------------------------
(* Instances under tasks.                                                  *)

\* A step of the composition as InstanceLifecycle sees it.
LEMMA InstanceView ==
    ASSUME [AllNext]_allVars
    PROVE  [Next]_vars \/ (Fault /\ UNCHANGED <<rowVars, worker, reqVars, docker, balance, crashes>>)
<1>1. CASE InstanceStep
    BY <1>1 DEF InstanceStep, DeleteGuarded, Next, Operate, RequestRead
<1>2. CASE \E n \in Run : RunStep(n)
    BY <1>2 DEF RunStep, RunBegin, RunCheck, RunExec, RunCommit, RunEnd, RunLost
<1>3. CASE TaskCrash
    BY <1>3 DEF TaskCrash, Next
<1>4. CASE \E t \in Task : TaskLost(t)
    BY <1>4 DEF TaskLost
<1> QED
    BY <1>1, <1>2, <1>3, <1>4 DEF AllNext, allVars, CreateTask, TaskStep, TaskBegin, TaskEnd

\* A fault that is only counted breaks nothing.
LEMMA CountedFault ==
    ASSUME IInv, Fault, UNCHANGED <<rowVars, worker, reqVars, docker, balance, crashes>>
    PROVE  IInv'
<1>1. faults' \in 0 .. MaxFaults /\ faults' > 0 /\ (faults > 1 => faults' > 1)
    BY FaultCount DEF IInv, TypeOK, Fault
<1>2. TypeOK'
    BY <1>1 DEF IInv, TypeOK, rowVars, reqVars
<1>3. ASSUME NEW i \in Instance PROVE RowPhase(i)'
    BY <1>1, <1>3 DEF IInv, RowPhase, Exists, rowVars
<1>4. ASSUME NEW r \in Request PROVE HandlerPhase(r)'
    BY <1>4 DEF IInv, HandlerPhase, rowVars, reqVars
<1> QED
    BY <1>2, <1>3, <1>4 DEF IInv

\* Tasks keep instances in order.
LEMMA InstancesStep == IInv /\ [AllNext]_allVars => IInv'
BY InstanceView, CountedFault, StepInv

\* What InstanceLifecycle promises holds while tasks run: no container is
\* forgotten, a failed instance stays dead, a running one has its container.
THEOREM TasksKeepInstances ==
    AllSpec => [](OrphanNeedsFailure /\ FailedNeverRuns /\ RunningIsRecorded)
<1>1. IInv => OrphanNeedsFailure
    BY DEF IInv, TypeOK, RowPhase, OrphanNeedsFailure, Exists, Provisioning, Workers, OpStatuses
<1>2. IInv => FailedNeverRuns
    BY DEF IInv, RowPhase, FailedNeverRuns
<1>3. AllInit => IInv /\ Recorded
    BY InitInv DEF AllInit, Init, Recorded
<1>4. IInv /\ Recorded /\ [AllNext]_allVars => Recorded'
    BY InstanceView, RecordedStep DEF Recorded, rowVars
<1> QED
    BY <1>1, <1>2, <1>3, <1>4, InstancesStep, RecordedRuns, PTL DEF AllSpec

\* A delete is final under tasks too: no run starts a container again.
THEOREM TasksKeepDeletes == AllSpec => SettledStaysDeleted
<1>1. IInv /\ [AllNext]_allVars =>
          [\A i \in Instance :
              Settled(i) => /\ Settled(i)'
                            /\ docker'[i] = "running" => docker[i] = "running"]_vars
    <2> SUFFICES ASSUME IInv, [AllNext]_allVars, NEW i \in Instance, Settled(i)
                 PROVE  Settled(i)' /\ (docker'[i] = "running" => docker[i] = "running")
        OBVIOUS
    <2>1. CASE [Next]_vars
        BY <2>1, SettledStep
    <2>2. CASE Fault /\ UNCHANGED <<rowVars, worker, reqVars, docker, balance, crashes>>
        BY <2>2 DEF Settled, Reviving, Provisioning, rowVars, reqVars
    <2> QED
        BY <2>1, <2>2, InstanceView
<1>2. AllInit => IInv
    BY InitInv DEF AllInit
<1> QED
    BY <1>1, <1>2, InstancesStep, PTL DEF AllSpec, SettledStaysDeleted

\* Live rows that never came back from a delete hold distinct ports while tasks
\* run, as long as creations come one at a time.
THEOREM TasksKeepPorts == AllSpec /\ []OneCreation => []LivePortsUnique
<1>1. AllInit => IInv /\ PortInv
    BY InitInv, InitPorts DEF AllInit
<1>2. OneCreation /\ IInv /\ PortInv /\ [AllNext]_allVars => PortInv'
    BY InstanceView, PortStep DEF PortInv, LivePortsUnique, NeverDeleted, Live, rowVars, reqVars
<1>3. PortInv => LivePortsUnique
    BY DEF PortInv
<1> QED
    BY <1>1, <1>2, <1>3, InstancesStep, PTL DEF AllSpec

\* A tenant that creates one instance at a time stays within its plan while
\* tasks run.
THEOREM TasksKeepPlan == AllSpec /\ []OneCreationPerTenant => []QuotaWhileNeverDeleted
<1>1. AllInit => IInv /\ PlanInv
    BY InitInv, InitPlan DEF AllInit
<1>2. OneCreationPerTenant /\ IInv /\ PlanInv /\ [AllNext]_allVars => PlanInv'
    BY InstanceView, PlanStep DEF PlanInv, Kept, NeverDeleted, Live, rowVars, reqVars
<1> QED
    BY <1>1, <1>2, InstancesStep, PlanTells, PTL DEF AllSpec

\* A row nobody is at work on tells what its container does while tasks run on
\* it, as long as its requests come one at a time and nothing has failed.
THEOREM TasksKeepTruth == AllSpec /\ []OneRequestPerRow => [](Calm => RowsMatchDocker)
<1>1. AllInit => IInv /\ (Calm => MatchInv)
    BY InitInv, InitMatch DEF AllInit
<1>2. OneRequestPerRow /\ IInv /\ (Calm => MatchInv) /\ [AllNext]_allVars => (Calm => MatchInv)'
    <2> SUFFICES ASSUME OneRequestPerRow, IInv, Calm => MatchInv, [AllNext]_allVars, Calm'
                 PROVE  MatchInv'
        OBVIOUS
    <2>1. CASE [Next]_vars
        BY <2>1, CalmSince, MatchStep
    <2>2. ~Fault
        BY FaultCount DEF IInv, Calm
    <2> QED
        BY <2>1, <2>2, InstanceView
<1>3. (Calm => MatchInv) => (Calm => RowsMatchDocker)
    BY MatchTells
<1> QED
    BY <1>1, <1>2, <1>3, InstancesStep, PTL DEF AllSpec

\* Tasks leave what the API tells a tenant about an instance as promised.
THEOREM TasksKeepPromise == AllSpec => RowsKeepPromise
<1>1. AllInit => IInv /\ Promise!Init
    BY InitInv, PromiseInit DEF AllInit
<1>2. IInv /\ [AllNext]_allVars => [Promise!Next]_(Promise!told)
    <2> SUFFICES ASSUME IInv, [AllNext]_allVars PROVE [Promise!Next]_(Promise!told)
        OBVIOUS
    <2>1. CASE [Next]_vars
        BY <2>1, PromiseStep
    <2>2. CASE UNCHANGED rowVars
        BY <2>2 DEF Promise!told, rowVars
    <2> QED
        BY <2>1, <2>2, InstanceView
<1> QED
    BY <1>1, <1>2, InstancesStep, PTL DEF AllSpec, RowsKeepPromise, Promise!Spec

-----------------------------------------------------------------------------
(* Tasks.                                                                  *)

\* There are no tasks at first.
LEMMA TaskInitInv == TaskInit => TaskInv
<1> SUFFICES ASSUME TaskInit PROVE TaskInv
    OBVIOUS
<1>1. TaskTypes
    BY DEF TaskInit, TaskTypes, TaskStatuses, RunStatuses, TaskPcs, RunPcs
<1>2. ASSUME NEW t \in Task PROVE AtWork(t) = {}
    BY <1>2 DEF TaskInit, AtWork, RunsOf
<1>3. PoolBound
    BY <1>2, FS_EmptySet, TaskAssumption DEF PoolBound
<1>4. ASSUME NEW n \in Run PROVE RunPhase(n)
    BY <1>4 DEF TaskInit, RunPhase, Run, Busy
<1> QED
    BY <1>1, <1>3, <1>4 DEF TaskInv, TaskInit

\* A pool that gets no new run stays within its size.
LEMMA PoolShrinks ==
    ASSUME PoolBound, \A t \in Task : AtWork(t)' \subseteq AtWork(t)
    PROVE  PoolBound'
<1> SUFFICES ASSUME NEW t \in Task
             PROVE  IsFiniteSet(AtWork(t)') /\ Cardinality(AtWork(t)') <= PoolSize
    BY DEF PoolBound
<1>1. /\ IsFiniteSet(AtWork(t)) /\ Cardinality(AtWork(t)) <= PoolSize
      /\ AtWork(t)' \in SUBSET AtWork(t)
    BY DEF PoolBound
<1>2. /\ IsFiniteSet(AtWork(t)') /\ Cardinality(AtWork(t)') <= Cardinality(AtWork(t))
    BY <1>1, FS_Subset
<1>3. /\ Cardinality(AtWork(t)) \in Nat /\ Cardinality(AtWork(t)') \in Nat
      /\ PoolSize \in Nat
    BY <1>1, <1>2, FS_CardinalityType, TaskAssumption
<1> QED
    BY <1>1, <1>2, <1>3

\* A task that is created has its runs pending and none at work.
LEMMA CreateTaskKeeps ==
    ASSUME TaskInv, NEW t \in Task, NEW targets \in SUBSET Instance, CreateTask(t, targets)
    PROVE  TaskInv'
<1> DEFINE runs == {t} \X targets
<1>1. /\ taskPc[t] = "none"
      /\ taskStatus' = [taskStatus EXCEPT ![t] = "PENDING"]
      /\ taskPc' = [taskPc EXCEPT ![t] = "queued"]
      /\ runStatus' = [n \in Run |-> IF n \in runs THEN "PENDING" ELSE runStatus[n]]
      /\ runPc' = runPc
    BY DEF CreateTask
<1>2. TaskTypes'
    BY <1>1 DEF TaskInv, TaskTypes, TaskStatuses, RunStatuses, TaskPcs
<1>3. PoolBound'
    BY <1>1, PoolShrinks DEF TaskInv, AtWork
<1>4. ASSUME NEW n \in Run PROVE RunPhase(n)'
    <2>1. n[1] \in Task /\ (n \in runs => n[1] = t)
        BY <1>4 DEF Run
    <2> HIDE DEF runs
    <2> QED
        BY <1>1, <1>4, <2>1 DEF TaskInv, TaskTypes, RunPhase, Busy
<1>5. ASSUME NEW k \in Task, taskPc'[k] = "done"
      PROVE  taskStatus'[k] = Verdict(Good(k), Bad(k))'
    <2>1. k # t
        BY <1>1, <1>5 DEF TaskInv, TaskTypes
    <2>2. \A n \in RunsOf(k) : runStatus'[n] = runStatus[n]
        BY <1>1, <2>1 DEF RunsOf
    <2>3. Good(k)' = Good(k) /\ Bad(k)' = Bad(k)
        BY <2>2 DEF Good, Bad
    <2> QED
        BY <1>1, <1>5, <2>1, <2>3 DEF TaskInv, TaskTypes, Verdict
<1> QED
    BY <1>2, <1>3, <1>4, <1>5 DEF TaskInv

\* A task that begins hands its runs to the pool.
LEMMA TaskBeginKeeps ==
    ASSUME TaskInv, NEW t \in Task, TaskBegin(t)
    PROVE  TaskInv'
<1>1. /\ taskPc[t] = "queued"
      /\ taskStatus' = [taskStatus EXCEPT ![t] = "RUNNING"]
      /\ taskPc' = [taskPc EXCEPT ![t] = "pool"]
      /\ runPc' = [n \in Run |-> IF n \in RunsOf(t) /\ runStatus[n] = "PENDING"
                                 THEN "waiting" ELSE runPc[n]]
      /\ runStatus' = runStatus
    BY DEF TaskBegin
<1>2. TaskTypes'
    BY <1>1 DEF TaskInv, TaskTypes, TaskStatuses, RunStatuses, RunPcs, TaskPcs
<1>3. PoolBound'
    BY <1>1, PoolShrinks DEF TaskInv, AtWork, RunsOf
<1>4. ASSUME NEW n \in Run PROVE RunPhase(n)'
    <2>1. n[1] \in Task
        BY <1>4 DEF Run
    <2>2. n \in RunsOf(t) <=> n[1] = t
        BY <1>4 DEF RunsOf
    <2> QED
        BY <1>1, <1>4, <2>1, <2>2 DEF TaskInv, TaskTypes, RunPhase, Busy
<1>5. ASSUME NEW k \in Task, taskPc'[k] = "done"
      PROVE  taskStatus'[k] = Verdict(Good(k), Bad(k))'
    BY <1>1, <1>5 DEF TaskInv, TaskTypes, Verdict, Good, Bad
<1> QED
    BY <1>2, <1>3, <1>4, <1>5 DEF TaskInv

\* A task ends when the pool has nothing of it left, with the verdict of its runs.
LEMMA TaskEndKeeps ==
    ASSUME TaskInv, NEW t \in Task, TaskEnd(t)
    PROVE  TaskInv'
<1>1. /\ taskPc[t] = "pool"
      /\ \A n \in RunsOf(t) : runPc[n] \in {"none", "done", "lost"}
      /\ taskStatus' = [taskStatus EXCEPT ![t] = Verdict(Good(t), Bad(t))]
      /\ taskPc' = [taskPc EXCEPT ![t] = "done"]
      /\ runStatus' = runStatus
      /\ runPc' = runPc
    BY DEF TaskEnd, Good, Bad
<1>2. Verdict(Good(t), Bad(t)) \in TaskStatuses
    BY DEF Verdict, TaskStatuses, RunStatuses
<1>3. TaskTypes'
    BY <1>1, <1>2 DEF TaskInv, TaskTypes, TaskPcs
<1>4. PoolBound'
    BY <1>1, PoolShrinks DEF TaskInv, AtWork
<1>5. ASSUME NEW n \in Run PROVE RunPhase(n)'
    <2>1. n[1] \in Task /\ (n[1] = t => n \in RunsOf(t))
        BY <1>5 DEF Run, RunsOf
    <2> QED
        BY <1>1, <1>5, <2>1 DEF TaskInv, TaskTypes, RunPhase, Busy
<1>6. ASSUME NEW k \in Task, taskPc'[k] = "done"
      PROVE  taskStatus'[k] = Verdict(Good(k), Bad(k))'
    BY <1>1, <1>6 DEF TaskInv, TaskTypes, Verdict, Good, Bad
<1> QED
    BY <1>3, <1>4, <1>5, <1>6 DEF TaskInv

\* The run n moves on, inside its pool or out of it.
LEMMA RunMoves ==
    ASSUME TaskInv, NEW n \in Run, NEW label \in RunPcs, NEW s \in RunStatuses,
           runPc[n] \in Busy \cup {"waiting"},
           UNCHANGED <<taskStatus, taskPc>>,
           runPc' = [runPc EXCEPT ![n] = label],
           runStatus' = [runStatus EXCEPT ![n] = s],
           RunPhase(n)'
    PROVE  /\ TaskTypes'
           /\ \A m \in Run : RunPhase(m)'
           /\ \A t \in Task : taskPc'[t] = "done" =>
                  taskStatus'[t] = Verdict(Good(t), Bad(t))'
<1>1. n[1] \in Task /\ taskPc[n[1]] = "pool"
    BY DEF TaskInv, RunPhase, Run
<1>2. TaskTypes'
    BY DEF TaskInv, TaskTypes
<1>3. ASSUME NEW m \in Run PROVE RunPhase(m)'
    BY <1>3 DEF TaskInv, TaskTypes, RunPhase
<1>4. ASSUME NEW t \in Task, taskPc'[t] = "done"
      PROVE  taskStatus'[t] = Verdict(Good(t), Bad(t))'
    <2>1. n \notin RunsOf(t)
        BY <1>1, <1>4 DEF RunsOf
    <2>2. \A m \in RunsOf(t) : runStatus'[m] = runStatus[m]
        BY <2>1 DEF TaskInv, TaskTypes, RunsOf
    <2>3. Good(t)' = Good(t) /\ Bad(t)' = Bad(t)
        BY <2>2 DEF Good, Bad
    <2> QED
        BY <1>4, <2>3 DEF TaskInv, Verdict
<1> QED
    BY <1>2, <1>3, <1>4

\* A run begins only when a thread of its task's pool is free.
LEMMA RunBeginKeeps ==
    ASSUME TaskInv, NEW n \in Run, RunBegin(n)
    PROVE  TaskInv'
<1>1. /\ runPc[n] = "waiting"
      /\ Cardinality(AtWork(n[1])) < PoolSize
      /\ runPc' = [runPc EXCEPT ![n] = "check"]
      /\ runStatus' = [runStatus EXCEPT ![n] = "RUNNING"]
      /\ UNCHANGED <<taskStatus, taskPc>>
    BY DEF RunBegin, RunGoto
<1>2. RunPhase(n)'
    BY <1>1 DEF TaskInv, TaskTypes, RunPhase, Busy
<1>3. /\ TaskTypes'
      /\ \A m \in Run : RunPhase(m)'
      /\ \A t \in Task : taskPc'[t] = "done" => taskStatus'[t] = Verdict(Good(t), Bad(t))'
    BY <1>1, <1>2, RunMoves DEF RunPcs, RunStatuses
<1>4. PoolBound'
    <2> SUFFICES ASSUME NEW t \in Task
                 PROVE  IsFiniteSet(AtWork(t)') /\ Cardinality(AtWork(t)') <= PoolSize
        BY DEF PoolBound
    <2>1. IsFiniteSet(AtWork(t)) /\ Cardinality(AtWork(t)) <= PoolSize
        BY DEF TaskInv, PoolBound
    <2>2. CASE t = n[1]
        <3>1. AtWork(t)' = AtWork(t) \cup {n}
            BY <1>1, <2>2 DEF TaskInv, TaskTypes, AtWork, RunsOf
        <3>2. /\ IsFiniteSet(AtWork(t)')
              /\ \/ Cardinality(AtWork(t)') = Cardinality(AtWork(t))
                 \/ Cardinality(AtWork(t)') = Cardinality(AtWork(t)) + 1
            BY <2>1, <3>1, FS_AddElement
        <3>3. Cardinality(AtWork(t)) \in Nat /\ PoolSize \in Nat
            BY <2>1, FS_CardinalityType, TaskAssumption
        <3> QED
            BY <1>1, <2>2, <3>2, <3>3
    <2>3. CASE t # n[1]
        <3>1. AtWork(t)' = AtWork(t)
            BY <1>1, <2>3 DEF TaskInv, TaskTypes, AtWork, RunsOf
        <3> QED
            BY <2>1, <3>1
    <2> QED
        BY <2>2, <2>3
<1> QED
    BY <1>3, <1>4 DEF TaskInv

\* A run moves on, or is lost, without a new one at work in its pool.
LEMMA BusyRunKeeps ==
    ASSUME TaskInv, NEW n \in Run, RunCheck(n) \/ RunExec(n) \/ RunCommit(n) \/ RunLost(n)
    PROVE  TaskInv'
<1>1. PICK label \in RunPcs, s \in RunStatuses :
          /\ runPc[n] \in Busy \/ (runPc[n] = "waiting" /\ label = "lost")
          /\ runPc' = [runPc EXCEPT ![n] = label]
          /\ runStatus' = [runStatus EXCEPT ![n] = s]
          /\ UNCHANGED <<taskStatus, taskPc>>
          /\ \/ label \in Busy /\ s = "RUNNING"
             \/ label = "lost" /\ s \in {"PENDING", "RUNNING"}
             \/ label = "done" /\ s \in {"SUCCESS", "FAILED"}
    <2>1. ASSUME runPc[n] \in Busy
          PROVE  /\ runStatus[n] = "RUNNING"
                 /\ runStatus = [runStatus EXCEPT ![n] = "RUNNING"]
        BY <2>1 DEF TaskInv, TaskTypes, RunPhase
    <2>2. ASSUME runPc[n] = "waiting"
          PROVE  runStatus = [runStatus EXCEPT ![n] = "PENDING"]
        BY <2>2 DEF TaskInv, TaskTypes, RunPhase
    <2> QED
        BY <2>1, <2>2 DEF RunCheck, RunExec, RunCommit, RunLost, RunEnd, RunGoto, Busy, RunPcs,
                    RunStatuses
<1>2. RunPhase(n)'
    BY <1>1 DEF TaskInv, TaskTypes, RunPhase, Busy
<1>3. /\ TaskTypes'
      /\ \A m \in Run : RunPhase(m)'
      /\ \A t \in Task : taskPc'[t] = "done" => taskStatus'[t] = Verdict(Good(t), Bad(t))'
    BY <1>1, <1>2, RunMoves
<1>4. PoolBound'
    BY <1>1, PoolShrinks DEF TaskInv, TaskTypes, AtWork, Busy
<1> QED
    BY <1>3, <1>4 DEF TaskInv

\* A task the database fails under has no run in its pool, then or later.
LEMMA TaskLostKeeps ==
    ASSUME TaskInv, NEW t \in Task, TaskLost(t)
    PROVE  TaskInv'
<1>1. /\ taskPc[t] \in {"queued", "pool"}
      /\ taskPc[t] = "pool" => \A n \in RunsOf(t) : runPc[n] \in {"none", "done", "lost"}
      /\ taskStatus' \in {taskStatus, [taskStatus EXCEPT ![t] = "RUNNING"]}
      /\ taskPc' = [taskPc EXCEPT ![t] = "lost"]
      /\ runStatus' = runStatus
      /\ runPc' = runPc
    BY DEF TaskLost
<1>2. TaskTypes'
    BY <1>1 DEF TaskInv, TaskTypes, TaskPcs, TaskStatuses, RunStatuses
<1>3. PoolBound'
    BY <1>1, PoolShrinks DEF TaskInv, AtWork
<1>4. ASSUME NEW n \in Run PROVE RunPhase(n)'
    <2>1. n[1] \in Task /\ (n[1] = t => n \in RunsOf(t))
        BY <1>4 DEF Run, RunsOf
    <2> QED
        BY <1>1, <1>4, <2>1 DEF TaskInv, TaskTypes, RunPhase, Busy
<1>5. ASSUME NEW k \in Task, taskPc'[k] = "done"
      PROVE  taskStatus'[k] = Verdict(Good(k), Bad(k))'
    BY <1>1, <1>5 DEF TaskInv, TaskTypes, Verdict, Good, Bad
<1> QED
    BY <1>2, <1>3, <1>4, <1>5 DEF TaskInv

\* A restart kills what is under way; rows stay as they are.
LEMMA TaskCrashKeeps == TaskInv /\ TaskCrash => TaskInv'
<1> SUFFICES ASSUME TaskInv, TaskCrash PROVE TaskInv'
    OBVIOUS
<1>1. /\ taskPc' = [t \in Task |-> IF taskPc[t] \in {"queued", "pool"}
                                   THEN "killed" ELSE taskPc[t]]
      /\ runPc' = [n \in Run |-> IF runPc[n] \in {"none", "done", "lost"}
                                 THEN runPc[n] ELSE "killed"]
      /\ UNCHANGED <<taskStatus, runStatus>>
    BY DEF TaskCrash
<1>2. TaskTypes'
    BY <1>1 DEF TaskInv, TaskTypes, TaskPcs, RunPcs
<1>3. PoolBound'
    BY <1>1, PoolShrinks DEF TaskInv, AtWork, RunsOf
<1>4. ASSUME NEW n \in Run PROVE RunPhase(n)'
    <2>1. n[1] \in Task
        BY <1>4 DEF Run
    <2> QED
        BY <1>1, <1>4, <2>1 DEF TaskInv, TaskTypes, RunPhase, Busy, RunPcs
<1>5. ASSUME NEW k \in Task, taskPc'[k] = "done"
      PROVE  taskStatus'[k] = Verdict(Good(k), Bad(k))'
    BY <1>1, <1>5 DEF TaskInv, TaskTypes, Verdict, Good, Bad
<1> QED
    BY <1>2, <1>3, <1>4, <1>5 DEF TaskInv

\* Every step keeps tasks and runs in phase.
LEMMA TaskStepInv == TaskInv /\ [AllNext]_allVars => TaskInv'
<1> SUFFICES ASSUME TaskInv, [AllNext]_allVars PROVE TaskInv'
    OBVIOUS
<1>1. CASE UNCHANGED taskVars
    <2>1. PoolBound'
        BY <1>1, PoolShrinks DEF TaskInv, AtWork, taskVars
    <2> QED
        BY <1>1, <2>1 DEF TaskInv, TaskTypes, RunPhase, Verdict, Good, Bad, taskVars
<1>2. ASSUME NEW t \in Task, TaskStep(t) PROVE TaskInv'
    BY <1>2, TaskBeginKeeps, TaskEndKeeps DEF TaskStep
<1>3. ASSUME NEW n \in Run, RunStep(n) PROVE TaskInv'
    BY <1>3, RunBeginKeeps, BusyRunKeeps DEF RunStep
<1> QED
    BY <1>1, <1>2, <1>3, CreateTaskKeeps, TaskLostKeeps, TaskCrashKeeps DEF AllNext, allVars

\* So they are in every state.
LEMMA TasksInOrder == AllSpec => []TaskInv
<1>1. AllInit => TaskInv
    BY TaskInitInv DEF AllInit
<1> QED
    BY <1>1, TaskStepInv, PTL DEF AllSpec

\* Types, and the pool of a task never has more threads at work than it may.
THEOREM TaskTypeCorrect == AllSpec => []TaskTypeOK
<1>1. TaskInv => TaskTypeOK
    BY DEF TaskInv, PoolBound, TaskTypeOK
<1> QED
    BY <1>1, TasksInOrder, PTL

\* The status of a finished task matches the results of its runs.
THEOREM VerdictIsTrue == AllSpec => []VerdictMatchesRuns
<1>1. TaskInv => VerdictMatchesRuns
    <2> SUFFICES ASSUME TaskInv, NEW t \in Task, taskPc[t] = "done"
                 PROVE  LET Outcomes == {runStatus[n] : n \in {m \in RunsOf(t) : runPc[m] = "done"}}
                        IN  /\ Outcomes \subseteq {"SUCCESS", "FAILED"}
                            /\ \A n \in RunsOf(t) :
                                   runStatus[n] \in {"PENDING", "RUNNING"} => runPc[n] = "lost"
                            /\ taskStatus[t] = "PARTIAL_SUCCESS" <=> Outcomes = {"SUCCESS", "FAILED"}
                            /\ taskStatus[t] = "FAILED" <=> Outcomes = {"FAILED"}
        BY DEF VerdictMatchesRuns
    <2> DEFINE Outcomes == {runStatus[n] : n \in {m \in RunsOf(t) : runPc[m] = "done"}}
    <2>1. ASSUME NEW n \in RunsOf(t)
          PROVE  /\ runPc[n] = "done" => runStatus[n] \in {"SUCCESS", "FAILED"}
                 /\ runStatus[n] \in {"SUCCESS", "FAILED"} => runPc[n] = "done"
                 /\ runStatus[n] \in {"PENDING", "RUNNING"} => runPc[n] = "lost"
        <3>1. n \in Run /\ n[1] = t
            BY <2>1 DEF RunsOf
        <3> QED
            BY <3>1 DEF TaskInv, TaskTypes, RunPhase, Busy, RunPcs
    <2>2. Outcomes \subseteq {"SUCCESS", "FAILED"}
        BY <2>1
    <2>3. /\ "SUCCESS" \in Outcomes <=> Good(t) # {}
          /\ "FAILED" \in Outcomes <=> Bad(t) # {}
        BY <2>1 DEF Good, Bad
    <2>4. taskStatus[t] = Verdict(Good(t), Bad(t))
        BY DEF TaskInv
    <2> HIDE DEF Outcomes
    <2>5. /\ Outcomes = {"SUCCESS", "FAILED"} <=> "SUCCESS" \in Outcomes /\ "FAILED" \in Outcomes
          /\ Outcomes = {"FAILED"} <=> "SUCCESS" \notin Outcomes /\ "FAILED" \in Outcomes
        BY <2>2
    <2>6. /\ taskStatus[t] = "PARTIAL_SUCCESS" <=> Outcomes = {"SUCCESS", "FAILED"}
          /\ taskStatus[t] = "FAILED" <=> Outcomes = {"FAILED"}
        BY <2>3, <2>4, <2>5 DEF Verdict
    <2> QED
        BY <2>1, <2>2, <2>6 DEF Outcomes
<1> QED
    BY <1>1, TasksInOrder, PTL

-----------------------------------------------------------------------------
(* A delete is not barred for ever.  As for provisioning tasks, that a      *)
(* thread with something left to do can do it is a hypothesis.              *)

RunsCanStep ==
    \A n \in Run :
        /\ runPc[n] \in {"check", "passed", "broken"} => ENABLED <<ThreadStep(n)>>_allVars
        /\ runPc[n] = "exec" /\ docker[n[2]] # "running" => ENABLED <<ScriptEnds(n)>>_allVars

\* The run n bars the delete of its instance, whose container does not run; it has
\* ended, the container runs again, or a failure has made an end of its thread.
Barred(n)   == runStatus[n] = "RUNNING" /\ docker[n[2]] # "running"
Unbarred(n) == \/ runStatus[n] # "RUNNING"
               \/ docker[n[2]] = "running"
               \/ runPc[n] \in {"lost", "killed"}

Checks(n) == runPc[n] = "check" /\ ~Unbarred(n)
Cut(n)    == runPc[n] = "exec" /\ ~Unbarred(n)
Ends(n)   == runPc[n] \in {"passed", "broken"} /\ ~Unbarred(n)

\* A thread that bars the delete stays where it is, moves on, or is out of the way.
LEMMA RunPath ==
    ASSUME TaskInv, NEW n \in Run, [AllNext]_allVars
    PROVE  /\ Checks(n) => (Checks(n) \/ Cut(n) \/ Unbarred(n))'
           /\ Cut(n) => (Cut(n) \/ Ends(n) \/ Unbarred(n))'
           /\ Ends(n) => (Ends(n) \/ Unbarred(n))'
<1> USE DEF Checks, Cut, Ends, Unbarred
<1> TaskTypes /\ RunPhase(n) /\ n[1] \in Task
    BY DEF TaskInv, Run
<1>1. CASE UNCHANGED <<runPc, runStatus>>
    BY <1>1
<1>2. ASSUME NEW m \in Run, RunStep(m) PROVE m = n \/ UNCHANGED <<runPc[n], runStatus[n]>>
    BY <1>2 DEF TaskTypes, RunStep, RunBegin, RunCheck, RunExec, RunCommit, RunLost, RunEnd, RunGoto
<1>3. CASE RunStep(n)
    BY <1>3 DEF TaskTypes, RunStep, RunBegin, RunCheck, RunExec, RunCommit, RunLost, RunEnd, RunGoto
<1>4. CASE TaskCrash
    BY <1>4 DEF TaskCrash, TaskTypes
<1>5. ASSUME NEW t \in Task, TaskStep(t), Checks(n) \/ Cut(n) \/ Ends(n)
      PROVE  UNCHANGED <<runPc[n], runStatus[n]>>
    BY <1>5 DEF TaskStep, TaskBegin, TaskEnd
<1>6. ASSUME NEW t \in Task, NEW targets \in SUBSET Instance, CreateTask(t, targets),
             Checks(n) \/ Cut(n) \/ Ends(n)
      PROVE  UNCHANGED <<runPc[n], runStatus[n]>>
    BY <1>6 DEF CreateTask, RunPhase, RunsOf, TaskTypes, Busy
<1>7. ASSUME NEW t \in Task, TaskLost(t) PROVE UNCHANGED <<runPc, runStatus>>
    BY <1>7 DEF TaskLost
<1> QED
    BY <1>1, <1>2, <1>3, <1>4, <1>5, <1>6, <1>7 DEF AllNext, allVars, taskVars

\* Its own step takes it on.
LEMMA RunAdvances ==
    ASSUME TaskInv, NEW n \in Run
    PROVE  /\ Checks(n) /\ ThreadStep(n) => (Cut(n) \/ Unbarred(n))'
           /\ Cut(n) /\ ScriptEnds(n) => (Ends(n) \/ Unbarred(n))'
           /\ Ends(n) /\ ThreadStep(n) => Unbarred(n)'
BY DEF TaskInv, TaskTypes, Checks, Cut, Ends, Unbarred, ThreadStep, ScriptEnds, RunBegin, RunCheck,
       RunExec, RunCommit, RunEnd, RunGoto

\* A run bars the delete of an instance whose container does not run only until
\* its thread has ended or is lost, whatever happens to the instance meanwhile.
THEOREM DeletesUnbarred == AllSpec /\ []RunsCanStep => DeleteUnblocked
<1>1. AllSpec => [][AllNext]_allVars /\ \A n \in Run : RunFairness(n)
    BY DEF AllSpec, TaskFairness
<1>2. ASSUME NEW n \in Run
      PROVE  []TaskInv /\ [][AllNext]_allVars /\ []RunsCanStep /\ RunFairness(n) =>
                 (Barred(n) ~> Unbarred(n))
    <2>1. TaskInv => (Barred(n) => Checks(n) \/ Cut(n) \/ Ends(n) \/ Unbarred(n))
        BY DEF TaskInv, TaskTypes, RunPhase, RunPcs, Barred, Checks, Cut, Ends, Unbarred
    <2>2. RunsCanStep =>
              /\ Checks(n) => ENABLED <<ThreadStep(n)>>_allVars
              /\ Cut(n) => ENABLED <<ScriptEnds(n)>>_allVars
              /\ Ends(n) => ENABLED <<ThreadStep(n)>>_allVars
        BY DEF RunsCanStep, Checks, Cut, Ends, Unbarred
    <2>3. TaskInv /\ [AllNext]_allVars =>
              /\ Checks(n) => (Checks(n) \/ Cut(n) \/ Unbarred(n))'
              /\ Cut(n) => (Cut(n) \/ Ends(n) \/ Unbarred(n))'
              /\ Ends(n) => (Ends(n) \/ Unbarred(n))'
        BY RunPath
    <2>4. TaskInv /\ <<ThreadStep(n)>>_allVars =>
              /\ Checks(n) => (Cut(n) \/ Unbarred(n))'
              /\ Ends(n) => Unbarred(n)'
        BY RunAdvances
    <2>5. TaskInv /\ <<ScriptEnds(n)>>_allVars => (Cut(n) => (Ends(n) \/ Unbarred(n))')
        BY RunAdvances
    <2> QED
        BY <2>1, <2>2, <2>3, <2>4, <2>5, PTL DEF RunFairness
<1>3. []TaskInv /\ [][AllNext]_allVars /\ []RunsCanStep /\ (\A n \in Run : RunFairness(n)) =>
          \A n \in Run : Barred(n) ~> Unbarred(n)
    BY <1>2
<1>4. AllSpec /\ []RunsCanStep => \A n \in Run : Barred(n) ~> Unbarred(n)
    BY <1>1, <1>3, TasksInOrder
<1> QED
    BY <1>4 DEF DeleteUnblocked, Barred, Unbarred

\* Instances are in phase while tasks run on them.
LEMMA RowsInOrder == AllSpec => []IInv
<1>1. AllInit => IInv
    BY InitInv DEF AllInit
<1> QED
    BY <1>1, InstancesStep, PTL DEF AllSpec

\* A provisioning task that has steps left can take one: the hypothesis that stands
\* for ENABLED, as in InstanceLifecycle_proofs.
ProvisionCanStep ==
    \A i \in Instance :
        Provisioning(i) => ENABLED <<WorkerStep(i) /\ UNCHANGED taskVars>>_allVars

\* Every CREATE operation ends while tasks run, unless the process went down or the
\* database failed under its provisioning task.
THEOREM TasksKeepCreations == AllSpec /\ []ProvisionCanStep => CreateSettles
<1>1. AllSpec /\ []ProvisionCanStep =>
          []IInv /\ [][AllNext]_allVars /\ []ProvisionCanStep /\ \A i \in Instance : WorkerGoesOn(i)
    BY RowsInOrder DEF AllSpec, InstanceFairness
<1>2. ASSUME NEW i \in Instance
      PROVE  []IInv /\ [][AllNext]_allVars /\ []ProvisionCanStep /\ WorkerGoesOn(i) =>
                 (Open(i) ~> Closed(i))
    <2>1. ProvisionCanStep =>
              (Provisioning(i) => ENABLED <<WorkerStep(i) /\ UNCHANGED taskVars>>_allVars)
        BY DEF ProvisionCanStep
    <2>2. <<WorkerStep(i) /\ UNCHANGED taskVars>>_allVars => <<WorkerStep(i)>>_vars
        BY DEF allVars
    <2>3. []ProvisionCanStep /\ WorkerGoesOn(i) => Served(i)
        BY <2>1, <2>2, PTL DEF Served, WorkerGoesOn
    <2>4. IInv /\ [AllNext]_allVars => IInv /\ [Next \/ UNCHANGED worker]_vars
        BY InstanceView DEF vars
    <2> QED
        BY <2>3, <2>4, ServedCloses, PTL
<1>3. []IInv /\ [][AllNext]_allVars /\ []ProvisionCanStep /\ (\A i \in Instance : WorkerGoesOn(i)) =>
          \A i \in Instance : Open(i) ~> Closed(i)
    BY <1>2
<1> QED
    BY <1>1, <1>3 DEF CreateSettles, Open, Closed
=============================================================================
