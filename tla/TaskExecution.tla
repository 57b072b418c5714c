---------------------------- MODULE TaskExecution ---------------------------
(***************************************************************************)
(* Scripts run on instances (TaskService): a task has one run for each of  *)
(* its instances, a background thread executes the runs on a pool of       *)
(* threads and adds up their results.  Runs look at the rows and the       *)
(* containers of InstanceLifecycle once, then work on what they have seen, *)
(* while requests and provisioning go on; delete_instance looks at the     *)
(* runs once, before it begins.                                            *)
(*                                                                         *)
(* create_task is one step: what changes between its SELECT and its commit *)
(* is seen by the runs, which look again.                                  *)
(***************************************************************************)
EXTENDS InstanceLifecycle, FiniteSets

CONSTANTS
    Task,
    PoolSize        \* TaskService._max_workers

ASSUME TaskAssumption == PoolSize \in Nat \ {0}

VARIABLES
    taskStatus,     \* Task.status
    taskPc,         \* where _run_task is
    runStatus,      \* TaskRun.status
    runPc           \* where _execute_task_run is

taskVars == <<taskStatus, taskPc, runStatus, runPc>>
allVars == <<vars, taskVars>>

Run == Task \X Instance
RunsOf(t) == {n \in Run : n[1] = t}

RunStatuses == {"absent", "PENDING", "RUNNING", "SUCCESS", "FAILED"}
TaskStatuses == RunStatuses \cup {"PARTIAL_SUCCESS"}
TaskPcs == {"none", "queued", "pool", "done", "lost", "killed"}
RunPcs == {"none", "waiting", "check", "exec", "passed", "broken", "done", "lost", "killed"}

TaskInit ==
    /\ taskStatus = [t \in Task |-> "absent"]
    /\ taskPc = [t \in Task |-> "none"]
    /\ runStatus = [n \in Run |-> "absent"]
    /\ runPc = [n \in Run |-> "none"]

AllInit == Init /\ TaskInit

-----------------------------------------------------------------------------
\* create_task: 404 unless the tenant has every instance, 409 unless every one
\* is RUNNING.  An instance named twice gets one run here.
CreateTask(t, targets) ==
    LET runs == {t} \X targets IN
    /\ taskPc[t] = "none"
    /\ targets # {}
    /\ \A i, j \in targets : Owner[i] = Owner[j]
    /\ \A i \in targets : status[i] = "RUNNING"
    /\ taskStatus' = [taskStatus EXCEPT ![t] = "PENDING"]
    /\ taskPc' = [taskPc EXCEPT ![t] = "queued"]
    /\ runStatus' = [n \in Run |-> IF n \in runs THEN "PENDING" ELSE runStatus[n]]
    /\ UNCHANGED <<vars, runPc>>

\* _run_task commits RUNNING and submits every run of the task.
TaskBegin(t) ==
    /\ taskPc[t] = "queued"
    /\ taskStatus' = [taskStatus EXCEPT ![t] = "RUNNING"]
    /\ taskPc' = [taskPc EXCEPT ![t] = "pool"]
    /\ runPc' = [n \in Run |-> IF n \in RunsOf(t) /\ runStatus[n] = "PENDING"
                               THEN "waiting" ELSE runPc[n]]
    /\ UNCHANGED <<vars, runStatus>>

AtWork(t) == {n \in RunsOf(t) : runPc[n] \in {"check", "exec", "passed", "broken"}}

RunGoto(n, label) == runPc' = [runPc EXCEPT ![n] = label]

\* Mutant: every run of the task is begun at once.
RunBeginMut(n) ==
    /\ runPc[n] = "waiting"
    /\ runStatus' = [runStatus EXCEPT ![n] = "RUNNING"]
    /\ RunGoto(n, "check")
    /\ UNCHANGED <<vars, taskStatus, taskPc>>

RunBegin(n) ==
    /\ runPc[n] = "waiting"
    /\ Cardinality(AtWork(n[1])) < PoolSize
    /\ runStatus' = [runStatus EXCEPT ![n] = "RUNNING"]
    /\ RunGoto(n, "check")
    /\ UNCHANGED <<vars, taskStatus, taskPc>>

RunEnd(n, s) ==
    /\ runStatus' = [runStatus EXCEPT ![n] = s]
    /\ RunGoto(n, "done")
    /\ UNCHANGED <<vars, taskStatus, taskPc>>

\* Mutant: a run that finds its instance gone just returns.
RunCheckMut(n) ==
    /\ runPc[n] = "check"
    /\ IF status[n[2]] = "RUNNING" /\ n[2] \in recorded
       THEN RunGoto(n, "exec") /\ UNCHANGED <<vars, taskStatus, taskPc, runStatus>>
       ELSE RunGoto(n, "done") /\ UNCHANGED <<vars, taskStatus, taskPc, runStatus>>

\* The instance is read again: it must still be RUNNING and have a container.
RunCheck(n) ==
    /\ runPc[n] = "check"
    /\ IF status[n[2]] = "RUNNING" /\ n[2] \in recorded
       THEN RunGoto(n, "exec") /\ UNCHANGED <<vars, taskStatus, taskPc, runStatus>>
       ELSE RunEnd(n, "FAILED")

\* Mutant: the thread waits for the output of a script that was cut short.
RunExecMut(n) ==
    /\ runPc[n] = "exec"
    /\ docker[n[2]] = "running"
    /\ \E label \in {"passed", "broken"} : RunGoto(n, label)
    /\ UNCHANGED <<vars, taskStatus, taskPc, runStatus>>

\* exec_script returns: exit code 0 or not in a container that runs; an error
\* or a script cut short in one that does not.  It has no timeout.
RunExec(n) ==
    /\ runPc[n] = "exec"
    /\ \/ docker[n[2]] = "running" /\ RunGoto(n, "passed")
       \/ RunGoto(n, "broken")
    /\ UNCHANGED <<vars, taskStatus, taskPc, runStatus>>

RunCommit(n) ==
    \/ runPc[n] = "passed" /\ RunEnd(n, "SUCCESS")
    \/ runPc[n] = "broken" /\ RunEnd(n, "FAILED")

\* The database (or, to begin with, Docker) fails under a run: the pool logs it
\* and the run's row stays as it is, PENDING when it had not begun.
RunLost(n) ==
    /\ runPc[n] \in {"waiting", "check", "passed", "broken"}
    /\ runPc[n] = "waiting" => Cardinality(AtWork(n[1])) < PoolSize
    /\ Fault
    /\ RunGoto(n, "lost")
    /\ UNCHANGED <<rowVars, worker, reqVars, docker, balance, crashes,
                   taskStatus, taskPc, runStatus>>

Verdict(good, bad) ==
    CASE bad # {} /\ good # {} -> "PARTIAL_SUCCESS"
      [] bad # {} /\ good = {} -> "FAILED"
      [] OTHER                 -> "SUCCESS"

\* Mutant: the results are added up when the pool has begun the last run.
TaskEndMut(t) ==
    /\ taskPc[t] = "pool"
    /\ \A n \in RunsOf(t) : runPc[n] # "waiting"
    /\ taskStatus' = [taskStatus EXCEPT ![t] =
           Verdict({n \in RunsOf(t) : runStatus[n] = "SUCCESS"},
                   {n \in RunsOf(t) : runStatus[n] = "FAILED"})]
    /\ taskPc' = [taskPc EXCEPT ![t] = "done"]
    /\ UNCHANGED <<vars, runStatus, runPc>>

\* Mutant: a run the database failed under takes the tally with it.
TaskEndLostMut(t) ==
    /\ taskPc[t] = "pool"
    /\ \A n \in RunsOf(t) : runPc[n] \in {"none", "done"}
    /\ taskStatus' = [taskStatus EXCEPT ![t] =
           Verdict({n \in RunsOf(t) : runStatus[n] = "SUCCESS"},
                   {n \in RunsOf(t) : runStatus[n] = "FAILED"})]
    /\ taskPc' = [taskPc EXCEPT ![t] = "done"]
    /\ UNCHANGED <<vars, runStatus, runPc>>

\* Every future is done: the results are added up.
TaskEnd(t) ==
    /\ taskPc[t] = "pool"
    /\ \A n \in RunsOf(t) : runPc[n] \in {"none", "done", "lost"}
    /\ taskStatus' = [taskStatus EXCEPT ![t] =
           Verdict({n \in RunsOf(t) : runStatus[n] = "SUCCESS"},
                   {n \in RunsOf(t) : runStatus[n] = "FAILED"})]
    /\ taskPc' = [taskPc EXCEPT ![t] = "done"]
    /\ UNCHANGED <<vars, runStatus, runPc>>

\* The database fails under _run_task itself, which nothing catches: before its
\* first commit, after it with no run submitted, or in the tally.
TaskLost(t) ==
    /\ \/ /\ taskPc[t] = "queued"
          /\ \/ UNCHANGED taskStatus
             \/ taskStatus' = [taskStatus EXCEPT ![t] = "RUNNING"]
       \/ /\ taskPc[t] = "pool"
          /\ \A n \in RunsOf(t) : runPc[n] \in {"none", "done", "lost"}
          /\ UNCHANGED taskStatus
    /\ taskPc' = [taskPc EXCEPT ![t] = "lost"]
    /\ Fault
    /\ UNCHANGED <<rowVars, worker, reqVars, docker, balance, crashes, runStatus, runPc>>

\* delete_instance answers 409 while a run on the instance is RUNNING.
DeleteGuarded(r, i) ==
    /\ \A t \in Task : runStatus[<<t, i>>] # "RUNNING"
    /\ DeleteRead(r, i)

InstanceStep ==
    \/ \E r \in Request : RequestStep(r)
    \/ \E r \in Request, i \in Instance :
           \/ CreateCheck(r, i)
           \/ StartRead(r, i)
           \/ StopRead(r, i)
           \/ RebootRead(r, i)
           \/ DeleteGuarded(r, i)
    \/ \E i \in Instance : WorkerStep(i)
    \/ \E i \in Instance : ContainerGoes(i)

RunStep(n) ==
    \/ RunBegin(n)
    \/ RunCheck(n)
    \/ RunExec(n)
    \/ RunCommit(n)
    \/ RunLost(n)

TaskStep(t) == TaskBegin(t) \/ TaskEnd(t)

\* Nothing at startup looks for tasks and runs left in the middle.
TaskCrash ==
    /\ Crash
    /\ taskPc' = [t \in Task |-> IF taskPc[t] \in {"queued", "pool"}
                                 THEN "killed" ELSE taskPc[t]]
    /\ runPc' = [n \in Run |-> IF runPc[n] \in {"none", "done", "lost"}
                               THEN runPc[n] ELSE "killed"]
    /\ UNCHANGED <<taskStatus, runStatus>>

AllNext ==
    \/ InstanceStep /\ UNCHANGED taskVars
    \/ \E t \in Task, targets \in SUBSET Instance : CreateTask(t, targets)
    \/ \E t \in Task : TaskStep(t) \/ TaskLost(t)
    \/ \E n \in Run : RunStep(n)
    \/ TaskCrash

\* Threads are scheduled and database calls return.  A script need not end:
\* exec_script returns for sure only when its container does not run.
ThreadStep(n)  == RunBegin(n) \/ RunCheck(n) \/ RunCommit(n)
ScriptEnds(n)  == docker[n[2]] # "running" /\ RunExec(n)
RunFairness(n) == WF_allVars(ThreadStep(n)) /\ WF_allVars(ScriptEnds(n))

PoolFairness == \A t \in Task : WF_allVars(TaskStep(t))
TaskFairness == PoolFairness /\ \A n \in Run : RunFairness(n)

RequestGoesOn(r) == WF_allVars(RequestStep(r) /\ UNCHANGED taskVars)
WorkerGoesOn(i)  == WF_allVars(WorkerStep(i) /\ UNCHANGED taskVars)
InstanceFairness ==
    /\ \A r \in Request : RequestGoesOn(r)
    /\ \A i \in Instance : WorkerGoesOn(i)

AllSpec == AllInit /\ [][AllNext]_allVars /\ TaskFairness /\ InstanceFairness

-----------------------------------------------------------------------------
TaskTypes ==
    /\ taskStatus \in [Task -> TaskStatuses]
    /\ taskPc \in [Task -> TaskPcs]
    /\ runStatus \in [Run -> RunStatuses]
    /\ runPc \in [Run -> RunPcs]

TaskTypeOK == TaskTypes /\ \A t \in Task : Cardinality(AtWork(t)) <= PoolSize

\* What a finished task says of its runs is true and stays true: each run is
\* over, SUCCESS means all did, FAILED that none did, PARTIAL_SUCCESS that some
\* did, a run whose result the database refused left aside (a task all of whose
\* runs were lost so counts as a SUCCESS).
VerdictMatchesRuns ==
    \A t \in Task : taskPc[t] = "done" =>
        LET Outcomes == {runStatus[n] : n \in {m \in RunsOf(t) : runPc[m] = "done"}} IN
        /\ Outcomes \subseteq {"SUCCESS", "FAILED"}
        /\ \A n \in RunsOf(t) : runStatus[n] \in {"PENDING", "RUNNING"} => runPc[n] = "lost"
        /\ taskStatus[t] = "PARTIAL_SUCCESS" <=> Outcomes = {"SUCCESS", "FAILED"}
        /\ taskStatus[t] = "FAILED" <=> Outcomes = {"FAILED"}

\* If scripts come to an end, so does every task that was accepted, through
\* stops and deletes of its instances and through failures of Docker and of the
\* database under its runs, unless the process goes down or the database fails
\* under _run_task itself.
TaskSettles ==
    (\A n \in Run : []<>(runPc[n] # "exec")) =>
        \A t \in Task : taskPc[t] \in {"queued", "pool"} ~> taskPc[t] \in {"done", "lost", "killed"}

\* A run does not bar the delete of its instance for ever: once the container
\* does not run, the run ends, unless the process went down or the database
\* failed under it.
DeleteUnblocked ==
    \A n \in Run :
        runStatus[n] = "RUNNING" /\ docker[n[2]] # "running" ~>
            \/ runStatus[n] # "RUNNING"
            \/ docker[n[2]] = "running"
            \/ runPc[n] \in {"lost", "killed"}
=============================================================================
