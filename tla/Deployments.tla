---------------------------- MODULE Deployments ----------------------------
(***************************************************************************)
(* AI deployments (DeploymentService): the pipeline that clones, analyses, *)
(* builds, runs and publishes a repository, and the handler that deletes a *)
(* deployment, over one record in memory and one row in the database for   *)
(* each deployment, one Docker daemon and one nginx.                       *)
(*                                                                         *)
(* Pipelines and handlers are coroutines of one event loop: the code       *)
(* between two awaits is atomic, what is awaited runs on a thread and may  *)
(* interleave with everybody else's.  An action is a stretch of the loop   *)
(* or one outside effect of a thread.  Every change of a record writes it  *)
(* to the database before the next await, and a failed write is swallowed; *)
(* of several writes in one stretch the model has the last.                *)
(*                                                                         *)
(* A deployment id is a fresh uuid, so it is requested once.  The host     *)
(* domain is configured.  `nginx -t` and the reload after it are one step. *)
(***************************************************************************)
EXTENDS Integers, Sequences

CONSTANTS
    Deployment,
    Deleter,        \* DELETE requests in flight
    NoDeployment,
    NoRecord,
    MaxAttempts,    \* _effective_max_attempts
    MaxFaults,      \* bound: calls of Docker and nginx that fail
    MaxLost,        \* bound: database writes that fail
    MaxCrashes      \* bound: restarts of the API process

ASSUME DeploymentAssumption ==
    /\ Deployment \cap Deleter = {}
    /\ NoDeployment \notin Deployment
    /\ MaxAttempts \in 1 .. 5
    /\ MaxFaults \in Nat
    /\ MaxLost \in Nat
    /\ MaxCrashes \in Nat

VARIABLES
    records,        \* self._deployments
    rows,           \* tables deployments and deployment_attempts
    pc,             \* where a pipeline or a delete handler is
    target,         \* the deployment a delete handler works on
    container,      \* the container deploy-<id>
    images,         \* the images tenant-<t>-deploy-<id> that exist
    conf,           \* the files <id>.conf in nginx's directory
    served,         \* the deployments nginx has loaded
    faults,
    lost,
    crashes

bookVars == <<records, rows, lost>>
hostVars == <<container, images, conf, served>>
vars == <<bookVars, pc, target, hostVars, faults, crashes>>

Worker == Deployment \cup Deleter

Statuses == {"analyzing", "cloning", "generating_dockerfile", "building",
             "configuring_access", "running", "retrying", "failed", "deleting",
             "deleted"}
AttemptStatuses == {"running", "dockerfile_generated", "build_succeeded",
                    "build_failed", "failed"}
CleanupPcs == {"rm_container", "rm_image", "rm_conf", "rm_reload", "rm_done"}
PipelinePcs == {"none", "queued", "clone", "scan", "generate", "write", "build",
                "run", "listen", "put_conf", "reload", "configured", "abort",
                "done", "killed"} \cup CleanupPcs
DeleterPcs == {"idle"} \cup CleanupPcs

\* DeploymentRecord: `held` says that container_id, container_name,
\* container_port and docker_image are set (always together), `url` that
\* public_url is; `attempts` has the status of each attempt.
Record == [status   : Statuses,
           held     : BOOLEAN,
           url      : BOOLEAN,
           cancel   : BOOLEAN,
           attempts : Seq(AttemptStatuses)]

ASSUME RecordAssumption == NoRecord \notin Record

Init ==
    /\ records = [d \in Deployment |-> NoRecord]
    /\ rows = [d \in Deployment |-> NoRecord]
    /\ pc = [w \in Worker |-> IF w \in Deployment THEN "none" ELSE "idle"]
    /\ target = [w \in Deleter |-> NoDeployment]
    /\ container = [d \in Deployment |-> "none"]
    /\ images = {}
    /\ conf = {}
    /\ served = {}
    /\ faults = 0
    /\ lost = 0
    /\ crashes = 0

-----------------------------------------------------------------------------
(* Records and rows.                                                       *)

\* What GET /deployments/{id} answers from: memory first, then the database.
Visible(d) == IF records[d] # NoRecord THEN records[d] ELSE rows[d]

\* What a failed write leaves in the database: it commits the deployment
\* first and its attempts in a second transaction.
Stale(d, rec) ==
    {rows[d],
     [rec EXCEPT !.attempts = IF rows[d] = NoRecord THEN <<>> ELSE rows[d].attempts]}

\* _update_deployment, _start_attempt, _update_attempt and the persist in
\* each: a failed write is logged and nothing else.
Save(d, rec) ==
    /\ records' = [records EXCEPT ![d] = rec]
    /\ \/ /\ rows' = [rows EXCEPT ![d] = rec]
          /\ UNCHANGED lost
       \/ /\ lost < MaxLost
          /\ lost' = lost + 1
          /\ \E old \in Stale(d, rec) : rows' = [rows EXCEPT ![d] = old]

Fault == faults < MaxFaults /\ faults' = faults + 1

Goto(w, label) == pc' = [pc EXCEPT ![w] = label]

LastAttempt(rec) == rec.attempts[Len(rec.attempts)]

WithAttempt(rec, s) == [rec EXCEPT !.attempts[Len(rec.attempts)] = s]

\* Mutant: the cleanup goes by the URL, which is recorded last.
CleanupFromMut(rec) == IF rec.url THEN "rm_container" ELSE "rm_conf"

\* The first thing _cleanup_resources does for this copy of the record.
CleanupFrom(rec) == IF rec.held THEN "rm_container" ELSE "rm_conf"

\* A checkpoint (_assert_not_cancelled): a cancelled pipeline cleans up, any
\* other writes rec and goes on.
Continue(d, rec, label) ==
    IF records[d].cancel
    THEN Goto(d, CleanupFrom(records[d])) /\ UNCHANGED bookVars
    ELSE Goto(d, label) /\ Save(d, rec)

\* The last handler of _run_pipeline, whatever the record says.
Fail(d, rec) ==
    /\ Save(d, [rec EXCEPT !.status = "failed"])
    /\ Goto(d, "done")

-----------------------------------------------------------------------------
(* The pipeline.                                                           *)

RequestDeployment(d) ==
    /\ pc[d] = "none"
    /\ Save(d, [status |-> "analyzing", held |-> FALSE, url |-> FALSE,
                cancel |-> FALSE, attempts |-> <<>>])
    /\ Goto(d, "queued")
    /\ UNCHANGED <<target, hostVars, faults, crashes>>

PipelineBegin(d) ==
    /\ pc[d] = "queued"
    /\ Continue(d, [records[d] EXCEPT !.status = "cloning"], "clone")
    /\ UNCHANGED <<target, hostVars, faults, crashes>>

\* Clone or scan raises: no attempt has been started.
EarlyFailure(d) ==
    /\ pc[d] \in {"clone", "scan"}
    /\ Fail(d, records[d])
    /\ UNCHANGED <<target, hostVars, faults, crashes>>

Cloned(d) ==
    /\ pc[d] = "clone"
    /\ Continue(d, [records[d] EXCEPT !.status = "analyzing"], "scan")
    /\ UNCHANGED <<target, hostVars, faults, crashes>>

\* _start_attempt, and the status that goes with it.
WithNewAttempt(rec) ==
    [rec EXCEPT !.status = "generating_dockerfile",
                !.attempts = Append(@, "running")]

Scanned(d) ==
    /\ pc[d] = "scan"
    /\ Continue(d, WithNewAttempt(records[d]), "generate")
    /\ UNCHANGED <<target, hostVars, faults, crashes>>

\* The prompt and the answer of the model, as one await: only its length is
\* recorded in between.
Generated(d) ==
    /\ pc[d] = "generate"
    /\ Save(d, WithAttempt(records[d], "dockerfile_generated"))
    /\ Goto(d, "write")
    /\ UNCHANGED <<target, hostVars, faults, crashes>>

Written(d) ==
    /\ pc[d] = "write"
    /\ Continue(d, [records[d] EXCEPT !.status = "building"], "build")
    /\ UNCHANGED <<target, hostVars, faults, crashes>>

ImageBuilt(d) ==
    /\ pc[d] = "build"
    /\ images' = images \cup {d}
    /\ Goto(d, "run")
    /\ UNCHANGED <<bookVars, target, container, conf, served, faults, crashes>>

\* Mutant: one attempt too many.
BuildFailedMut(d) ==
    LET rec == WithAttempt(records[d], "build_failed")
        again == [rec EXCEPT !.status = "retrying"] IN
    /\ pc[d] = "build"
    /\ IF Len(rec.attempts) > MaxAttempts
       THEN Fail(d, rec)
       ELSE IF rec.cancel
            THEN Save(d, again) /\ Goto(d, CleanupFrom(rec))
            ELSE Save(d, WithNewAttempt(again)) /\ Goto(d, "generate")
    /\ UNCHANGED <<target, hostVars, faults, crashes>>

\* BuildFailedError: "failed" after the last attempt, cancelled or not;
\* otherwise "retrying", and the checkpoint at the head of the loop.
BuildFailed(d) ==
    LET rec == WithAttempt(records[d], "build_failed")
        again == [rec EXCEPT !.status = "retrying"] IN
    /\ pc[d] = "build"
    /\ IF Len(rec.attempts) >= MaxAttempts
       THEN Fail(d, rec)
       ELSE IF rec.cancel
            THEN Save(d, again) /\ Goto(d, CleanupFrom(rec))
            ELSE Save(d, WithNewAttempt(again)) /\ Goto(d, "generate")
    /\ UNCHANGED <<target, hostVars, faults, crashes>>

\* containers.run: it may fail before or after the container is created.
ContainerRun(d) ==
    /\ pc[d] = "run"
    /\ \E c \in {"none", "stopped", "running"} :
           /\ container' = [container EXCEPT ![d] = c]
           /\ Goto(d, IF c = "running" THEN "listen" ELSE "abort")
    /\ UNCHANGED <<bookVars, target, images, conf, served, faults, crashes>>

\* Mutant: the checkpoint comes before what was built is recorded.
ListeningMut(d) ==
    /\ pc[d] = "listen"
    /\ container[d] = "running"
    /\ Continue(d, [WithAttempt(records[d], "build_succeeded") EXCEPT
                        !.held = TRUE, !.status = "configuring_access"],
                "put_conf")
    /\ UNCHANGED <<target, hostVars, faults, crashes>>

\* A port answers: what was built is recorded, then comes the checkpoint.
Listening(d) ==
    LET rec == [WithAttempt(records[d], "build_succeeded") EXCEPT !.held = TRUE] IN
    /\ pc[d] = "listen"
    /\ container[d] = "running"
    /\ IF rec.cancel
       THEN Save(d, rec) /\ Goto(d, CleanupFrom(rec))
       ELSE Save(d, [rec EXCEPT !.status = "configuring_access"]) /\ Goto(d, "put_conf")
    /\ UNCHANGED <<target, hostVars, faults, crashes>>

\* _configure_public_access writes the server block, or finds no nginx.
PutConf(d) ==
    /\ pc[d] = "put_conf"
    /\ \/ /\ conf' = conf \cup {d}
          /\ Goto(d, "reload")
          /\ UNCHANGED faults
       \/ /\ Fault
          /\ Goto(d, "abort")
          /\ UNCHANGED conf
    /\ UNCHANGED <<bookVars, target, container, images, served, crashes>>

\* `nginx -t`: the container every server block names must resolve.
ConfigTest == \A d \in conf : container[d] = "running"

\* Mutant: the pipeline does not look at the answer of `nginx -t`.
ReloadMut(d) ==
    /\ pc[d] = "reload"
    /\ IF ConfigTest THEN served' = conf ELSE UNCHANGED served
    /\ Goto(d, "configured")
    /\ UNCHANGED <<bookVars, target, container, images, conf, faults, crashes>>

\* _reload_nginx, for a pipeline
Reload(d) ==
    /\ pc[d] = "reload"
    /\ \/ /\ ConfigTest
          /\ served' = conf
          /\ Goto(d, "configured")
          /\ UNCHANGED faults
       \/ /\ IF ConfigTest THEN Fault ELSE UNCHANGED faults
          /\ Goto(d, "abort")
          /\ UNCHANGED served
    /\ UNCHANGED <<bookVars, target, container, images, conf, crashes>>

\* Mutant: no checkpoint after the route is up.
ConfiguredMut(d) ==
    /\ pc[d] = "configured"
    /\ Save(d, [records[d] EXCEPT !.status = "running", !.url = TRUE])
    /\ Goto(d, "done")
    /\ UNCHANGED <<target, hostVars, faults, crashes>>

Configured(d) ==
    /\ pc[d] = "configured"
    /\ Continue(d, [records[d] EXCEPT !.status = "running", !.url = TRUE], "done")
    /\ UNCHANGED <<target, hostVars, faults, crashes>>

\* Mutant: the attempt is closed, the deployment is not.
AttemptFailureMut(d) ==
    /\ pc[d] \in {"generate", "write", "build", "listen", "abort"}
    /\ Save(d, WithAttempt(records[d], "failed"))
    /\ Goto(d, "done")
    /\ UNCHANGED <<target, hostVars, faults, crashes>>

\* Any other exception of an attempt, of the model's answer, the connection to
\* Docker, the wait for a port or nginx: it is not retried, and nothing is
\* cleaned up.
AttemptFailure(d) ==
    /\ pc[d] \in {"generate", "write", "build", "listen", "abort"}
    /\ Fail(d, WithAttempt(records[d], "failed"))
    /\ UNCHANGED <<target, hostVars, faults, crashes>>

-----------------------------------------------------------------------------
(* _cleanup_resources, on a thread of a delete handler or of a cancelled   *)
(* pipeline.                                                               *)

For(w) == IF w \in Deployment THEN w ELSE target[w]

\* The coroutine of w is over.
Leave(w) ==
    /\ Goto(w, IF w \in Deployment THEN "done" ELSE "idle")
    /\ target' = IF w \in Deployment THEN target
                 ELSE [target EXCEPT ![w] = NoDeployment]

\* Only NotFound is swallowed: any other error ends the coroutine.
RemoveContainer(w) ==
    /\ pc[w] = "rm_container"
    /\ \/ /\ container' = [container EXCEPT ![For(w)] = "none"]
          /\ Goto(w, "rm_image")
          /\ UNCHANGED <<target, faults>>
       \/ /\ Fault
          /\ Leave(w)
          /\ UNCHANGED container
    /\ UNCHANGED <<bookVars, images, conf, served, crashes>>

\* Mutant: the image is kept.
RemoveImageMut(w) ==
    /\ pc[w] = "rm_image"
    /\ Goto(w, "rm_conf")
    /\ UNCHANGED <<bookVars, target, hostVars, faults, crashes>>

\* An error the daemon answers is swallowed here, a lost connection is not.
RemoveImage(w) ==
    /\ pc[w] = "rm_image"
    /\ \/ /\ images' = images \ {For(w)}
          /\ Goto(w, "rm_conf")
          /\ UNCHANGED <<target, faults>>
       \/ /\ Fault
          /\ \/ Goto(w, "rm_conf") /\ UNCHANGED target
             \/ Leave(w)
          /\ UNCHANGED images
    /\ UNCHANGED <<bookVars, container, conf, served, crashes>>

\* No nginx container: the file stays and the cleanup is taken for done.  Any
\* other error, of the connection included, ends the cleanup half way; it is
\* also where a cleanup that has nothing to remove connects to Docker first.
RemoveConf(w) ==
    /\ pc[w] = "rm_conf"
    /\ \/ /\ conf' = conf \ {For(w)}
          /\ Goto(w, "rm_reload")
          /\ UNCHANGED <<target, faults>>
       \/ /\ Fault
          /\ \/ Goto(w, "rm_done") /\ UNCHANGED target
             \/ Leave(w)
          /\ UNCHANGED conf
    /\ UNCHANGED <<bookVars, container, images, served, crashes>>

\* _reload_nginx, for a cleanup
RemoveReload(w) ==
    /\ pc[w] = "rm_reload"
    /\ \/ /\ ConfigTest
          /\ served' = conf
          /\ Goto(w, "rm_done")
          /\ UNCHANGED <<target, faults>>
       \/ /\ IF ConfigTest THEN Fault ELSE UNCHANGED faults
          /\ Leave(w)
          /\ UNCHANGED served
    /\ UNCHANGED <<bookVars, container, images, conf, crashes>>

\* The end of delete_deployment and of a cancelled pipeline.
CleanupDone(w) ==
    LET d == For(w) IN
    /\ pc[w] = "rm_done"
    /\ Save(d, [records[d] EXCEPT !.status = "deleted", !.held = FALSE, !.url = FALSE])
    /\ Leave(w)
    /\ UNCHANGED <<hostVars, faults, crashes>>

CleanupStep(w) ==
    \/ RemoveContainer(w)
    \/ RemoveImage(w)
    \/ RemoveConf(w)
    \/ RemoveReload(w)
    \/ CleanupDone(w)

-----------------------------------------------------------------------------
(* Requests, the outside and restarts.                                     *)

\* delete_deployment up to its await: any deployment, a deleted one included.
DeleteBegin(w, d) ==
    /\ pc[w] = "idle"
    /\ Visible(d) # NoRecord
    /\ Save(d, [Visible(d) EXCEPT !.cancel = TRUE, !.status = "deleting"])
    /\ Goto(w, CleanupFrom(Visible(d)))
    /\ target' = [target EXCEPT ![w] = d]
    /\ UNCHANGED <<hostVars, faults, crashes>>

\* get_deployment_status brings a row into memory.
GetStatus(d) ==
    /\ records[d] = NoRecord
    /\ rows[d] # NoRecord
    /\ records' = [records EXCEPT ![d] = rows[d]]
    /\ UNCHANGED <<rows, lost, pc, target, hostVars, faults, crashes>>

\* An operator or the daemon stops or removes a container.
ContainerGoes(d) ==
    /\ container[d] # "none"
    /\ \E c \in {"none", "stopped"} \ {container[d]} :
           container' = [container EXCEPT ![d] = c]
    /\ Fault
    /\ UNCHANGED <<bookVars, pc, target, images, conf, served, crashes>>

\* Memory and coroutines are gone; nothing resumes a pipeline.
Crash ==
    /\ crashes < MaxCrashes
    /\ crashes' = crashes + 1
    /\ records' = [d \in Deployment |-> NoRecord]
    /\ pc' = [w \in Worker |->
                IF w \in Deleter THEN "idle"
                ELSE IF pc[w] \in {"none", "done"} THEN pc[w]
                ELSE "killed"]
    /\ target' = [w \in Deleter |-> NoDeployment]
    /\ UNCHANGED <<rows, lost, hostVars, faults>>

PipelineStep(d) ==
    \/ PipelineBegin(d)
    \/ EarlyFailure(d)
    \/ Cloned(d)
    \/ Scanned(d)
    \/ Generated(d)
    \/ Written(d)
    \/ ImageBuilt(d)
    \/ BuildFailed(d)
    \/ ContainerRun(d)
    \/ Listening(d)
    \/ PutConf(d)
    \/ Reload(d)
    \/ Configured(d)
    \/ AttemptFailure(d)
    \/ CleanupStep(d)

Next ==
    \/ \E d \in Deployment : RequestDeployment(d)
    \/ \E d \in Deployment : PipelineStep(d)
    \/ \E w \in Deleter : CleanupStep(w)
    \/ \E w \in Deleter, d \in Deployment : DeleteBegin(w, d)
    \/ \E d \in Deployment : GetStatus(d)
    \/ \E d \in Deployment : ContainerGoes(d)
    \/ Crash

\* The event loop serves every coroutine and every call on a thread returns:
\* clone, build, the model and the wait for a port end or time out.
Fairness ==
    /\ \A d \in Deployment : WF_vars(PipelineStep(d))
    /\ \A w \in Deleter : WF_vars(CleanupStep(w))

Spec == Init /\ [][Next]_vars /\ Fairness

-----------------------------------------------------------------------------
(* What makes it correct.                                                  *)

DeploymentTypeOK ==
    /\ records \in [Deployment -> Record \cup {NoRecord}]
    /\ rows \in [Deployment -> Record \cup {NoRecord}]
    /\ \A d \in Deployment : \A rec \in {records[d], rows[d]} \ {NoRecord} :
           Len(rec.attempts) <= MaxAttempts
    /\ pc \in [Worker -> PipelinePcs \cup DeleterPcs]
    /\ \A d \in Deployment : pc[d] \in PipelinePcs
    /\ \A w \in Deleter : pc[w] \in DeleterPcs
    /\ target \in [Deleter -> Deployment \cup {NoDeployment}]
    /\ container \in [Deployment -> {"none", "stopped", "running"}]
    /\ images \cup conf \cup served \subseteq Deployment
    /\ faults \in 0 .. MaxFaults
    /\ lost \in 0 .. MaxLost
    /\ crashes \in 0 .. MaxCrashes

Working(d) == pc[d] \notin {"none", "done", "killed"}

Idle(d) == ~Working(d) /\ \A w \in Deleter : target[w] # d

Known(d) == Visible(d) # NoRecord

\* Its last attempt ended with an error that is not a build error.
Broken(d) == /\ Known(d)
             /\ Visible(d).attempts # <<>>
             /\ LastAttempt(Visible(d)) = "failed"

\* A deployment shown as running is running: its container is up, nginx has
\* its route, both are recorded and nobody has asked to delete it; no delete
\* that overlaps the pipeline and no restart makes it show anything else.
RunningIsServed ==
    \A d \in Deployment :
        Known(d) /\ Visible(d).status = "running" =>
            /\ Visible(d).held /\ Visible(d).url /\ ~Visible(d).cancel
            /\ faults + lost = 0 =>
                   container[d] = "running" /\ d \in images \cap conf \cap served

\* No container is forgotten: one nobody is at work on has its id in the
\* record, unless its only run failed, the process went down under the
\* pipeline or a call or a write failed.
NothingForgotten ==
    \A d \in Deployment :
        container[d] # "none" /\ ~Working(d) =>
            \/ Known(d) /\ Visible(d).held
            \/ Broken(d)
            \/ pc[d] = "killed"
            \/ faults + lost > 0

\* When nothing fails, deleting a deployment whose pipeline met no error other
\* than build errors removes container, image and server block, at whatever
\* point of the pipeline the delete comes.
DeletedLeavesNothing ==
    \A d \in Deployment :
        /\ Known(d)
        /\ Visible(d).cancel
        /\ Idle(d)
        /\ ~Broken(d)
        /\ faults + crashes = 0
        => container[d] = "none" /\ d \notin images \cup conf

\* The tenant's view (as long as no restart follows a lost database write):
\* running or failed once, and never running after DELETE, whatever the pipeline
\* was at.
Promise == INSTANCE DeploymentPromise WITH phase <-
    [d \in Deployment |->
        IF ~Known(d) THEN "absent"
        ELSE IF Visible(d).status = "running" THEN "running"
        ELSE IF Visible(d).cancel THEN "closed"
        ELSE IF Visible(d).status = "failed" THEN "failed"
        ELSE "open"]

KeepsPromise == Promise!Spec

\* A cancelled pipeline whose own cleanup ended half way: a call of it failed, or
\* nginx would not reload, if only for the container of a neighbour.  Nothing
\* tries again, and the status stays as the cancel or the last build left it.
CleanupCut(d) ==
    pc[d] = "done" /\ Visible(d).cancel /\ Visible(d).status \in {"deleting", "retrying"}

\* No pipeline is left half way, whatever fails in it and whatever its neighbours
\* do: unless the process goes down, it ends, and then the deployment is running,
\* failed or deleted, or was cancelled and its cleanup ended half way.
PipelineSettles ==
    \A d \in Deployment :
        Working(d) ~>
            \/ pc[d] = "killed"
            \/ pc[d] = "done" /\ Visible(d).status \in {"running", "failed", "deleted"}
            \/ CleanupCut(d)

\* As long as no call to Docker or nginx fails and the process stays up (a delete
\* that an error or a restart cuts short is not taken up again), DELETE of a
\* deployment with a recorded container gets rid of it in the end, however many
\* requests and whatever pipeline work on it.
DeleteReleases ==
    \A d \in Deployment :
        Known(d) /\ Visible(d).cancel /\ Visible(d).held ~>
            container[d] = "none" \/ faults + crashes > 0

\* A delete of d, or the cleanup of its cancelled pipeline, has cleared the
\* record, and nobody is at work on d any more.
Deleted(d) == /\ Known(d)
              /\ Visible(d).cancel
              /\ ~Visible(d).held
              /\ Idle(d)

\* What README promises of DELETE: the container and the nginx route are gone
\* (here no call fails and the process stays up).
DeleteRemoves ==
    \A d \in Deployment : Deleted(d) => container[d] = "none" /\ d \notin conf
=============================================================================
