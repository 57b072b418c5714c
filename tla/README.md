# Formal models of the IaaS platform

TLA+ models of the parts of this repository whose correctness depends on order,
interleaving and failure: instances and their provisioning, billing, tasks,
networks, AI deployments and accounts. TLC checks them on small instances; TLAPS proves
the most important facts for any number of instances, tenants, users and requests.

Paths below are relative to the repository (`app/...`).

## The system

One API process (a single uvicorn worker, `infra/docker/Dockerfile:19`) talks to
PostgreSQL, one Docker daemon and one nginx container.

| Component | State | Operations | Runs on |
|---|---|---|---|
| Instances, `services/compute_service.py` | `instances`, `instance_operations`; containers | create (+ background provisioning), delete, start, stop, reboot | a thread per request and per background task, each with its own session |
| Quota and balance, `services/billing_service.py` | `tenants.balance_credits`, plans | `get_quota`, `assert_can_allocate`, called by create | the caller's thread |
| Billing tick, `services/billing_scheduler.py` | `resource_usage_logs`, balances, instance rows | every 60 s: charge each RUNNING instance, stop the tenants whose balance is spent | one daemon thread, on a pool of connections it shares with the requests |
| Tasks, `services/task_service.py` | `tasks`, `task_runs` | `create_task`, `_run_task`, `_execute_task_run` | background thread and a pool of 4 |
| Networks, `services/network_service.py` | `networks` | create, update, delete | a thread per request |
| Deployments, `services/deployment_service.py` | records in memory, `deployments`, `deployment_attempts`; images, containers, nginx files | request (+ pipeline), status, delete | coroutines of one event loop, blocking calls on threads |
| Accounts, `services/auth_service.py`, `core/deps.py`, `services/admin_service.py`, `db/init_db.py` | `users`, `tenants`, tokens in browsers | register, login, promote, demote; `seed_superuser` at each start | a thread per request; seeding before the first |
| Scripts, catalog, dashboard, admin reports | their tables | CRUD, reads | a thread per request |

How they interact:

- Instance handlers, the provisioning task, the billing tick and the runs of
  tasks share rows and containers. None of them locks a row: each reads it once,
  calls Docker for as long as it takes, and writes what it decided on the way.
- The billing tick and the create handler share balances; `delete_instance` reads
  the runs of tasks and refuses while one is RUNNING.
- A pipeline and a delete share a record in memory, one flag in it
  (`cancel_requested`) and the container, image and nginx file of a deployment;
  all deployments share nginx, whose configuration is tested as a whole.
- The billing tick holds an advisory lock of PostgreSQL, which belongs to a connection;
  its session gives that connection back to the pool at every commit, and the requests
  take it from there.
- A token holds a user's tenant and role; every request compares them with the row, which
  registrations, role changes and the seeding of the superuser write.
- Nothing is resumed at startup (`main.py:21`): background tasks, pipelines and
  runs that a restart interrupts stay as their rows say.

What makes each part correct, and what is hard about it:

- *Instances*: no container is lost track of; a deleted instance stays deleted; a
  failed creation stays failed; the plan and the SSH ports are respected; every
  CREATE operation ends. Hard: a delete or a stop that overlaps provisioning,
  late commits over newer rows, Docker calls that fail between two commits.
- *Billing*: ids of live containers are never thrown away, a spent balance stops
  the tenant, a tick does not revive what was deleted before it; no second is charged
  twice; ticks are not refused for ever. Hard: the tick works on a selection that grows
  stale, on a clock that stops and starts share, under a lock that can be left behind.
- *Tasks*: the verdict matches the runs, tasks end, a run does not bar a delete
  for ever. Hard: instances change under a run, scripts have no time limit, a failure of
  the database leaves a run or a whole task as it is.
- *Accounts*: names and emails stay unique whatever registrations and seeding do; a
  superuser has no tenant and everybody else has one; a token works while its role is
  right; every tenant has a user. Hard: rows read before a slow hash and used after it,
  two registrations of one tenant, users who hold the superuser's name or email.
- *Networks*: unique names, disjoint CIDRs. Hard: checks before the commit.
- *Deployments*: what is shown as running is served; a delete releases what was
  built, at whatever point of the pipeline it comes; a deleted deployment never
  shows up as running again. Hard: every await of the pipeline.

`PROJECT.json` lists the hazards at their lines with the properties that cover
them. Where it names none, the code lets the thing happen and the note says so; the
properties next to it excuse exactly that, by name.

## Modules

| Module | What it models |
|---|---|
| `InstancePromise` | what the API tells a tenant about an instance, abstractly |
| `InstanceLifecycle` | rows, CREATE operation, provisioning task, request handlers, Docker daemon, restarts; implements `InstancePromise` |
| `InstanceBilling` | extends it with the billing tick and the auto-stop |
| `BillingClock` | when a tick runs and which seconds it charges: advisory lock, pool, slices |
| `TaskExecution` | extends it with tasks, runs and their pool, and the guard of delete |
| `Networks` | networks with check-then-commit requests |
| `DeploymentPromise` | what the API tells a tenant about a deployment, abstractly |
| `Deployments` | the pipeline, deletes, records, rows, nginx; implements `DeploymentPromise` |
| `Accounts` | users, tenants, tokens, roles and the seeded superuser |
| `InstanceLifecycle_proofs`, `InstanceSerial_proofs`, `InstanceBilling_proofs`, `TaskExecution_proofs`, `BillingClock_proofs`, `Networks_proofs`, `Accounts_proofs`, `Deployments_proofs` | theorems |
| `MC...` | constants, initial states and symmetry for TLC |

Definitions whose name ends in `Mut` are plausible bugs of the code; each one breaks
the property it is paired with in `PROJECT.json`. No specification uses them.

### Instances

A row is named by (tenant, name), because the unique index keeps a name for ever:
a name has at most one row, one CREATE operation, one provisioning task and one
container. `status`, `sshPort`, `createOp` are columns; `recorded` is the set of rows
with a `docker_container_id`, `deletedAt` of those with a `deleted_at`. `worker` and
`pc` say where the provisioning task and each request handler are. An action is the
code between two points at which another thread can be seen: a SELECT, a commit, a
Docker call. So create is three actions (checks, port, INSERT), delete is read, Docker,
commit, and so on. A handler that answers an error before it changed anything is a step
that is not taken. DELETE operations are left out: they are inserted and closed in the
transaction of the delete itself and nothing reads them.

`Docker` is modelled as used: create, start (refused when a running container holds the
host port), stop, restart, remove; a call may fail (`MaxFaults`), and a container may
die or be removed from outside. The database fails too, within the same bound: a request
then answers 500 and leaves what it had done to Docker (`RequestLost`); the provisioning
task has nothing around its first commit and its last one in the `except` path
(`compute_service.py:187`, `:261`), and is `lost` there with its operation open. A failure of
the commit that should say RUNNING (`:233`) goes through the `except` path: the
container is removed (`WorkerUnwind`), but the session takes no other commit after one that
failed, so the task is lost as well. A commit that fails is taken as not having happened.
`stop` then `remove(force)`, each failure swallowed, is
one step: no other part distinguishes the state in between, apart from one that looks
for a container and finds it stopped, which `ContainerGoes` also produces.

`Need` and `Limit` are naturals for each resource; a balance is a number of units.

`InstancePromise` keeps what a client sees: status, `deleted_at` and the CREATE operation.
A creation is accepted, begins, and ends once, in RUNNING or in ERROR; only an instance
whose creation succeeded is started and stopped afterwards; a delete may come at any time
and its `deleted_at` stays. A late commit may bring a deleted instance back: the code
does that, so the specification lets it.

### Billing

The tick selects once (`todo`), then visits instance by instance. `seen` and `expired`
follow the database session: a commit expires what it holds, and it writes only the
columns whose value differs from the one it holds. A slice costs 1. The lock and the clock
are left to `BillingClock`: here ticks do not overlap (one thread in one process) and a
tick is always due, which is an assumption of `BrokeTenantHalts` and
`LostContainerRepaired`. A tick charges nothing, and does not look at the balance, when the
slice has no whole second (`billing_service.py:140`). Whether it has is all that `age` keeps
of the clock: a slice begins where the last one ended, which is a tick ago (`billed`), or,
before the first, at `updated_at`, which the commits of requests move (`touched`), before
(`fresh`) or during the tick. So an instance that reboots around every tick and was
never charged goes on with a spent balance: `BrokeTenantHalts` leaves out the behaviours
in which that happens for ever, and no others. A failure of the database ends the tick, which
rolls back what it had not committed (`TickFails`); the loop comes round again.

### The billing clock

`now` counts seconds. `updatedAt` is `Instance.updated_at`, set by START (and the end of
provisioning), STOP and REBOOT; `slices` are the rows of `resource_usage_logs`;
`seen` is `updated_at` in the rows the tick's session has loaded, until a commit makes it
forget them; `ups` is history, the seconds a row was RUNNING through. `SliceStart` is
`_resolve_slice_window`: from the end of the last slice, or from `updated_at`, cut to the
interval. Price is left out.

The connections are those of SQLAlchemy's pool as `session.py` creates it: `idle` is its
FIFO queue, which keeps `PoolSize` of them and closes what comes back over that; `out`
are those of requests, `lease` the tick's. `holder` and `depth` are PostgreSQL's advisory
lock, which belongs to a connection and counts. Each commit of a tick gives the
connection back, and the next statement takes the head of the queue, so `TickUnlock` may
run on another connection than `TickBegin`: the server answers with a warning, and the
lock stays until that connection comes round as the first of a tick, which PostgreSQL then
grants again. A tick that a database error ends leaves its transaction broken, so its
unlock fails too (`TickFails`).

### Accounts

A row of `users` has a name, an email, a tenant (or none) and a role. `req` is where each
request is and what it has read: a query and the commit that rests on it are two steps,
the commit checks the unique indexes (`Unique`) and is answered 409 if it breaks one. A
registration of a new tenant inserts tenant and user in one transaction. A token is made
of the row as it was read. `Accepted` is `get_current_user`. `Start` is `init_db`, before
any request; `Candidates` are the names `_build_unique_username` tries. `conf` is the
email of the last start: settings may change between starts. A crash drops the requests,
not the tokens. `home` is history, the tenant a user registered with.

### Tasks

`runPc` follows `_execute_task_run`: begin (RUNNING is committed), check (the instance
is read again), exec, commit. A script may take for ever. A run the database fails under
is `lost`: the pool logs it, its row stays PENDING or RUNNING, and the tally counts it
neither as success nor as failure, so a task whose runs are all lost is a SUCCESS. Nothing
catches a failure under `_run_task` itself, before the runs are submitted or in the tally:
the task is `lost` too and stays PENDING or RUNNING (`TaskLost`). `create_task` is one step,
and an instance named twice gets one run.

### Networks

A request is two steps: its checks, and the commit, where only the unique index on
(tenant, name) is looked at again. An update writes the columns whose value it changed.
`raced` is a history variable: the tenants that ever had two requests in flight.

### Deployments

Coroutines are atomic between awaits, so an action is a stretch of the event loop or one
outside effect of a thread. `records` is `self._deployments`, `rows` the database. A
record keeps its status, whether what was built is recorded (`held`: container id, name,
port and image are always set and cleared together), whether the URL is (`url`), the
cancel flag and the status of each attempt. Every change of a record is written at once;
a write may fail, in whole or after its first transaction (`Stale`), and then only
memory has it. `CleanupFrom` is the copy of the record that the delete hands to its
cleanup thread. `ConfigTest` is nginx's own check: every server block's container must
resolve. The prompt, the model's answer and the writing of the Dockerfile are awaits that
end or raise. A cleanup swallows NotFound, and what Docker answers when an image cannot be
removed; a missing nginx it takes for a server block removed; any other error, a lost
connection included, ends it half way, and nothing takes it up again. So does an
`nginx -t` that fails on the container of a neighbour: then a cancelled pipeline rests at
"deleting", or at "retrying" if its last build had failed, which `CleanupCut` names.

## Runs

| Run | Instance | Shows |
|---|---|---|
| `instances` | 2 instances, 2 requests, 2 faults, 1 restart | the safety of rows and containers under any interleaving, and the refinement of `InstancePromise` |
| `instances_serial` | 3 instances, 3 ports, a plan for 2, 2 requests on different rows, 1 creation at a time, no faults | ports, plan and rows |
| `instance_quota` | 2 instances, a plan for 1, 1 request at a time | **violated**: a deleted instance comes back over the plan |
| `instance_billing` | 2 instances (one up, one being created), 1 request, tick, 1 fault or restart | the tick beside everything else |
| `billing_clock` | 1 instance, 3 connections, a pool of 2, an interval of 2 s, 6 s, 1 fault, 1 restart | which seconds are charged, and that the lock is held and comes back |
| `tasks` | 1 task on up to 2 instances, a pool of 1, 1 request, 1 fault, 1 restart | verdicts, termination, deletes, and that CREATE ends |
| `deployments` | 1 pipeline beside a neighbour that is up, 2 deletes, 2 attempts, 1 fault, lost write or restart | failures around a pipeline, and what its neighbour does to it |
| `deployments_pair` | 2 deployments, 2 deletes, 1 attempt, 1 restart | interleavings over one nginx, and the refinement |
| `delete_removes` | 1 deployment, 1 delete, nothing fails | **violated**: a container, or a server block, outlives its delete |
| `networks` | 2 tenants, 2 requests, 3 rows, 3 nested CIDRs | names and CIDRs |
| `networks_race` | 1 tenant, 2 requests | **violated**: two creates race |
| `accounts` | 3 users, 3 names and emails, 2 tenants, 2 requests, 3 starts | keys, roles and tokens under races and seeding |

Why the bounds are enough. Each race here is between two actors on one row (or one nginx),
with one failure at the wrong moment (two where Docker and the database must both fail, as
for a container that a lost provisioning task leaves behind): two requests, one worker and
one tick on two instances contain them all. Three instances let a third creation meet the
plan and the ports that two others hold, after a delete. Two attempts contain a retry, and
the limit. Two deployments contain a neighbour in nginx. `instance_billing` and `tasks`
start with one instance up, a state `InstanceLifecycle` reaches, to spare the states of its
creation (and `instance_billing` with the second one accepted); `deployments` starts with
the neighbour up, as its pipeline leaves it. `instance_billing` and `deployments` let one
thing fail at all (`OneFailure`): a call, a write or the process; two failures of the rows the tick works
on are in `instances`, two pipelines at once in `deployments_pair`. In `billing_clock`
slices of different instances meet only in the order of a tick's visits, which
`BillingClock_proofs` covers for any number of them; three connections are one more than the
pool keeps, so that one is closed on its way back; six seconds are three intervals, enough
for a slice after a slice, a stop and a start between two, and a lock left behind to come
round. In `accounts` a third user can hold a name between those of a registration and of the
superuser, and the third start comes after a change of settings and back. Runs stop
(CHECK_DEADLOCK FALSE) where no more names, deployments or ids are left and all work is
over, or the clock has reached its bound.

Fairness. Threads and coroutines are scheduled and calls of Docker, the database and nginx
return: weak fairness of each worker's steps. There is none for users, faults, restarts or
for what happens outside of the API. A script need not end: its step is fair only once its
container does not run, and `TaskSettles` names the assumption it needs. The billing loop
runs for ever and catches what a tick raises. Faults are bounded, so liveness is about
systems whose failures come to an end: a database or a stats call that fails at every tick
stops no tenant.

The three violations are disagreements between the code and what the repository says of
it; `PROJECT.json` quotes the lines:

1. *A deleted instance comes back* (`compute_service.py:223`). Delete an instance while it
   is PROVISIONING; the task's last commit makes the TERMINATED row RUNNING again, with a
   plan and a port that may have been given away. What does hold is `SettledStaysDeleted`
   and `QuotaWhileNeverDeleted`.
2. *A delete forgets what it should remove*. The trace TLC prints: the container of a
   deployment that never answered on a port is not in its record, so DELETE skips it and
   reports success (`deployment_service.py:1844`; `:447`, `:1654`, `:1671`). The property
   fails another way as well: a DELETE that is done while the pipeline is in
   `_configure_public_access` (`:1810`) leaves the server block the pipeline writes after
   it, since `nginx -t` then fails on the removed container and the exception goes to the
   handler that records "failed" (`:533`, `:580`); the file then fails nginx's test for
   every other deployment. What does hold is `DeletedLeavesNothing`, which leaves
   deployments with a non-build error aside.
3. *Overlapping networks* (`network_service.py:66`).

## Proofs

`InstanceLifecycle_proofs` proves for any sets and bounds, and any interleaving:
`TypeCorrect`, `NoSilentOrphan`, `FailureIsFinal`, `RunningHasContainer`,
`DeleteStays`, `RowsImplementPromise` and `CreationsEnd`. The invariants are not
inductive by themselves; the inductive invariant `IInv` adds what ties the rows to the workers: which `worker` states go with which
`createOp`, that a row is RUNNING or STOPPED, and has a container id, only after the
commit that ends a successful task, that a container without an id belongs to a task that
is at work, failed, was killed, or was lost after two failures, and that a handler past its read works on a row whose
creation succeeded. It is as weak as the other writers of these rows need: it lets a
row whose creation succeeded lose its id if the container is gone. `Recorded` adds, where
there is no billing tick, that a RUNNING or STOPPED row has an id. `IInv` is also what the
refinement needs (`PromiseStep`): a task's last commit finds its operation RUNNING, and a
START or STOP that commits has read a row whose creation succeeded, which cannot be undone.

`InstanceSerial_proofs` is about what races do break. Each theorem names the race it
excludes, as a condition on the behaviour and not on the constants, and lets everything
else interleave: `PortsUnique` that no two creations overlap (`OneCreation`), `PlanIsKept`
that no two creations of one tenant do (`OneCreationPerTenant`), `RowsTellTruth` that no
two requests work on one row (`OneRequestPerRow`), and it speaks of the states before the
first fault and restart (`Calm`). The strengthening of the first says that a port
chosen and not yet inserted is still free; of the second (`PlanInv`) that the rows of a
tenant and the creation of it that has passed its check fit the plan together; of the third
what each place of a request or a worker knows of the container. `PlanIsKept` needs
sums over sets of instances: they exist, two on one set agree, and that of a subset is not
larger. `MapThenSumSet` is a recursive function of sets, so each of these is proved by
looking at a smallest set for which it fails (`MinimalSet`). All three conditions are
necessary: without them two creates get one port or exceed the plan, and a reboot leaves a
STOPPED row with a running container.

`InstanceBilling_proofs` shows what a step of the tick may do to a row (`TickWrites`): it
stops rows whose creation succeeded, and clears an id only if the container is gone. So
`IInv` survives, and with it `SystemTypeCorrect`, `BillingKeepsInstances`, `NeverForgets`
and `BillingKeepsDeletes`; the last one also follows a row through the tick's selection
(`TakenOnce`). A tick adds no row and brings none back (`TickAddsNothing`), so
`BillingKeepsPorts` and `BillingKeepsPlan` follow, and what it does to rows is stopping some
of them at once, which is a step of `InstancePromise` (`BillingKeepsPromise`).
`RowsMatchDocker` has no such theorem: the tick races with a request on the same row, so a
row the auto-stop writes STOPPED may have a container that a START has just brought up.

`TaskExecution_proofs` shows that a step of a task is a step of `InstanceLifecycle`,
leaves its variables alone, or counts a fault of the database, so that every theorem about instances
carries over: `TasksKeepInstances`, `TasksKeepDeletes`, `TasksKeepPorts`, `TasksKeepPlan`,
`TasksKeepTruth` and `TasksKeepPromise`. `TaskTypeCorrect` and `VerdictIsTrue` rest on
`RunPhase`, how far a run's row, its thread and its task are, and on counting the runs at work.

`Networks_proofs` proves `TypeCorrect`, `NamesAreUnique` and `SerialCidrsDisjoint`. The
key step is `CheckStands`: the answer of a CIDR check is still right when its request
commits, as long as its tenant has never had two requests in flight.

`BillingClock_proofs` proves `TypeCorrect`, `TickHoldsLock`, `ChargedOnce`,
`FirstSliceTrue` and `RefusalsAreFew`. A slice must end at or before the `now` of the tick
under way and a tick's own instances must not have been charged by it yet; `updatedAt` and
what the session has `seen` of it must not be later than the clock, and an instance that
is up must have been up from `updatedAt` on. Then the next slice starts where the last one
ended or an interval before `tickNow`, whatever users do to the row in between. For the
lock, the connection that holds it must be open. `Rotation` says where in the queue it is
when it was left behind: each refused tick takes the head and gives it back behind, so the
connection with the lock is one place nearer to the head.

`Accounts_proofs` proves every property of the run. The key is `Grows`: rows stay, and
while requests are under way (`up`) a user's tenant and its being a superuser do not change,
because only seeding does that and it comes before the first request. So `Fits` of what a
request has read survives until its commit or its token; `home` ties a token to its row's
tenant for ever after. `RestartChangesNothing` rests on `Seated`: the superuser of the last
start still has the first candidate nobody else has, because rows keep their keys and new
ones get others.

`Deployments_proofs` proves the types, `KeepsPromise` and the three safety properties.
`BookInv` relates a pipeline to its record: one at work has its record in memory and
`Fits` says which statuses go with the place it is at; the delete flag, once set, stays in
memory; memory and database differ only by a write that was lost or by a restart. So each
write to the database is a step `DeploymentPromise` allows. `HostInv` says to whom every
container, image and server block belong: to the worker on its way to it, to the record,
or to a failure the record's error or the fault counts name. `Advances` lists what a
pipeline may do to its record and the host; both invariants and the refinement use it, and
lemma `Aside` carries what a step of one deployment leaves alone in the others.

Assumptions are those of the modules (`InstanceAssumption`, `BillingAssumption`,
`TaskAssumption`, `ClockAssumption`, `AccountsAssumption`, `NoUserAssumption`,
`NetworkAssumption`, `RowAssumption`, `DeploymentAssumption`, `RecordAssumption`).
No theorem bounds a constant further. Some are about behaviours of a kind, which the
theorem states: the three above; `KeepsItsPromise`, that no restart follows a database write
that was lost (`[][Crash => lost = 0]_vars`): memory tells the truth until then;
and the liveness theorems, below. The runs of billing and of tasks start with an instance
up; their theorems are about `SystemSpec` and `AllSpec`, which start with none.

Liveness. Where the way to the end has a fixed number of stages, it is proved as far as
TLAPS goes: it does not know ENABLED, so that a thread with a step left can take it is a
hypothesis (`TasksCanStep`, `ProvisionCanStep`, `RunsCanStep`). It holds in every reachable
state: each of these steps asks for nothing but its place in the handler and changes it.
From it and weak fairness follow `CreationsEnd` (queued, create, start, commit or
cleanup and fail, with `lost` as a way out where the database may fail), beside billing and beside tasks as well (`BillingKeepsCreations`,
`TasksKeepCreations`), and `DeletesUnbarred` (check, exec, commit of a run).

Only model-checked: the liveness that needs an induction on the work left, as on the
instances a tick has still to visit, or a choice among threads that may do it
(`BrokeTenantHalts`, `LostContainerRepaired`, `TaskSettles`, `PipelineSettles`,
`DeleteReleases`).

## Plan

Done: instances with their abstract specification, the billing tick and its clock, tasks,
networks, accounts, and deployments with theirs; proofs of every invariant and action
property that a passing run checks, of both refinements, and of what instances keep under
billing and under tasks.

Left: billing and tasks in one system, where a halt stops containers under scripts; several
tasks at once in TLC; an abstract specification of tasks.

## Not modelled

- Scripts, catalog, dashboard, admin reports: single-row writes and reads with no order to
  get wrong (script names are checked like network names).
- The analysis of repositories and the making of prompts (`deployment_service.py:994`
  on): functions of files, with no shared state; to a pipeline they are an await that ends
  or raises.
- `reset_ssh_password`: it changes nothing another part reads.
- In accounts: passwords and their hashes, signatures and the expiry of tokens, `is_active`
  (no code clears it), and the demo reset, which empties the database from outside.
- The price of a second, and what a container's statistics say: arithmetic on floats.
- Seeding of the catalog, configuration, schemas, error handlers, workflows and images:
  they run before the system or around it.
