--------------------------- MODULE InstanceBilling ---------------------------
(***************************************************************************)
(* The realtime billing tick (BillingService._bill_running_instances) over *)
(* the rows of InstanceLifecycle.  The scheduler's thread selects the      *)
(* RUNNING instances once, then visits them one by one with Docker calls   *)
(* and a commit for each; requests and provisioning go on meanwhile, and   *)
(* the tick does not look at a row's status again.                         *)
(*                                                                         *)
(* The advisory lock around a tick and the price of a slice are left out:  *)
(* here ticks do not overlap and one is always due, and a slice costs 1.   *)
(* Of the seconds a slice spans, `age` keeps whether there is one at all:  *)
(* a row with no slice yet is charged from its updated_at on.              *)
(***************************************************************************)
EXTENDS InstanceLifecycle

CONSTANT MaxDebt    \* bound: a balance stays at -MaxDebt once it is there

ASSUME BillingAssumption == MaxDebt \in Nat

VARIABLES
    biller,     \* where the tick is
    todo,       \* running_instances still to visit
    current,    \* the instance being visited
    seen,       \* the status the session holds for it
    expired,    \* a commit of the tick has expired what the session holds
    broke,      \* stopped_tenants
    halting,    \* the rows _stop_tenant_instances has selected
    unstopped,  \* those of them whose container it has not come to yet
    age         \* what a slice of an instance would begin with

tickVars == <<biller, todo, current, seen, expired, broke, halting, unstopped>>
billVars == <<tickVars, age>>
systemVars == <<vars, billVars>>

Billers == {"idle", "visit", "stats", "halt"}

\* A slice begins where the last one ended; the first one, with an updated_at of
\* since the last tick began, of up to a tick before that, or older.
Ages == {"touched", "fresh", "old", "billed"}

SystemInit ==
    /\ Init
    /\ biller = "idle"
    /\ todo = {}
    /\ current = NoInstance
    /\ seen = "absent"
    /\ expired = FALSE
    /\ broke = {}
    /\ halting = {}
    /\ unstopped = {}
    /\ age = [i \in Instance |-> "old"]

-----------------------------------------------------------------------------
(* The slice.                                                              *)

\* The commits that write updated_at while a tick may come to the row: it does
\* not before the row is RUNNING.
Touches(i) ==
    \/ \E r \in Request :
           /\ target[r] = i
           /\ \/ DeleteCommit(r) \/ StartCommit(r) \/ StopCommit(r)
              \/ RebootDocker(r) /\ docker'[i] = "running" /\ UNCHANGED faults
    \/ WorkerCommit(i)

\* A step that is not of the tick.
BesideTick ==
    /\ age' = [i \in Instance |->
                  IF age[i] # "billed" /\ Touches(i) THEN "touched" ELSE age[i]]
    /\ UNCHANGED tickVars

\* A tick begins: what was written before the last one is old, and so is the
\* updated_at of a row the tick does not take, which is written again before
\* the row is RUNNING.
Aged == [i \in Instance |-> CASE age[i] = "billed" -> "billed"
                              [] age[i] = "touched" /\ status[i] = "RUNNING" -> "fresh"
                              [] OTHER -> "old"]

\* _resolve_slice_window finds no whole second between an updated_at close to
\* the tick's `now`, or after it, and that `now`.
MayBeShort(i) == age[i] \in {"touched", "fresh"}

-----------------------------------------------------------------------------
(* The tick.                                                               *)

Leave == /\ biller' = "visit"
         /\ current' = NoInstance
         /\ seen' = "absent"

\* Mutant: the tick takes every instance there is a row of.
TickSelectMut ==
    LET rows == {i \in Instance : status[i] # "absent"} IN
    /\ biller = "idle"
    /\ rows # {}
    /\ biller' = "visit"
    /\ todo' = rows
    /\ expired' = FALSE
    /\ age' = Aged
    /\ UNCHANGED <<vars, current, seen, broke, halting, unstopped>>

TickSelect ==
    LET running == {i \in Instance : status[i] = "RUNNING"} IN
    /\ biller = "idle"
    /\ running # {}
    /\ biller' = "visit"
    /\ todo' = running
    /\ expired' = FALSE
    /\ age' = Aged
    /\ UNCHANGED <<vars, current, seen, broke, halting, unstopped>>

TickEnd ==
    /\ biller = "visit"
    /\ todo = {}
    /\ biller' = "idle"
    /\ broke' = {}
    /\ expired' = FALSE
    /\ UNCHANGED <<vars, todo, current, seen, halting, unstopped, age>>

\* Mutant: the container id is cleared, the status is not.
MarkStoppedMut(i, held) ==
    /\ recorded' = recorded \ {i}
    /\ expired' = TRUE
    /\ UNCHANGED <<status, deletedAt, sshPort, createOp>>

\* _mark_instance_stopped and the commit after it.  The session writes the
\* columns whose value differs from the one it holds.
MarkStopped(i, held) ==
    /\ status' = [status EXCEPT ![i] = IF held = "STOPPED" THEN @ ELSE "STOPPED"]
    /\ recorded' = recorded \ {i}
    /\ expired' = TRUE
    /\ UNCHANGED <<deletedAt, sshPort, createOp>>

\* The next instance: skipped when its tenant was stopped in this tick,
\* stopped when it has no container id, asked for its stats otherwise.
TickVisit(i) ==
    LET held == IF expired THEN status[i] ELSE "RUNNING" IN
    /\ biller = "visit"
    /\ i \in todo
    /\ todo' = todo \ {i}
    /\ \/ /\ Owner[i] \in broke
          /\ UNCHANGED <<rowVars, biller, current, seen, expired>>
       \/ /\ Owner[i] \notin broke
          /\ i \notin recorded
          /\ MarkStopped(i, held)
          /\ UNCHANGED <<biller, current, seen>>
       \/ /\ Owner[i] \notin broke
          /\ i \in recorded
          /\ biller' = "stats"
          /\ current' = i
          /\ seen' = held
          /\ UNCHANGED <<rowVars, expired>>
    /\ UNCHANGED <<worker, reqVars, docker, balance, envVars, broke, halting, unstopped, age>>

\* The stats call raises, or the slice is shorter than a second: next one.
TickSkip ==
    /\ biller = "stats"
    /\ \/ Fault
       \/ Exists(current) /\ MayBeShort(current) /\ UNCHANGED faults
    /\ Leave
    /\ UNCHANGED <<rowVars, worker, reqVars, docker, balance, crashes,
                   todo, expired, broke, halting, unstopped, age>>

\* Mutant: a stats call that raises is taken for a container that is gone.
TickGoneMut ==
    /\ biller = "stats"
    /\ MarkStopped(current, seen)
    /\ Leave
    /\ UNCHANGED <<worker, reqVars, docker, balance, envVars, todo, broke, halting, unstopped,
                   age>>

\* Docker does not know the container.
TickGone ==
    /\ biller = "stats"
    /\ ~Exists(current)
    /\ MarkStopped(current, seen)
    /\ Leave
    /\ UNCHANGED <<worker, reqVars, docker, balance, envVars, todo, broke, halting, unstopped,
                   age>>

\* Mutant: a balance of 0 is not spent yet.
SpentMut(credits) == credits < 0

Spent(credits) == credits <= 0

\* The slice is charged, whatever the row's status has become; a balance that
\* is spent sends the tick into _stop_tenant_instances.
TickCharge ==
    LET t == Owner[current]
        left == IF balance[t] > -MaxDebt THEN balance[t] - 1 ELSE balance[t]
    IN
    /\ biller = "stats"
    /\ Exists(current)
    /\ balance' = [balance EXCEPT ![t] = left]
    /\ age' = [age EXCEPT ![current] = "billed"]
    /\ expired' = TRUE
    /\ IF Spent(left)
       THEN /\ biller' = "halt"
            /\ halting' = {i \in Instance : Owner[i] = t /\ status[i] = "RUNNING"}
            /\ unstopped' = halting' \cap recorded
            /\ UNCHANGED <<current, seen>>
       ELSE Leave /\ UNCHANGED <<halting, unstopped>>
    /\ UNCHANGED <<rowVars, worker, reqVars, docker, envVars, todo, broke>>

\* One provider.stop_instance; its failure is swallowed.
HaltContainer(i) ==
    /\ biller = "halt"
    /\ i \in unstopped
    /\ unstopped' = unstopped \ {i}
    /\ \/ /\ SetDocker(i, IF docker[i] = "running" THEN "exited" ELSE docker[i])
          /\ UNCHANGED faults
       \/ /\ docker[i] = "running"
          /\ Fault
          /\ UNCHANGED docker
    /\ UNCHANGED <<rowVars, worker, reqVars, balance, crashes,
                   biller, todo, current, seen, expired, broke, halting, age>>

\* Mutant: the rows are written while containers are still to be stopped.
HaltCommitMut ==
    /\ biller = "halt"
    /\ status' = [i \in Instance |-> IF i \in halting THEN "STOPPED" ELSE status[i]]
    /\ broke' = broke \cup {Owner[current]}
    /\ halting' = {}
    /\ expired' = TRUE
    /\ Leave
    /\ UNCHANGED <<recorded, deletedAt, sshPort, createOp, worker, reqVars, docker,
                   balance, envVars, todo, unstopped, age>>

\* Every selected row becomes STOPPED, whatever it has become meanwhile.
HaltCommit ==
    /\ biller = "halt"
    /\ unstopped = {}
    /\ status' = [i \in Instance |-> IF i \in halting THEN "STOPPED" ELSE status[i]]
    /\ broke' = broke \cup {Owner[current]}
    /\ halting' = {}
    /\ expired' = TRUE
    /\ Leave
    /\ UNCHANGED <<recorded, deletedAt, sshPort, createOp, worker, reqVars, docker,
                   balance, envVars, todo, unstopped, age>>

\* The tick is gone; what its transaction had not committed is rolled back.
TickGivesUp ==
    /\ biller' = "idle"
    /\ todo' = {}
    /\ current' = NoInstance
    /\ seen' = "absent"
    /\ expired' = FALSE
    /\ broke' = {}
    /\ halting' = {}
    /\ unstopped' = {}
    /\ UNCHANGED age

\* The database fails under the tick, or there is no Docker to ask: the
\* scheduler logs it and waits for the next one.
TickFails ==
    /\ biller # "idle"
    /\ Fault
    /\ TickGivesUp
    /\ UNCHANGED <<rowVars, worker, reqVars, docker, balance, crashes>>

BillerStep ==
    \/ TickSelect
    \/ TickEnd
    \/ \E i \in Instance : TickVisit(i)
    \/ TickSkip
    \/ TickGone
    \/ TickCharge
    \/ \E i \in Instance : HaltContainer(i)
    \/ HaltCommit
    \/ TickFails

\* The billing thread goes down with the process.
SystemCrash == Crash /\ TickGivesUp

SystemNext ==
    \/ Operate /\ BesideTick
    \/ BillerStep
    \/ SystemCrash

\* The scheduler's loop runs for ever and catches what a tick raises.
RequestGoesOn(r) == WF_systemVars(RequestStep(r) /\ BesideTick)
WorkerGoesOn(i)  == WF_systemVars(WorkerStep(i) /\ BesideTick)
BillerGoesOn     == WF_systemVars(BillerStep)
SystemFairness ==
    /\ \A r \in Request : RequestGoesOn(r)
    /\ \A i \in Instance : WorkerGoesOn(i)
    /\ BillerGoesOn

SystemSpec == SystemInit /\ [][SystemNext]_systemVars /\ SystemFairness

-----------------------------------------------------------------------------
TickTypes ==
    /\ biller \in Billers
    /\ todo \subseteq Instance
    /\ current \in Instance \cup {NoInstance}
    /\ biller \in {"stats", "halt"} => current \in Instance
    /\ seen \in Statuses
    /\ expired \in BOOLEAN
    /\ broke \subseteq Tenant
    /\ halting \subseteq Instance
    /\ unstopped \subseteq halting
    /\ halting # {} => biller = "halt"
    /\ age \in [Instance -> Ages]

SystemTypeOK == TypeOK /\ TickTypes

\* The tick holds i: it has selected the row and may still write its status.
Held(i) == i \in todo \cup halting \cup {current}

\* A delete is final once every operation it overlapped is over, the tick that
\* had selected the row included.
DeleteIsFinal ==
    [][\A i \in Instance :
          Settled(i) /\ ~Held(i) => /\ Settled(i)' /\ ~Held(i)'
                                    /\ docker'[i] = "running" => docker[i] = "running"]_systemVars

\* Billing clears a row's container id only when Docker has lost the
\* container, so the id of a container that exists is never thrown away.
OnlyGoneIsForgotten ==
    [][\A i \in recorded : i \notin recorded' => ~Exists(i)]_systemVars

\* A spent balance stops the tenant: whatever users start or stop meanwhile, an
\* instance RUNNING on a balance of 0 or less is seen not RUNNING again, once
\* failures of Docker and of the database have come to an end.  Excused
\* is one that was never charged and whose updated_at is written around the ticks
\* for ever, by reboots: the tick finds no second to charge and looks no further.
BrokeTenantHalts ==
    \A i \in Instance :
        <>[]~MayBeShort(i) =>
            (balance[Owner[i]] <= 0 /\ status[i] = "RUNNING" ~> status[i] # "RUNNING")

\* A row a race has left RUNNING without a container id is repaired.
LostContainerRepaired ==
    \A i \in Instance :
        status[i] = "RUNNING" /\ i \notin recorded ~> status[i] # "RUNNING"
=============================================================================
