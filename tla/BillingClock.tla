---------------------------- MODULE BillingClock ----------------------------
(***************************************************************************)
(* The clock of the billing tick: when a tick runs, and which seconds it   *)
(* charges (BillingScheduler, BillingService.run_realtime_billing and      *)
(* _resolve_slice_window).                                                 *)
(*                                                                         *)
(* A tick takes an advisory lock of PostgreSQL, which belongs to the       *)
(* connection that asked for it and counts.  The tick's session gives its  *)
(* connection back at every commit and takes one again for the next        *)
(* statement, from the FIFO pool it shares with the requests.              *)
(*                                                                         *)
(* One unit of time is a second.  What a tick does to rows and containers  *)
(* besides charging, and what a second costs, is in InstanceBilling.       *)
(***************************************************************************)
EXTENDS Integers, Sequences

CONSTANTS
    Instance,
    Conn,           \* a bound: connections that may be open at once
    NoConn,
    PoolSize,       \* the connections the pool keeps when nobody uses them
    Interval,       \* BillingScheduler.interval_sec
    MaxTime,        \* bound: the clock stops here
    MaxFaults,      \* bound: ticks that a database error ends
    MaxCrashes      \* bound: restarts of the API process

ASSUME ClockAssumption ==
    /\ NoConn \notin Conn
    /\ PoolSize \in Nat \ {0}
    /\ Interval \in Nat \ {0}
    /\ MaxTime \in Nat
    /\ MaxFaults \in Nat
    /\ MaxCrashes \in Nat

VARIABLES
    now,
    up,             \* the instances whose row says RUNNING
    updatedAt,      \* Instance.updated_at
    ups,            \* history: the seconds an instance was RUNNING through
    slices,         \* resource_usage_logs: the slices charged for an instance
    biller,         \* where the scheduler's thread is
    wake,           \* when its wait is over
    tickNow,        \* `now` in _bill_running_instances
    todo,           \* running_instances still to visit
    seen,           \* updated_at in the rows the session has loaded
    lease,          \* the connection the tick's session has
    idle,           \* the pool's queue
    out,            \* the connections that requests have
    holder,         \* the connection that has the advisory lock
    depth,          \* how many times it has it
    dropped,        \* history: the lock went with its connection in this tick
    skips,          \* history: ticks refused since a request used the pool
    faults,
    crashes

rowVars  == <<up, updatedAt, ups>>
tickVars == <<biller, wake, tickNow, todo, seen>>
lockVars == <<holder, depth, dropped>>
poolVars == <<idle, out, lockVars>>
boundVars == <<faults, crashes>>
vars == <<now, rowVars, slices, tickVars, lease, poolVars, skips, boundVars>>

NoRows == [i \in {} |-> 0]

Billers == {"asleep", "refused", "begin", "select", "visit", "unlock", "close"}

Init ==
    /\ now = 0
    /\ up = {}
    /\ updatedAt = [i \in Instance |-> 0]
    /\ ups = [i \in Instance |-> {}]
    /\ slices = [i \in Instance |-> {}]
    /\ biller = "asleep"
    /\ wake = Interval
    /\ tickNow = 0
    /\ todo = {}
    /\ seen = NoRows
    /\ lease = NoConn
    /\ idle = <<>>
    /\ out = {}
    /\ holder = NoConn
    /\ depth = 0
    /\ dropped = FALSE
    /\ skips = 0
    /\ faults = 0
    /\ crashes = 0

Pooled == {idle[k] : k \in DOMAIN idle}
Open == Pooled \cup out \cup {lease}

-----------------------------------------------------------------------------
(* The pool.                                                               *)

\* The first connection of the queue, a new one when the queue is empty.
Checkout(c) ==
    \/ /\ idle # <<>>
       /\ c = Head(idle)
       /\ idle' = Tail(idle)
    \/ /\ idle = <<>>
       /\ c \notin Open
       /\ UNCHANGED idle

\* The session of c loses it: its lock, if it has it, is gone.
Drop(c) ==
    /\ holder' = IF holder = c THEN NoConn ELSE holder
    /\ depth' = IF holder = c THEN 0 ELSE depth
    /\ dropped' = (dropped \/ holder = c)
    /\ UNCHANGED idle

\* Mutant: the connection that was used last is used first.
GiveBackMut(c) ==
    IF Len(idle) < PoolSize
    THEN idle' = <<c>> \o idle /\ UNCHANGED lockVars
    ELSE Drop(c)

\* A connection comes back; the pool closes it when it has enough of them.
GiveBack(c) ==
    IF Len(idle) < PoolSize
    THEN idle' = Append(idle, c) /\ UNCHANGED lockVars
    ELSE Drop(c)

\* Requests and their sessions.
Borrow(c) ==
    /\ Checkout(c)
    /\ out' = out \cup {c}
    /\ skips' = 0
    /\ UNCHANGED <<now, rowVars, slices, tickVars, lease, lockVars, boundVars>>

Return(c) ==
    /\ c \in out
    /\ GiveBack(c)
    /\ out' = out \ {c}
    /\ skips' = 0
    /\ UNCHANGED <<now, rowVars, slices, tickVars, lease, boundVars>>

-----------------------------------------------------------------------------
(* The rows: START or the end of provisioning, STOP, REBOOT.               *)

SetRow(i) == updatedAt' = [updatedAt EXCEPT ![i] = now]

\* Mutant: START does not touch updated_at.
StartMut(i) ==
    /\ i \notin up
    /\ up' = up \cup {i}
    /\ UNCHANGED <<updatedAt, now, ups, slices, tickVars, lease, poolVars, skips, boundVars>>

Start(i) ==
    /\ i \notin up
    /\ up' = up \cup {i}
    /\ SetRow(i)
    /\ UNCHANGED <<now, ups, slices, tickVars, lease, poolVars, skips, boundVars>>

Stop(i) ==
    /\ i \in up
    /\ up' = up \ {i}
    /\ SetRow(i)
    /\ UNCHANGED <<now, ups, slices, tickVars, lease, poolVars, skips, boundVars>>

Reboot(i) ==
    /\ i \in up
    /\ SetRow(i)
    /\ UNCHANGED <<now, up, ups, slices, tickVars, lease, poolVars, skips, boundVars>>

Pass ==
    /\ now < MaxTime
    /\ now' = now + 1
    /\ ups' = [i \in Instance |-> IF i \in up THEN ups[i] \cup {now} ELSE ups[i]]
    /\ UNCHANGED <<up, updatedAt, slices, tickVars, lease, poolVars, skips, boundVars>>

-----------------------------------------------------------------------------
(* The tick.                                                               *)

\* The wait begins when the tick is over, however long it took.
Sleep ==
    /\ biller' = "asleep"
    /\ wake' = now + Interval
    /\ todo' = {}
    /\ seen' = NoRows
    /\ UNCHANGED tickNow

\* _try_acquire_lock: the server grants the lock to the connection that has it.
TickBegin(c) ==
    /\ biller = "asleep"
    /\ now >= wake
    /\ Checkout(c)
    /\ lease' = c
    /\ dropped' = FALSE
    /\ IF holder \in {NoConn, c}
       THEN /\ holder' = c
            /\ depth' = depth + 1
            /\ biller' = "begin"
            /\ skips' = 0
       ELSE /\ biller' = "refused"
            /\ skips' = skips + 1
            /\ UNCHANGED <<holder, depth>>
    /\ UNCHANGED <<now, rowVars, slices, wake, tickNow, todo, seen, out, boundVars>>

\* Not this time: the session is closed and the thread waits again.
TickRefused ==
    /\ biller = "refused"
    /\ GiveBack(lease)
    /\ lease' = NoConn
    /\ Sleep
    /\ UNCHANGED <<now, rowVars, slices, out, skips, boundVars>>

TickNow ==
    /\ biller = "begin"
    /\ biller' = "select"
    /\ tickNow' = now
    /\ UNCHANGED <<now, rowVars, slices, wake, todo, seen, lease, poolVars, skips, boundVars>>

TickSelect ==
    /\ biller = "select"
    /\ todo' = up
    /\ seen' = [i \in up |-> updatedAt[i]]
    /\ biller' = IF up = {} THEN "unlock" ELSE "visit"
    /\ UNCHANGED <<now, rowVars, slices, wake, tickNow, lease, poolVars, skips, boundVars>>

\* The first statement after a commit takes a connection again.
TickCheckout(c) ==
    /\ biller \in {"visit", "unlock"}
    /\ lease = NoConn
    /\ Checkout(c)
    /\ lease' = c
    /\ UNCHANGED <<now, rowVars, slices, tickVars, out, lockVars, skips, boundVars>>

Ends(i) == {s.to : s \in slices[i]}

Latest(T) == CHOOSE t \in T : \A u \in T : u <= t

\* A row is as the select read it until a commit, which makes the session
\* forget its rows, and is then read again.
Loaded(i) == IF i \in DOMAIN seen THEN seen[i] ELSE updatedAt[i]

\* Mutant: the window goes by updated_at whatever has been charged.
SliceStartMut(i) ==
    LET from == Loaded(i) IN
    IF tickNow - from > Interval THEN tickNow - Interval ELSE from

\* _resolve_slice_window: from the end of the last slice, or from the last
\* change of a row that has none, cut to the interval.
SliceStart(i) ==
    LET from == IF Ends(i) # {} THEN Latest(Ends(i)) ELSE Loaded(i) IN
    IF tickNow - from > Interval THEN tickNow - Interval ELSE from

Visited(i) ==
    /\ todo' = todo \ {i}
    /\ biller' = IF todo' = {} THEN "unlock" ELSE "visit"

\* A slice of less than a second is left for the next tick.
TickSkip(i) ==
    /\ biller = "visit"
    /\ lease # NoConn
    /\ i \in todo
    /\ SliceStart(i) >= tickNow
    /\ Visited(i)
    /\ UNCHANGED <<now, rowVars, slices, wake, tickNow, seen, lease, poolVars, skips, boundVars>>

\* Mutant: the lock is one of the transaction and goes with its commit.
TickChargeMut(i) ==
    /\ biller = "visit"
    /\ lease # NoConn
    /\ i \in todo
    /\ SliceStart(i) < tickNow
    /\ slices' = [slices EXCEPT ![i] = @ \cup {[from |-> SliceStart(i), to |-> tickNow]}]
    /\ Visited(i)
    /\ seen' = NoRows
    /\ idle' = IF Len(idle) < PoolSize THEN Append(idle, lease) ELSE idle
    /\ holder' = NoConn
    /\ depth' = 0
    /\ lease' = NoConn
    /\ UNCHANGED <<now, rowVars, wake, tickNow, out, dropped, skips, boundVars>>

\* The slice is charged and the commit gives the connection back.
TickCharge(i) ==
    /\ biller = "visit"
    /\ lease # NoConn
    /\ i \in todo
    /\ SliceStart(i) < tickNow
    /\ slices' = [slices EXCEPT ![i] = @ \cup {[from |-> SliceStart(i), to |-> tickNow]}]
    /\ Visited(i)
    /\ seen' = NoRows
    /\ GiveBack(lease)
    /\ lease' = NoConn
    /\ UNCHANGED <<now, rowVars, wake, tickNow, out, skips, boundVars>>

\* Mutant: whatever connection asks, one hold of the lock is let go.
UnlockMut(c) ==
    /\ depth' = depth - 1
    /\ holder' = IF depth = 1 THEN NoConn ELSE holder
    /\ UNCHANGED <<idle, dropped>>

\* _release_lock: a connection that has no lock gets a warning.
Unlock(c) ==
    /\ depth' = IF holder = c THEN depth - 1 ELSE depth
    /\ holder' = IF holder = c /\ depth = 1 THEN NoConn ELSE holder
    /\ UNCHANGED <<idle, dropped>>

TickUnlock ==
    /\ biller = "unlock"
    /\ lease # NoConn
    /\ Unlock(lease)
    /\ biller' = "close"
    /\ UNCHANGED <<now, rowVars, slices, wake, tickNow, todo, seen, lease, out, skips, boundVars>>

TickClose ==
    /\ biller = "close"
    /\ GiveBack(lease)
    /\ lease' = NoConn
    /\ Sleep
    /\ UNCHANGED <<now, rowVars, slices, out, skips, boundVars>>

\* A statement of the tick fails: so does the unlock, in the same broken
\* transaction, and the lock stays unless the connection is lost.
TickFails ==
    /\ biller \in {"select", "visit"}
    /\ lease # NoConn
    /\ faults < MaxFaults
    /\ faults' = faults + 1
    /\ GiveBack(lease) \/ Drop(lease)
    /\ lease' = NoConn
    /\ Sleep
    /\ UNCHANGED <<now, rowVars, slices, out, skips, crashes>>

\* Connections are closed with the process, and their locks with them.
Crash ==
    /\ crashes < MaxCrashes
    /\ crashes' = crashes + 1
    /\ Sleep
    /\ lease' = NoConn
    /\ idle' = <<>>
    /\ out' = {}
    /\ holder' = NoConn
    /\ depth' = 0
    /\ dropped' = FALSE
    /\ skips' = 0
    /\ UNCHANGED <<now, rowVars, slices, faults>>

RowStep(i) == Start(i) \/ Stop(i) \/ Reboot(i)

TickStep ==
    \/ \E c \in Conn : TickBegin(c) \/ TickCheckout(c)
    \/ TickRefused
    \/ TickNow
    \/ TickSelect
    \/ \E i \in Instance : TickSkip(i) \/ TickCharge(i)
    \/ TickUnlock
    \/ TickClose
    \/ TickFails

Next ==
    \/ Pass
    \/ \E i \in Instance : RowStep(i)
    \/ \E c \in Conn : Borrow(c) \/ Return(c)
    \/ TickStep
    \/ Crash

Spec == Init /\ [][Next]_vars

-----------------------------------------------------------------------------
ClockTypeOK ==
    /\ now \in 0 .. MaxTime
    /\ up \subseteq Instance
    /\ updatedAt \in [Instance -> 0 .. now]
    /\ ups \in [Instance -> SUBSET (0 .. now - 1)]
    /\ slices \in [Instance -> SUBSET [from : 0 .. now, to : 0 .. now]]
    /\ biller \in Billers
    /\ wake \in 0 .. MaxTime + Interval
    /\ tickNow \in 0 .. now
    /\ todo \subseteq Instance
    /\ DOMAIN seen \subseteq Instance
    /\ seen \in [DOMAIN seen -> 0 .. now]
    /\ lease \in Conn \cup {NoConn}
    /\ idle \in Seq(Conn)
    /\ Len(idle) <= PoolSize
    /\ out \subseteq Conn
    /\ holder \in Conn \cup {NoConn}
    /\ depth \in Nat
    /\ dropped \in BOOLEAN
    /\ skips \in Nat
    /\ faults \in 0 .. MaxFaults
    /\ crashes \in 0 .. MaxCrashes

\* Through stops, starts and reboots, slow, refused and failed ticks and
\* restarts no second of an instance is charged twice, and a slice leaves none
\* out after the one before it unless it is a whole interval long.
SlicesTile ==
    \A i \in Instance : \A s, z \in slices[i] :
        s.to <= z.to /\ s # z =>
            /\ s.to <= z.from
            /\ z.from \in Ends(i) \/ z.to - z.from = Interval

\* The first slice of an instance has only seconds the instance was RUNNING
\* through, whatever users did while the tick was on its way to it.
FirstSliceRan ==
    \A i \in Instance : \A s \in slices[i] :
        (\A z \in slices[i] : s.to <= z.to) => s.from .. s.to - 1 \subseteq ups[i]

\* The lock is held by a connection that is open, and from its grant to the end
\* of its tick it is held, unless the pool closed the connection under it.
LockHeld ==
    /\ holder # NoConn => holder \in Open /\ depth > 0
    /\ holder = NoConn => depth = 0
    /\ biller \in {"begin", "select", "visit", "unlock"} => holder # NoConn \/ dropped

\* A lock left behind on a pooled connection comes round: with no requests in
\* between, fewer ticks in a row are refused than the pool keeps connections.
RefusalsBounded == holder \in Pooled => skips < PoolSize
=============================================================================
