------------------------ MODULE BillingClock_proofs ------------------------
(***************************************************************************)
(* What holds of the billing clock for any instances, connections, pool    *)
(* size and interval.                                                      *)
(*                                                                         *)
(* The argument about the lock is about where its connection is: a         *)
(* checkout takes a connection from the queue to a request or to the tick, *)
(* and giving it back puts it there again or ends its session; each tick   *)
(* that is refused moves a lock left behind one place nearer to the head   *)
(* of the queue.  The one about the slices is that none ends after the     *)
(* tick's `now`, and that a row still to be visited was RUNNING up to      *)
(* `now` from what it is read to say.                                      *)
(***************************************************************************)
EXTENDS BillingClock, TLAPS

\* The tick's session has a connection at every stage whose statements need no
\* checkout, and none between ticks.
LeaseOK ==
    /\ biller = "asleep" => lease = NoConn
    /\ biller \in {"refused", "begin", "select", "close"} => lease # NoConn

\* Rows are loaded, and left to visit, only after the select.
LoadOK ==
    biller \in {"asleep", "refused", "begin", "select"} => todo = {} /\ seen = NoRows

\* A slice ends by the tick's now, is not empty, and one of them is the last.
SlicesOK ==
    \A i \in Instance :
        /\ \A s \in slices[i] : s.from < s.to /\ s.to <= tickNow
        /\ Ends(i) # {} => \E t \in Ends(i) : \A u \in Ends(i) : u <= t

\* A row that says RUNNING has said so since updated_at, and a row the tick is
\* to visit had since the updated_at it will be seen to have.
RanSince ==
    /\ \A i \in up : updatedAt[i] .. now - 1 \subseteq ups[i]
    /\ \A i \in todo : updatedAt[i] .. tickNow - 1 \subseteq ups[i]
    /\ \A i \in todo \cap DOMAIN seen : seen[i] .. tickNow - 1 \subseteq ups[i]

IInv ==
    /\ ClockTypeOK
    /\ LeaseOK
    /\ LoadOK
    /\ LockHeld
    /\ SlicesOK
    /\ RanSince
    /\ SlicesTile
    /\ FirstSliceRan

-----------------------------------------------------------------------------
(* The queue.                                                              *)

\* A connection given back is pooled, and so are those that were.
LEMMA PooledAppend ==
    ASSUME idle \in Seq(Conn), NEW c \in Conn, idle' = Append(idle, c)
    PROVE  idle' \in Seq(Conn) /\ Len(idle') = Len(idle) + 1 /\ Pooled' = Pooled \cup {c}
<1>1. idle' \in Seq(Conn) /\ Len(idle') = Len(idle) + 1
  OBVIOUS
<1>2. \A k \in 1 .. Len(idle) : idle'[k] = idle[k]
  OBVIOUS
<1>3. idle'[Len(idle) + 1] = c
  OBVIOUS
<1>4. DOMAIN idle = 1 .. Len(idle) /\ DOMAIN idle' = 1 .. Len(idle) + 1 /\ Len(idle) \in Nat
  BY <1>1
<1>5. QED
  BY <1>1, <1>2, <1>3, <1>4 DEF Pooled

\* A checkout takes one connection, of the queue or new, and leaves the rest.
LEMMA CheckoutKeeps ==
    ASSUME idle \in Seq(Conn), Len(idle) <= PoolSize, NEW c \in Conn, Checkout(c)
    PROVE  idle' \in Seq(Conn) /\ Len(idle') <= PoolSize /\ Pooled \subseteq Pooled' \cup {c}
<1>1. CASE idle = <<>> /\ UNCHANGED idle
  BY <1>1 DEF Pooled
<1>2. CASE idle # <<>> /\ c = Head(idle) /\ idle' = Tail(idle)
  <2>1. idle' \in Seq(Conn) /\ Len(idle') = Len(idle) - 1
    BY <1>2
  <2>2. \A k \in 2 .. Len(idle) : idle'[k - 1] = idle[k]
    BY <1>2
  <2>3. idle[1] = c
    BY <1>2
  <2>4. DOMAIN idle = 1 .. Len(idle) /\ DOMAIN idle' = 1 .. Len(idle) - 1 /\ Len(idle) \in Nat
    BY <2>1
  <2>5. \A k \in DOMAIN idle : idle[k] \in Pooled' \cup {c}
    <3>1. TAKE k \in DOMAIN idle
    <3>2. CASE k = 1
      BY <2>3, <3>2
    <3>3. CASE k \in 2 .. Len(idle)
      <4>1. k - 1 \in DOMAIN idle'
        BY <2>4, <3>3
      <4>2. QED
        BY <2>2, <3>3, <4>1 DEF Pooled
    <3>4. QED
      BY <2>4, <3>2, <3>3
  <2>6. QED
    BY <2>1, <2>4, <2>5, ClockAssumption DEF Pooled
<1>3. QED
  BY <1>1, <1>2 DEF Checkout

\* What giving a connection back does to the queue and to the lock.
GivenBack(c) ==
    /\ idle' \in Seq(Conn)
    /\ Len(idle') <= PoolSize
    /\ Pooled \subseteq Pooled'
    /\ holder' \in Conn \cup {NoConn}
    /\ depth' \in Nat
    /\ dropped' \in BOOLEAN
    /\ dropped => dropped'
    /\ \/ holder' = holder /\ depth' = depth /\ (holder = c => c \in Pooled')
       \/ holder' = holder /\ depth' = depth /\ holder # c
       \/ holder' = NoConn /\ depth' = 0 /\ dropped'

LEMMA DropGives ==
    ASSUME ClockTypeOK, NEW c \in Conn, Drop(c)
    PROVE  GivenBack(c)
BY DEF ClockTypeOK, Drop, GivenBack, Pooled

LEMMA GiveBackGives ==
    ASSUME ClockTypeOK, NEW c \in Conn, GiveBack(c)
    PROVE  GivenBack(c)
<1>1. CASE idle' = Append(idle, c) /\ UNCHANGED lockVars /\ Len(idle) < PoolSize
  <2>1. idle' \in Seq(Conn) /\ Len(idle') = Len(idle) + 1 /\ Pooled' = Pooled \cup {c}
    BY <1>1, PooledAppend DEF ClockTypeOK
  <2>2. Len(idle) \in Nat
    BY DEF ClockTypeOK
  <2>3. Len(idle') <= PoolSize
    BY <1>1, <2>1, <2>2, ClockAssumption
  <2>4. QED
    BY <1>1, <2>1, <2>3 DEF ClockTypeOK, lockVars, GivenBack
<1>2. CASE Drop(c)
  BY <1>2, DropGives
<1>3. QED
  BY <1>1, <1>2 DEF GiveBack

-----------------------------------------------------------------------------
(* Types.                                                                  *)

\* The window of a slice that is charged: it starts in the past, never before
\* the last slice's end, and at that end unless it is a whole interval long.
LEMMA SliceStartFits ==
    ASSUME ClockTypeOK, SlicesOK, NEW i \in Instance, SliceStart(i) < tickNow
    PROVE  /\ SliceStart(i) \in 0 .. now
           /\ \A s \in slices[i] : s.to <= SliceStart(i)
           /\ Ends(i) # {} => \/ SliceStart(i) \in Ends(i)
                              \/ tickNow - SliceStart(i) = Interval
           /\ Ends(i) = {} => SliceStart(i) >= Loaded(i)
<1>0. tickNow \in Nat /\ now \in Nat /\ tickNow <= now /\ Interval \in Nat
  BY ClockAssumption DEF ClockTypeOK
<1>1. Loaded(i) \in Nat
  BY <1>0 DEF ClockTypeOK, Loaded
<1>2. Ends(i) \subseteq Nat
  BY <1>0 DEF ClockTypeOK, Ends
<1>3. CASE Ends(i) # {}
  <2>1. Latest(Ends(i)) \in Ends(i) /\ \A u \in Ends(i) : u <= Latest(Ends(i))
    BY <1>3 DEF SlicesOK, Latest
  <2>2. \A s \in slices[i] : s.to <= Latest(Ends(i))
    BY <2>1 DEF Ends
  <2>3. CASE tickNow - Latest(Ends(i)) > Interval
    <3>1. SliceStart(i) = tickNow - Interval
      BY <1>3, <2>3 DEF SliceStart
    <3>2. Latest(Ends(i)) \in Nat
      BY <1>2, <2>1
    <3>3. \A s \in slices[i] : s.to \in Nat
      BY <1>2 DEF Ends
    <3>4. QED
      BY <1>0, <1>3, <2>2, <2>3, <3>1, <3>2, <3>3
  <2>4. CASE ~(tickNow - Latest(Ends(i)) > Interval)
    <3>1. SliceStart(i) = Latest(Ends(i))
      BY <1>3, <2>4 DEF SliceStart
    <3>2. QED
      BY <1>0, <1>2, <1>3, <2>1, <2>2, <3>1
  <2>5. QED
    BY <2>3, <2>4
<1>4. CASE Ends(i) = {}
  <2>1. slices[i] = {}
    BY <1>4 DEF Ends
  <2>2. \/ SliceStart(i) = Loaded(i)
        \/ SliceStart(i) = tickNow - Interval /\ tickNow - Loaded(i) > Interval
    BY <1>4 DEF SliceStart
  <2>3. QED
    BY <1>0, <1>1, <1>4, <2>1, <2>2
<1>5. QED
  BY <1>3, <1>4

LEMMA TypeInit == Init => ClockTypeOK
<1> SUFFICES ASSUME Init PROVE ClockTypeOK
  OBVIOUS
<1>1. seen = NoRows /\ NoRows \in [DOMAIN NoRows -> 0 .. now] /\ DOMAIN NoRows = {}
  BY DEF Init, NoRows
<1>2. idle \in Seq(Conn) /\ Len(idle) = 0
  BY DEF Init
<1>3. now = 0 /\ updatedAt \in [Instance -> 0 .. now]
  BY DEF Init
<1>4. /\ ups \in [Instance -> SUBSET (0 .. now - 1)]
      /\ slices \in [Instance -> SUBSET [from : 0 .. now, to : 0 .. now]]
  BY DEF Init
<1>5. QED
  <2>1. now \in 0 .. MaxTime /\ tickNow \in 0 .. now /\ wake \in 0 .. MaxTime + Interval
    BY ClockAssumption DEF Init
  <2>2. skips \in Nat /\ depth \in Nat /\ faults \in 0 .. MaxFaults /\ crashes \in 0 .. MaxCrashes
    BY ClockAssumption DEF Init
  <2>3. biller \in Billers /\ lease = NoConn /\ holder = NoConn /\ dropped = FALSE
    BY DEF Init, Billers
  <2>4. up = {} /\ todo = {} /\ out = {}
    BY DEF Init
  <2>5. Len(idle) <= PoolSize
    BY <1>2, ClockAssumption
  <2>6. QED
    BY <1>1, <1>2, <1>3, <1>4, <2>1, <2>2, <2>3, <2>4, <2>5 DEF ClockTypeOK

LEMMA TypeStep ==
    ASSUME ClockTypeOK, LeaseOK, LockHeld, SlicesOK, [Next]_vars
    PROVE  ClockTypeOK'
<1> USE ClockAssumption DEF ClockTypeOK, Billers, rowVars, tickVars, lockVars, poolVars, boundVars
<1>0. NoRows \in [DOMAIN NoRows -> 0 .. now'] /\ DOMAIN NoRows = {}
  BY DEF NoRows
<1>1. CASE Pass
  <2>0. now \in 0 .. MaxTime /\ MaxTime \in Nat
    OBVIOUS
  <2>10. now < MaxTime /\ now' = now + 1
    BY <1>1 DEF Pass
  <2>1. now \in Nat /\ now' = now + 1 /\ now' <= MaxTime
    BY ONLY <2>0, <2>10
  <2>2. \A i \in Instance : ups'[i] \subseteq 0 .. now' - 1
    <3>1. \A i \in Instance : ups'[i] \subseteq ups[i] \cup {now}
      BY <1>1 DEF Pass
    <3>2. TAKE i \in Instance
    <3>3. \A t \in ups[i] : t \in 0 .. now - 1
      OBVIOUS
    <3>4. \A t \in ups'[i] : t \in 0 .. now' - 1
      <4>1. TAKE t \in ups'[i]
      <4>2. t \in ups[i] \/ t = now
        BY <3>1
      <4>3. t \in 0 .. now - 1 \/ t = now
        BY <3>3, <4>2
      <4>4. QED
        BY ONLY <2>1, <4>3
    <3>5. QED
      BY <3>4
  <2>3. 0 .. now \subseteq 0 .. now'
    BY <2>1
  <2>4. UNCHANGED <<up, updatedAt, slices, tickVars, lease, poolVars, skips, boundVars>>
    BY <1>1 DEF Pass
  <2>5. updatedAt' \in [Instance -> 0 .. now'] /\ seen' \in [DOMAIN seen' -> 0 .. now']
    BY <2>3, <2>4
  <2>6. \A i \in Instance : slices'[i] \subseteq [from : 0 .. now', to : 0 .. now']
    BY <2>3, <2>4
  <2>7. now' \in 0 .. MaxTime /\ tickNow' \in 0 .. now'
    <3>1. tickNow' \in 0 .. now
      BY <2>4
    <3>2. QED
      BY ONLY <2>0, <2>1, <2>3, <3>1
  <2>8. /\ ups' \in [Instance -> SUBSET (0 .. now' - 1)]
        /\ slices' \in [Instance -> SUBSET [from : 0 .. now', to : 0 .. now']]
    BY <1>1, <2>2, <2>6 DEF Pass
  <2>9. QED
    BY <2>4, <2>5, <2>7, <2>8
<1>2. ASSUME NEW i \in Instance, RowStep(i) PROVE ClockTypeOK'
  <2>1. now \in 0 .. now
    OBVIOUS
  <2>2. updatedAt' \in [Instance -> 0 .. now'] /\ now' = now
    BY <1>2, <2>1 DEF RowStep, Start, Stop, Reboot, SetRow
  <2>3. up' \subseteq Instance
    BY <1>2 DEF RowStep, Start, Stop, Reboot
  <2>4. UNCHANGED <<ups, slices, tickVars, lease, poolVars, skips, boundVars>>
    BY <1>2 DEF RowStep, Start, Stop, Reboot
  <2>5. QED
    BY <2>2, <2>3, <2>4
<1>3. ASSUME NEW c \in Conn, Borrow(c) PROVE ClockTypeOK'
  BY <1>3, CheckoutKeeps DEF Borrow
<1>4. ASSUME NEW c \in Conn, Return(c) PROVE ClockTypeOK'
  <2>1. GivenBack(c)
    BY <1>4, GiveBackGives DEF Return
  <2>2. QED
    BY <1>4, <2>1 DEF Return, GivenBack
<1>5. ASSUME NEW c \in Conn, TickBegin(c) PROVE ClockTypeOK'
  <2>1. idle' \in Seq(Conn) /\ Len(idle') <= PoolSize
    BY <1>5, CheckoutKeeps DEF TickBegin
  <2>0. holder \in Conn \cup {NoConn} /\ depth \in Nat /\ skips \in Nat
    OBVIOUS
  <2>6. ASSUME holder \in {NoConn, c}
        PROVE  holder' \in Conn \cup {NoConn} /\ depth' \in Nat /\ skips' \in Nat /\ biller' \in Billers
    <3>1. holder' = c /\ depth' = depth + 1 /\ biller' = "begin" /\ skips' = 0
      BY <1>5, <2>6 DEF TickBegin
    <3>2. QED
      BY <2>0, <3>1
  <2>7. ASSUME holder \notin {NoConn, c}
        PROVE  holder' \in Conn \cup {NoConn} /\ depth' \in Nat /\ skips' \in Nat /\ biller' \in Billers
    <3>1. biller' = "refused" /\ skips' = skips + 1 /\ UNCHANGED <<holder, depth>>
      BY <1>5, <2>7 DEF TickBegin
    <3>2. QED
      BY <2>0, <3>1
  <2>2. holder' \in Conn \cup {NoConn} /\ depth' \in Nat /\ skips' \in Nat /\ biller' \in Billers
    BY <2>6, <2>7
  <2>3. lease' = c /\ dropped' = FALSE
    BY <1>5 DEF TickBegin
  <2>4. UNCHANGED <<now, rowVars, slices, wake, tickNow, todo, seen, out, boundVars>>
    BY <1>5 DEF TickBegin
  <2>5. QED
    BY <2>1, <2>2, <2>3, <2>4
<1>6. ASSUME NEW c \in Conn, TickCheckout(c) PROVE ClockTypeOK'
  BY <1>6, CheckoutKeeps DEF TickCheckout
<1>7. CASE TickRefused
  <2>1. GivenBack(lease)
    BY <1>7, GiveBackGives DEF TickRefused, LeaseOK
  <2>2. biller' \in Billers /\ wake' = now + Interval /\ todo' = {} /\ seen' = NoRows
    BY <1>7 DEF TickRefused, Sleep
  <2>3. UNCHANGED <<now, rowVars, slices, tickNow, out, skips, boundVars>> /\ lease' = NoConn
    BY <1>7 DEF TickRefused, Sleep
  <2>4. wake' \in 0 .. MaxTime + Interval
    <3>1. now \in 0 .. MaxTime /\ MaxTime \in Nat /\ Interval \in Nat
      OBVIOUS
    <3>2. QED
      BY ONLY <2>2, <3>1
  <2>5. QED
    BY <1>0, <2>1, <2>2, <2>3, <2>4 DEF GivenBack
<1>8. CASE TickNow
  <2>1. tickNow' \in 0 .. now'
    BY <1>8 DEF TickNow
  <2>2. QED
    BY <1>8, <2>1 DEF TickNow
<1>9. CASE TickSelect
  BY <1>9 DEF TickSelect
<1>10. ASSUME NEW i \in Instance, TickSkip(i) PROVE ClockTypeOK'
  BY <1>10 DEF TickSkip, Visited
<1>11. ASSUME NEW i \in Instance, TickCharge(i) PROVE ClockTypeOK'
  <2>1. GivenBack(lease)
    BY <1>11, GiveBackGives DEF TickCharge
  <2>2. SliceStart(i) \in 0 .. now
    BY <1>11, SliceStartFits DEF TickCharge
  <2>3. \A j \in Instance : slices'[j] \subseteq [from : 0 .. now', to : 0 .. now']
    <3>1. \A j \in Instance : slices'[j] \subseteq slices[j] \cup {[from |-> SliceStart(i), to |-> tickNow]}
      BY <1>11 DEF TickCharge
    <3>2. tickNow \in 0 .. now /\ now' = now
      BY <1>11 DEF TickCharge
    <3>3. [from |-> SliceStart(i), to |-> tickNow] \in [from : 0 .. now', to : 0 .. now']
      BY ONLY <2>2, <3>2
    <3>4. \A j \in Instance : slices[j] \subseteq [from : 0 .. now', to : 0 .. now']
      BY <3>2
    <3>5. QED
      BY ONLY <3>1, <3>3, <3>4
  <2>4. slices' \in [Instance -> SUBSET [from : 0 .. now', to : 0 .. now']]
    BY <1>11, <2>3 DEF TickCharge
  <2>5. todo' \subseteq Instance /\ biller' \in Billers /\ UNCHANGED <<now, rowVars, wake, tickNow, out, skips, boundVars>>
    BY <1>11 DEF TickCharge, Visited
  <2>6. seen' = NoRows /\ lease' = NoConn
    BY <1>11 DEF TickCharge
  <2>7. QED
    BY <1>0, <2>1, <2>4, <2>5, <2>6 DEF GivenBack
<1>12. CASE TickUnlock
  <2>1. holder = lease => depth - 1 \in Nat
    BY <1>12 DEF TickUnlock, LockHeld
  <2>2. depth' \in Nat /\ holder' \in Conn \cup {NoConn}
    BY <1>12, <2>1 DEF TickUnlock, Unlock
  <2>3. biller' = "close" /\ UNCHANGED <<idle, dropped>>
    BY <1>12 DEF TickUnlock, Unlock
  <2>4. UNCHANGED <<now, rowVars, slices, wake, tickNow, todo, seen, lease, out, skips, boundVars>>
    BY <1>12 DEF TickUnlock
  <2>5. QED
    BY <2>2, <2>3, <2>4
<1>13. CASE TickClose
  <2>1. GivenBack(lease)
    BY <1>13, GiveBackGives DEF TickClose, LeaseOK
  <2>2. biller' \in Billers /\ wake' = now + Interval /\ todo' = {} /\ seen' = NoRows
    BY <1>13 DEF TickClose, Sleep
  <2>3. UNCHANGED <<now, rowVars, slices, tickNow, out, skips, boundVars>> /\ lease' = NoConn
    BY <1>13 DEF TickClose, Sleep
  <2>4. wake' \in 0 .. MaxTime + Interval
    <3>1. now \in 0 .. MaxTime /\ MaxTime \in Nat /\ Interval \in Nat
      OBVIOUS
    <3>2. QED
      BY ONLY <2>2, <3>1
  <2>5. QED
    BY <1>0, <2>1, <2>2, <2>3, <2>4 DEF GivenBack
<1>14. CASE TickFails
  <2>1. GivenBack(lease)
    BY <1>14, GiveBackGives, DropGives DEF TickFails
  <2>2. QED
    <3>1. faults' \in 0 .. MaxFaults
      <4>1. faults \in 0 .. MaxFaults /\ MaxFaults \in Nat
        OBVIOUS
      <4>2. faults < MaxFaults /\ faults' = faults + 1
        BY ONLY <1>14 DEF TickFails
      <4>3. QED
        BY ONLY <4>1, <4>2
    <3>2. Sleep /\ lease' = NoConn /\ UNCHANGED <<now, rowVars, slices, out, skips, crashes>>
      BY ONLY <1>14 DEF TickFails
    <3>3. biller' \in Billers /\ todo' = {} /\ seen' = NoRows /\ tickNow' = tickNow
      BY <3>2 DEF Sleep
    <3>4. wake' \in 0 .. MaxTime + Interval
      <4>1. now \in 0 .. MaxTime /\ MaxTime \in Nat /\ Interval \in Nat /\ wake' = now + Interval
        BY <3>2 DEF Sleep
      <4>2. QED
        BY ONLY <4>1
    <3>5. QED
      BY <1>0, <2>1, <3>1, <3>2, <3>3, <3>4 DEF GivenBack
<1>15. CASE Crash
  <2>1. crashes' \in 0 .. MaxCrashes /\ wake' \in 0 .. MaxTime + Interval
    <3>1. /\ crashes \in 0 .. MaxCrashes /\ MaxCrashes \in Nat
          /\ now \in 0 .. MaxTime /\ MaxTime \in Nat /\ Interval \in Nat
      OBVIOUS
    <3>2. crashes < MaxCrashes /\ crashes' = crashes + 1 /\ wake' = now + Interval
      BY ONLY <1>15 DEF Crash, Sleep
    <3>3. QED
      BY ONLY <3>1, <3>2
  <2>2. idle' \in Seq(Conn) /\ Len(idle') <= PoolSize
    BY <1>15 DEF Crash
  <2>3. seen' = NoRows /\ now' = now
    BY <1>15 DEF Crash, Sleep
  <2>4. QED
    BY <1>0, <1>15, <2>1, <2>2, <2>3 DEF Crash, Sleep
<1>16. CASE UNCHANGED vars
  BY <1>16 DEF vars
<1>17. QED
  BY <1>1, <1>2, <1>3, <1>4, <1>5, <1>6, <1>7, <1>8, <1>9, <1>10, <1>11, <1>12,
     <1>13, <1>14, <1>15, <1>16 DEF Next, TickStep

-----------------------------------------------------------------------------
(* The tick's connection and the rows it has loaded.                       *)

LEMMA StageStep ==
    ASSUME ClockTypeOK, LeaseOK, LoadOK, [Next]_vars
    PROVE  LeaseOK' /\ LoadOK'
<1> USE DEF LeaseOK, LoadOK, tickVars
<1>1. CASE Pass
  BY <1>1 DEF Pass
<1>2. ASSUME NEW i \in Instance, RowStep(i) PROVE LeaseOK' /\ LoadOK'
  BY <1>2 DEF RowStep, Start, Stop, Reboot
<1>3. ASSUME NEW c \in Conn, Borrow(c) \/ Return(c) PROVE LeaseOK' /\ LoadOK'
  BY <1>3 DEF Borrow, Return
<1>4. ASSUME NEW c \in Conn, TickBegin(c) \/ TickCheckout(c) PROVE LeaseOK' /\ LoadOK'
  BY <1>4, ClockAssumption DEF TickBegin, TickCheckout
<1>5. CASE TickRefused \/ TickClose \/ TickFails \/ Crash
  BY <1>5 DEF TickRefused, TickClose, TickFails, Crash, Sleep
<1>6. CASE TickNow \/ TickSelect \/ TickUnlock
  BY <1>6 DEF TickNow, TickSelect, TickUnlock
<1>7. ASSUME NEW i \in Instance, TickSkip(i) \/ TickCharge(i) PROVE LeaseOK' /\ LoadOK'
  BY <1>7 DEF TickSkip, TickCharge, Visited
<1>8. CASE UNCHANGED vars
  BY <1>8 DEF vars
<1>9. QED
  BY <1>1, <1>2, <1>3, <1>4, <1>5, <1>6, <1>7, <1>8 DEF Next, TickStep

-----------------------------------------------------------------------------
(* The lock.                                                               *)

\* A connection given back by a request or the tick takes the lock to the queue
\* or, when its session ends, out of the world.
LEMMA GivenBackHeld ==
    ASSUME ClockTypeOK, LockHeld, NEW c \in Conn, GivenBack(c),
           \/ out' = out \ {c} /\ lease' = lease /\ biller' = biller
           \/ c = lease /\ out' = out /\ lease' = NoConn
              /\ (biller' \in {"begin", "select", "visit", "unlock"} =>
                     biller \in {"begin", "select", "visit", "unlock"})
    PROVE  LockHeld'
<1>1. holder' # NoConn => holder' = holder /\ depth' = depth /\ (holder = c => c \in Pooled')
  BY DEF GivenBack
<1>2. Pooled \subseteq Pooled'
  BY DEF GivenBack
<1>3. holder' # NoConn => holder' \in Open' /\ depth' > 0
  BY <1>1, <1>2 DEF LockHeld, Open
<1>4. holder' = NoConn => depth' = 0
  BY DEF GivenBack, LockHeld
<1>5. biller' \in {"begin", "select", "visit", "unlock"} => holder' # NoConn \/ dropped'
  BY DEF GivenBack, LockHeld
<1>6. QED
  BY <1>3, <1>4, <1>5 DEF LockHeld

LEMMA LockStep ==
    ASSUME ClockTypeOK, LeaseOK, LockHeld, [Next]_vars
    PROVE  LockHeld'
<1> USE DEF LockHeld, Open, tickVars, lockVars, poolVars
<1>1. CASE Pass
  BY <1>1 DEF Pass, Pooled
<1>2. ASSUME NEW i \in Instance, RowStep(i) PROVE LockHeld'
  BY <1>2 DEF RowStep, Start, Stop, Reboot, Pooled
<1>3. ASSUME NEW c \in Conn, Borrow(c) PROVE LockHeld'
  <2>1. Pooled \subseteq Pooled' \cup {c}
    BY <1>3, CheckoutKeeps DEF Borrow, ClockTypeOK
  <2>2. QED
    BY <1>3, <2>1 DEF Borrow
<1>4. ASSUME NEW c \in Conn, Return(c) PROVE LockHeld'
  <2>1. GivenBack(c)
    BY <1>4, GiveBackGives DEF Return
  <2>2. QED
    BY <1>4, <2>1, GivenBackHeld DEF Return
<1>5. ASSUME NEW c \in Conn, TickBegin(c) PROVE LockHeld'
  <2>1. Pooled \subseteq Pooled' \cup {c} /\ lease' = c /\ out' = out
    BY <1>5, CheckoutKeeps DEF TickBegin, ClockTypeOK
  <2>2. lease = NoConn /\ depth \in Nat
    BY <1>5 DEF TickBegin, LeaseOK, ClockTypeOK
  <2>3. CASE holder \in {NoConn, c}
    BY <1>5, <2>1, <2>2, <2>3, ClockAssumption DEF TickBegin
  <2>4. CASE holder \notin {NoConn, c}
    BY <1>5, <2>1, <2>2, <2>4 DEF TickBegin
  <2>5. QED
    BY <2>3, <2>4
<1>6. ASSUME NEW c \in Conn, TickCheckout(c) PROVE LockHeld'
  <2>1. Pooled \subseteq Pooled' \cup {c}
    BY <1>6, CheckoutKeeps DEF TickCheckout, ClockTypeOK
  <2>2. QED
    BY <1>6, <2>1 DEF TickCheckout
<1>7. CASE TickRefused \/ TickClose \/ TickFails
  <2>1. lease \in Conn
    BY <1>7 DEF TickRefused, TickClose, TickFails, LeaseOK, ClockTypeOK
  <2>2. GivenBack(lease)
    BY <1>7, <2>1, GiveBackGives, DropGives DEF TickRefused, TickClose, TickFails
  <2>3. QED
    BY <1>7, <2>1, <2>2, GivenBackHeld DEF TickRefused, TickClose, TickFails, Sleep
<1>8. CASE TickNow \/ TickSelect
  BY <1>8 DEF TickNow, TickSelect, Pooled
<1>9. ASSUME NEW i \in Instance, TickSkip(i) PROVE LockHeld'
  BY <1>9 DEF TickSkip, Visited, Pooled
<1>10. ASSUME NEW i \in Instance, TickCharge(i) PROVE LockHeld'
  <2>1. lease \in Conn
    BY <1>10 DEF TickCharge, ClockTypeOK
  <2>2. GivenBack(lease)
    BY <1>10, <2>1, GiveBackGives DEF TickCharge
  <2>3. QED
    BY <1>10, <2>1, <2>2, GivenBackHeld DEF TickCharge, Visited
<1>11. CASE TickUnlock
  BY <1>11, ClockAssumption DEF TickUnlock, Unlock, Pooled, ClockTypeOK
<1>12. CASE Crash
  BY <1>12 DEF Crash, Sleep
<1>13. CASE UNCHANGED vars
  BY <1>13 DEF vars, Pooled
<1>14. QED
  BY <1>1, <1>2, <1>3, <1>4, <1>5, <1>6, <1>7, <1>8, <1>9, <1>10, <1>11, <1>12,
     <1>13 DEF Next, TickStep

-----------------------------------------------------------------------------
(* The slices.                                                             *)

\* Only a charge adds a slice; the tick's now and the seconds an instance was
\* RUNNING through only grow.
LEMMA OnlyCharges ==
    ASSUME ClockTypeOK, [Next]_vars
    PROVE  /\ UNCHANGED slices \/ \E i \in Instance : TickCharge(i)
           /\ tickNow <= tickNow'
           /\ \A i \in Instance : ups[i] \subseteq ups'[i]
<1> USE DEF rowVars, tickVars
<1>0. tickNow \in Nat /\ now \in Nat /\ tickNow <= now /\ tickNow <= tickNow
  BY ClockAssumption DEF ClockTypeOK
<1>1. CASE Pass
  BY <1>0, <1>1 DEF Pass
<1>2. ASSUME NEW i \in Instance, RowStep(i)
      PROVE  UNCHANGED slices /\ tickNow <= tickNow' /\ UNCHANGED ups
  BY <1>0, <1>2 DEF RowStep, Start, Stop, Reboot
<1>3. ASSUME NEW c \in Conn, Borrow(c) \/ Return(c) \/ TickBegin(c) \/ TickCheckout(c)
      PROVE  UNCHANGED slices /\ tickNow <= tickNow' /\ UNCHANGED ups
  BY <1>0, <1>3 DEF Borrow, Return, TickBegin, TickCheckout
<1>4. CASE TickRefused \/ TickClose \/ TickFails \/ Crash
  BY <1>0, <1>4 DEF TickRefused, TickClose, TickFails, Crash, Sleep
<1>5. CASE TickNow \/ TickSelect \/ TickUnlock
  BY <1>0, <1>5 DEF TickNow, TickSelect, TickUnlock
<1>6. ASSUME NEW i \in Instance, TickSkip(i)
      PROVE  UNCHANGED slices /\ tickNow <= tickNow' /\ UNCHANGED ups
  BY <1>0, <1>6 DEF TickSkip
<1>7. ASSUME NEW i \in Instance, TickCharge(i)
      PROVE  tickNow <= tickNow' /\ UNCHANGED ups
  BY <1>0, <1>7 DEF TickCharge
<1>8. CASE UNCHANGED vars
  BY <1>0, <1>8 DEF vars
<1>9. QED
  BY <1>1, <1>2, <1>3, <1>4, <1>5, <1>6, <1>7, <1>8 DEF Next, TickStep

\* The slice a charge adds, and where it lies.
LEMMA ChargeAdds ==
    ASSUME ClockTypeOK, SlicesOK, NEW i \in Instance, TickCharge(i)
    PROVE  LET new == [from |-> SliceStart(i), to |-> tickNow] IN
           /\ slices'[i] = slices[i] \cup {new}
           /\ \A j \in Instance \ {i} : slices'[j] = slices[j]
           /\ Ends(i)' = Ends(i) \cup {tickNow}
           /\ \A j \in Instance \ {i} : Ends(j)' = Ends(j)
           /\ \A s \in slices[i] : s.to <= SliceStart(i) /\ s.to < tickNow
           /\ tickNow' = tickNow /\ ups' = ups
<1> DEFINE new == [from |-> SliceStart(i), to |-> tickNow]
<1>1. slices' = [slices EXCEPT ![i] = slices[i] \cup {new}] /\ tickNow' = tickNow /\ ups' = ups
  BY DEF TickCharge, rowVars
<1>2. slices'[i] = slices[i] \cup {new} /\ \A j \in Instance \ {i} : slices'[j] = slices[j]
  BY <1>1 DEF ClockTypeOK
<1>3. new.to = tickNow
  OBVIOUS
<1>4. Ends(i)' = Ends(i) \cup {tickNow} /\ \A j \in Instance \ {i} : Ends(j)' = Ends(j)
  BY <1>2, <1>3 DEF Ends
<1>5. \A s \in slices[i] : s.to <= SliceStart(i) /\ s.to < tickNow
  <2>1. SliceStart(i) < tickNow
    BY DEF TickCharge
  <2>2. SliceStart(i) \in 0 .. now /\ \A s \in slices[i] : s.to <= SliceStart(i)
    BY <2>1, SliceStartFits
  <2>3. tickNow \in 0 .. now /\ now \in Nat
    BY ClockAssumption DEF ClockTypeOK
  <2>4. \A s \in slices[i] : s.to \in Nat
    BY DEF ClockTypeOK
  <2>5. QED
    BY <2>1, <2>2, <2>3, <2>4
<1>6. QED
  BY <1>1, <1>2, <1>4, <1>5

LEMMA SlicesStep ==
    ASSUME ClockTypeOK, SlicesOK, [Next]_vars
    PROVE  SlicesOK'
<1>0. tickNow \in Nat /\ tickNow' \in Nat /\ tickNow <= tickNow' /\ \A j \in Instance : \A s \in slices[j] : s.to \in Nat
  <2>1. tickNow \in Nat /\ now \in Nat /\ \A j \in Instance : \A s \in slices[j] : s.to \in Nat
    BY ClockAssumption DEF ClockTypeOK
  <2>2. tickNow' \in Nat
    <3>1. tickNow' \in {tickNow, now}
      BY DEF Next, TickStep, RowStep, Start, Stop, Reboot, Borrow, Return, TickBegin, TickCheckout,
             TickRefused, TickClose, TickFails, Crash, Sleep, TickNow, TickSelect, TickUnlock,
             TickSkip, TickCharge, Pass, tickVars, vars
    <3>2. QED
      BY <2>1, <3>1
  <2>3. QED
    BY <2>1, <2>2, OnlyCharges
<1>1. CASE UNCHANGED slices
  BY <1>0, <1>1 DEF SlicesOK, Ends
<1>2. ASSUME NEW i \in Instance, TickCharge(i) PROVE SlicesOK'
  <2> DEFINE new == [from |-> SliceStart(i), to |-> tickNow]
  <2>1. new.from < new.to /\ new.to = tickNow
    BY <1>2 DEF TickCharge
  <2>2. \A s \in slices'[i] : s.from < s.to /\ s.to <= tickNow'
    BY <1>0, <1>2, <2>1, ChargeAdds DEF SlicesOK
  <2>3. tickNow \in Ends(i)' /\ \A u \in Ends(i)' : u <= tickNow
    BY <1>0, <1>2, <2>1, ChargeAdds DEF SlicesOK, Ends
  <2>4. \A j \in Instance \ {i} : Ends(j)' = Ends(j) /\ slices'[j] = slices[j] /\ tickNow' = tickNow
    BY <1>2, ChargeAdds
  <2>5. QED
    BY <2>2, <2>3, <2>4 DEF SlicesOK
<1>3. QED
  BY <1>1, <1>2, OnlyCharges

LEMMA TileStep ==
    ASSUME ClockTypeOK, SlicesOK, SlicesTile, [Next]_vars
    PROVE  SlicesTile'
<1>1. CASE UNCHANGED slices
  BY <1>1 DEF SlicesTile, Ends
<1>2. ASSUME NEW i \in Instance, TickCharge(i) PROVE SlicesTile'
  <2> DEFINE new == [from |-> SliceStart(i), to |-> tickNow]
             Follows(s, z) == /\ s.to <= z.from
                              /\ z.from \in Ends(i)' \/ z.to - z.from = Interval
  <2>1. slices'[i] = slices[i] \cup {new} /\ Ends(i) \subseteq Ends(i)'
    BY <1>2, ChargeAdds
  <2>2. ASSUME NEW s \in slices[i], NEW z \in slices[i], s.to <= z.to, s # z
        PROVE  Follows(s, z)
    BY <2>1, <2>2 DEF SlicesTile
  <2>3. ASSUME NEW s \in slices[i] PROVE Follows(s, new)
    <3>1. s.to <= SliceStart(i) /\ Ends(i) # {}
      BY <1>2, ChargeAdds DEF Ends
    <3>2. SliceStart(i) \in Ends(i) \/ tickNow - SliceStart(i) = Interval
      BY <1>2, <3>1, SliceStartFits DEF TickCharge
    <3>3. new.from = SliceStart(i) /\ new.to = tickNow
      OBVIOUS
    <3>4. QED
      BY <2>1, <3>1, <3>2, <3>3
  <2>4. \A z \in slices[i] : ~(new.to <= z.to)
    <3>1. \A z \in slices[i] : z.to < tickNow /\ z.to \in Nat
      <4>1. \A z \in slices[i] : z.to \in Nat
        BY DEF ClockTypeOK
      <4>2. QED
        BY <1>2, <4>1, ChargeAdds
    <3>2. tickNow \in Nat /\ new.to = tickNow
      BY ClockAssumption DEF ClockTypeOK
    <3>3. QED
      BY <3>1, <3>2
  <2>5. \A s, z \in slices'[i] : s.to <= z.to /\ s # z => Follows(s, z)
    BY <2>1, <2>2, <2>3, <2>4
  <2>6. \A j \in Instance \ {i} : Ends(j)' = Ends(j) /\ slices'[j] = slices[j]
    BY <1>2, ChargeAdds
  <2>7. QED
    BY <2>5, <2>6 DEF SlicesTile
<1>3. QED
  BY <1>1, <1>2, OnlyCharges

LEMMA FirstStep ==
    ASSUME ClockTypeOK, SlicesOK, RanSince, FirstSliceRan, [Next]_vars
    PROVE  FirstSliceRan'
<1>0. \A j \in Instance : ups[j] \subseteq ups'[j]
  BY OnlyCharges
<1>1. CASE UNCHANGED slices
  BY <1>0, <1>1 DEF FirstSliceRan
<1>2. ASSUME NEW i \in Instance, TickCharge(i) PROVE FirstSliceRan'
  <2> DEFINE new == [from |-> SliceStart(i), to |-> tickNow]
  <2>1. slices'[i] = slices[i] \cup {new} /\ UNCHANGED ups
    BY <1>2, ChargeAdds
  <2>2. ASSUME NEW s \in slices[i], \A z \in slices'[i] : s.to <= z.to
        PROVE  s.from .. s.to - 1 \subseteq ups'[i]
    BY <2>1, <2>2 DEF FirstSliceRan
  <2>3. ASSUME \A z \in slices'[i] : new.to <= z.to
        PROVE  new.from .. new.to - 1 \subseteq ups'[i]
    <3>1. \A z \in slices[i] : z.to < tickNow /\ z.to \in Nat
      <4>1. \A z \in slices[i] : z.to \in Nat
        BY DEF ClockTypeOK
      <4>2. QED
        BY <1>2, <4>1, ChargeAdds
    <3>2. tickNow \in Nat /\ new.to = tickNow /\ new.from = SliceStart(i)
      BY ClockAssumption DEF ClockTypeOK
    <3>3. Ends(i) = {}
      BY <2>1, <2>3, <3>1, <3>2 DEF Ends
    <3>4. SliceStart(i) >= Loaded(i) /\ SliceStart(i) \in 0 .. now
      BY <1>2, <3>3, SliceStartFits DEF TickCharge
    <3>5. Loaded(i) .. tickNow - 1 \subseteq ups[i]
      BY <1>2 DEF TickCharge, RanSince, Loaded
    <3>6. Loaded(i) \in Nat
      BY ClockAssumption DEF Loaded, ClockTypeOK
    <3>7. SliceStart(i) .. tickNow - 1 \subseteq Loaded(i) .. tickNow - 1
      <4>1. tickNow \in Nat /\ SliceStart(i) \in Nat
        BY <3>4, ClockAssumption DEF ClockTypeOK
      <4>2. QED
        BY ONLY <3>4, <3>6, <4>1
    <3>8. QED
      BY <2>1, <3>2, <3>5, <3>7
  <2>4. \A j \in Instance \ {i} : slices'[j] = slices[j]
    BY <1>2, ChargeAdds
  <2>5. QED
    BY <1>0, <2>1, <2>2, <2>3, <2>4 DEF FirstSliceRan
<1>3. QED
  BY <1>1, <1>2, OnlyCharges

LEMMA RanStep ==
    ASSUME ClockTypeOK, LoadOK, RanSince, [Next]_vars
    PROVE  RanSince'
<1> USE DEF rowVars, tickVars
<1>0. now \in Nat /\ tickNow \in 0 .. now /\ todo \subseteq Instance
  BY ClockAssumption DEF ClockTypeOK
<1>1. CASE Pass
  <2>1. now' = now + 1 /\ UNCHANGED <<up, updatedAt, tickNow, todo, seen>>
    BY <1>1 DEF Pass
  <2>2. \A i \in Instance : ups[i] \subseteq ups'[i] /\ (i \in up => now \in ups'[i])
    BY <1>1 DEF Pass
  <2>3. \A i \in up : updatedAt[i] .. now' - 1 \subseteq ups'[i]
    <3>1. TAKE i \in up
    <3>2. i \in Instance /\ updatedAt[i] \in Nat
      BY <1>0 DEF ClockTypeOK
    <3>3. updatedAt[i] .. now' - 1 \subseteq (updatedAt[i] .. now - 1) \cup {now}
      BY <1>0, <2>1, <3>2
    <3>4. QED
      BY <2>2, <3>2, <3>3 DEF RanSince
  <2>4. QED
    BY <1>0, <2>1, <2>2, <2>3 DEF RanSince
<1>2. ASSUME NEW i \in Instance, RowStep(i) PROVE RanSince'
  <2>1. UNCHANGED <<now, ups, tickNow, todo, seen>> /\ up' \subseteq up \cup {i}
    BY <1>2 DEF RowStep, Start, Stop, Reboot
  <2>2. updatedAt' = [updatedAt EXCEPT ![i] = now]
    BY <1>2 DEF RowStep, Start, Stop, Reboot, SetRow
  <2>3. updatedAt'[i] = now /\ \A j \in Instance \ {i} : updatedAt'[j] = updatedAt[j]
    BY <2>2 DEF ClockTypeOK
  <2>4. now .. now - 1 = {} /\ now .. tickNow - 1 = {}
    BY <1>0
  <2>5. up \subseteq Instance
    BY DEF ClockTypeOK
  <2>6. QED
    BY <1>0, <2>1, <2>3, <2>4, <2>5 DEF RanSince
<1>3. CASE TickNow
  BY <1>3 DEF TickNow, LoadOK, RanSince
<1>4. CASE TickSelect
  <2>1. todo' = up /\ seen' = [i \in up |-> updatedAt[i]] /\ UNCHANGED <<now, up, updatedAt, ups, tickNow>>
    BY <1>4 DEF TickSelect
  <2>2. \A i \in up : updatedAt[i] .. tickNow - 1 \subseteq updatedAt[i] .. now - 1
    <3>1. \A i \in up : updatedAt[i] \in 0 .. now
      BY DEF ClockTypeOK
    <3>2. now \in Nat /\ tickNow \in 0 .. now
      BY <1>0
    <3>3. QED
      BY ONLY <3>1, <3>2
  <2>3. QED
    BY <2>1, <2>2 DEF RanSince
<1>5. ASSUME UNCHANGED <<now, rowVars, tickNow>>,
             todo' \subseteq todo, seen' = seen \/ seen' = NoRows
      PROVE  RanSince'
  BY <1>5 DEF RanSince, NoRows
<1>6. ASSUME NEW c \in Conn, Borrow(c) \/ Return(c) \/ TickBegin(c) \/ TickCheckout(c)
      PROVE  RanSince'
  BY <1>5, <1>6 DEF Borrow, Return, TickBegin, TickCheckout
<1>7. CASE TickRefused \/ TickClose \/ TickFails \/ Crash \/ TickUnlock
  BY <1>5, <1>7 DEF TickRefused, TickClose, TickFails, Crash, Sleep, TickUnlock
<1>8. ASSUME NEW i \in Instance, TickSkip(i) \/ TickCharge(i) PROVE RanSince'
  BY <1>5, <1>8 DEF TickSkip, TickCharge, Visited
<1>9. CASE UNCHANGED vars
  BY <1>5, <1>9 DEF vars
<1>10. QED
  BY <1>1, <1>2, <1>3, <1>4, <1>6, <1>7, <1>8, <1>9 DEF Next, TickStep

-----------------------------------------------------------------------------
(* The lock that was left behind.                                          *)

\* One connection is on its way back to the queue, where there is room for it.
Coming == IF biller = "refused" /\ skips > 0 THEN 1 ELSE 0

\* A connection with a lock left behind is as many places nearer to the head of
\* the queue as ticks have been refused, and what a refused tick gives back goes
\* behind it.
Rotation ==
    /\ biller \notin {"asleep", "refused"} => skips = 0
    /\ biller = "refused" => lease # holder
    /\ biller = "refused" /\ skips > 0 => Len(idle) < PoolSize
    /\ \A p \in DOMAIN idle : idle[p] = holder => p + skips <= Len(idle) + Coming

LEMMA RotationStays ==
    ASSUME Rotation, UNCHANGED <<idle, holder, lease, biller, skips>>
    PROVE  Rotation'
BY DEF Rotation, Coming

\* A tick that is refused takes the head of the queue, which has no lock.
LEMMA RefusedMoves ==
    ASSUME ClockTypeOK, ClockTypeOK', Rotation, NEW c \in Conn, TickBegin(c),
           holder \notin {NoConn, c}
    PROVE  Rotation'
<1>1. /\ biller = "asleep" /\ biller' = "refused" /\ lease' = c
      /\ skips' = skips + 1 /\ holder' = holder
  BY DEF TickBegin
<1>2. skips \in Nat /\ Len(idle) \in Nat /\ Len(idle) <= PoolSize /\ PoolSize \in Nat \ {0}
  BY ClockAssumption DEF ClockTypeOK
<1>3. Coming = 0 /\ Coming' = 1
  BY <1>1, <1>2 DEF Coming
<1>4. CASE idle = <<>> /\ UNCHANGED idle
  <2>1. Len(idle') = 0 /\ DOMAIN idle' = {}
    BY <1>4
  <2>2. QED
    BY <1>1, <1>2, <2>1 DEF Rotation
<1>5. CASE idle # <<>> /\ idle' = Tail(idle)
  <2>1. /\ Len(idle') = Len(idle) - 1
        /\ DOMAIN idle' = 1 .. Len(idle) - 1
        /\ DOMAIN idle = 1 .. Len(idle)
        /\ \A p \in 1 .. Len(idle) - 1 : idle'[p] = idle[p + 1]
    BY <1>5 DEF ClockTypeOK
  <2>2. ASSUME NEW p \in DOMAIN idle', idle'[p] = holder'
        PROVE  p + skips' <= Len(idle') + Coming'
    <3>1. p + 1 \in DOMAIN idle /\ idle[p + 1] = holder
      BY <1>1, <1>2, <2>1, <2>2
    <3>2. p + 1 + skips <= Len(idle) + Coming
      BY <3>1 DEF Rotation
    <3>3. QED
      BY <1>1, <1>2, <1>3, <2>1, <3>2
  <2>3. Len(idle') < PoolSize
    BY <1>2, <2>1
  <2>4. QED
    BY <1>1, <2>2, <2>3 DEF Rotation
<1>6. QED
  BY <1>4, <1>5 DEF TickBegin, Checkout

\* What a refused tick gives back goes to the end of the queue.
LEMMA RefusedReturns ==
    ASSUME ClockTypeOK, ClockTypeOK', Rotation, LeaseOK, TickRefused, skips # 0
    PROVE  Rotation'
<1>1. /\ biller = "refused" /\ biller' = "asleep" /\ skips' = skips
  BY DEF TickRefused, Sleep
<1>2. skips \in Nat /\ Len(idle) \in Nat /\ skips > 0 /\ lease \in Conn
  BY <1>1 DEF ClockTypeOK, LeaseOK
<1>3. Coming = 1 /\ Coming' = 0
  BY <1>1, <1>2 DEF Coming
<1>4. idle' = Append(idle, lease) /\ holder' = holder /\ lease # holder
  BY <1>1, <1>2 DEF Rotation, TickRefused, GiveBack, lockVars
<1>5. /\ Len(idle') = Len(idle) + 1
      /\ DOMAIN idle' = 1 .. Len(idle) + 1
      /\ DOMAIN idle = 1 .. Len(idle)
      /\ \A p \in 1 .. Len(idle) : idle'[p] = idle[p]
      /\ idle'[Len(idle) + 1] = lease
  BY <1>2, <1>4 DEF ClockTypeOK
<1>6. ASSUME NEW p \in DOMAIN idle', idle'[p] = holder'
      PROVE  p + skips' <= Len(idle') + Coming'
  <2>1. p \in DOMAIN idle /\ idle[p] = holder
    BY <1>2, <1>4, <1>5, <1>6
  <2>2. p + skips <= Len(idle) + Coming
    BY <2>1 DEF Rotation
  <2>3. QED
    BY <1>1, <1>2, <1>3, <1>5, <2>2
<1>7. QED
  BY <1>1, <1>6 DEF Rotation

LEMMA RotationStep ==
    ASSUME ClockTypeOK, ClockTypeOK', LeaseOK, Rotation, [Next]_vars
    PROVE  Rotation'
<1> USE DEF tickVars, lockVars, poolVars
<1>0. ASSUME skips' = 0, biller' = "refused" => lease' # holder'
      PROVE  Rotation'
  <2>1. DOMAIN idle' = 1 .. Len(idle') /\ Len(idle') \in Nat
    BY DEF ClockTypeOK
  <2>2. Coming' = 0
    BY <1>0 DEF Coming
  <2>3. QED
    BY <1>0, <2>1, <2>2 DEF Rotation
<1>1. CASE Pass \/ (\E i \in Instance : RowStep(i)) \/ UNCHANGED vars
  BY <1>1, RotationStays DEF Pass, RowStep, Start, Stop, Reboot, vars
<1>2. ASSUME NEW c \in Conn, Borrow(c) \/ Return(c) PROVE Rotation'
  <2>1. skips' = 0 /\ biller' = biller /\ lease' = lease
    BY <1>2 DEF Borrow, Return
  <2>2. holder' = holder \/ holder' = NoConn
    BY <1>2 DEF Borrow, Return, GiveBack, Drop
  <2>3. biller = "refused" => lease # holder /\ lease # NoConn
    BY DEF Rotation, LeaseOK
  <2>4. QED
    BY <1>0, <2>1, <2>2, <2>3
<1>3. ASSUME NEW c \in Conn, TickBegin(c) PROVE Rotation'
  <2>1. CASE holder \in {NoConn, c}
    BY <1>0, <1>3, <2>1 DEF TickBegin
  <2>2. QED
    BY <1>3, <2>1, RefusedMoves
<1>4. CASE TickRefused
  <2>1. biller' = "asleep" /\ skips' = skips
    BY <1>4 DEF TickRefused, Sleep
  <2>2. QED
    BY <1>0, <1>4, <2>1, RefusedReturns
<1>5. CASE TickNow \/ TickSelect \/ TickUnlock \/ TickClose \/ TickFails
  <2>1. skips' = skips /\ biller \notin {"asleep", "refused"} /\ biller' # "refused"
    BY <1>5 DEF TickNow, TickSelect, TickUnlock, TickClose, TickFails, Sleep
  <2>2. QED
    BY <1>0, <2>1 DEF Rotation
<1>6. ASSUME NEW c \in Conn, TickCheckout(c) PROVE Rotation'
  BY <1>0, <1>6 DEF TickCheckout, Rotation
<1>7. ASSUME NEW i \in Instance, TickSkip(i) \/ TickCharge(i) PROVE Rotation'
  <2>1. skips' = skips /\ biller = "visit" /\ biller' # "refused"
    BY <1>7 DEF TickSkip, TickCharge, Visited
  <2>2. QED
    BY <1>0, <2>1 DEF Rotation
<1>8. CASE Crash
  BY <1>0, <1>8 DEF Crash, Sleep
<1>9. QED
  BY <1>1, <1>2, <1>3, <1>4, <1>5, <1>6, <1>7, <1>8 DEF Next, TickStep

-----------------------------------------------------------------------------
LEMMA Inductive == Spec => []IInv
<1>1. Init => IInv
  <2>1. ASSUME Init PROVE LeaseOK /\ LoadOK /\ LockHeld /\ SlicesOK /\ RanSince /\ SlicesTile /\ FirstSliceRan
    BY <2>1 DEF Init, LeaseOK, LoadOK, LockHeld, SlicesOK, RanSince, SlicesTile, FirstSliceRan, Ends
  <2>2. QED
    BY <2>1, TypeInit DEF IInv
<1>2. IInv /\ [Next]_vars => IInv'
  BY TypeStep, StageStep, LockStep, SlicesStep, RanStep, TileStep, FirstStep DEF IInv
<1>3. QED
  BY <1>1, <1>2, PTL DEF Spec

\* Every variable keeps its type: the pool never has more idle connections than
\* it may, and no lock is released more often than it was taken.
THEOREM TypeCorrect == Spec => []ClockTypeOK
BY Inductive, PTL DEF IInv

\* The advisory lock is held by an open connection of this process all through
\* a tick, unless the pool closed that connection during the tick.
THEOREM TickHoldsLock == Spec => []LockHeld
BY Inductive, PTL DEF IInv

\* No second of an instance is charged twice, and a slice that leaves a gap
\* after the last one is a whole interval long.
THEOREM ChargedOnce == Spec => []SlicesTile
BY Inductive, PTL DEF IInv

\* The first slice of an instance has only seconds it was RUNNING through.
THEOREM FirstSliceTrue == Spec => []FirstSliceRan
BY Inductive, PTL DEF IInv

\* A lock left behind refuses fewer ticks in a row than the pool keeps
\* connections, as long as no request uses the pool.
THEOREM RefusalsAreFew == Spec => []RefusalsBounded
<1>1. Init => Rotation
  BY DEF Init, Rotation
<1>2. IInv /\ IInv' /\ Rotation /\ [Next]_vars => Rotation'
  BY RotationStep DEF IInv
<1>3. ClockTypeOK /\ Rotation => RefusalsBounded
  <2> SUFFICES ASSUME ClockTypeOK, Rotation, holder \in Pooled
               PROVE  skips < PoolSize
    BY DEF RefusalsBounded
  <2>1. PICK p \in DOMAIN idle : idle[p] = holder
    BY DEF Pooled
  <2>2. p + skips <= Len(idle) + Coming
    BY <2>1 DEF Rotation
  <2>3. /\ p \in Nat \ {0} /\ skips \in Nat /\ Len(idle) \in Nat /\ PoolSize \in Nat
        /\ Len(idle) <= PoolSize
    BY ClockAssumption DEF ClockTypeOK
  <2>4. Coming = 0 \/ (Coming = 1 /\ Len(idle) < PoolSize)
    BY DEF Coming, Rotation
  <2>5. QED
    BY <2>2, <2>3, <2>4
<1>4. QED
  BY <1>1, <1>2, <1>3, Inductive, PTL DEF Spec, IInv
=============================================================================
