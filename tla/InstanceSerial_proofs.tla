------------------------ MODULE InstanceSerial_proofs -----------------------
(***************************************************************************)
(* What holds of instances in the behaviours where some requests do not    *)
(* overlap: as long as the requests on a row come one at a time and nothing *)
(* fails, rows tell what their containers do; as long as creations do,      *)
(* ports are not shared; as long as those of a tenant do, it stays within   *)
(* its plan.  Nothing is asked of the constants: whatever else the threads, *)
(* the provisioning tasks, faults and restarts do may interleave.           *)
(***************************************************************************)
EXTENDS InstanceLifecycle_proofs, FiniteSetTheorems, WellFoundedInduction

\* Nothing has failed so far.
Calm == faults = 0 /\ crashes = 0

-----------------------------------------------------------------------------
(* Rows and containers.                                                    *)

\* No request is between its Docker call on i and the commit that follows.
Free(i) == \A r \in Request : target[r] = i =>
               pc[r] \notin {"start_commit", "stop_commit", "delete_commit"}

\* What a row no delete has touched says of its container, and what those who
\* work on it know.
Truthful(i) ==
    /\ Provisioning(i) <=> status[i] = "PROVISIONING"
    /\ worker[i] = "start" => docker[i] = "created"
    /\ worker[i] = "commit" => docker[i] = "running"
    /\ worker[i] = "fail" => ~Exists(i)
    /\ status[i] = "ERROR" => createOp[i] = "FAILED" /\ ~Exists(i)
    /\ Free(i) /\ status[i] = "RUNNING" => docker[i] = "running"
    /\ Free(i) /\ status[i] = "STOPPED" => docker[i] = "exited"
    /\ \A r \in Request : target[r] = i =>
           /\ pc[r] = "start_docker" => status[i] = "STOPPED"
           /\ pc[r] \in {"stop_docker", "reboot_docker"} => status[i] = "RUNNING"
           /\ pc[r] = "start_commit" => docker[i] = "running"
           /\ pc[r] = "stop_commit" => docker[i] = "exited"

MatchInv == \A i \in Instance \ deletedAt : Truthful(i)

\* What has failed is not forgotten, and a step after which nothing has failed
\* is no fault.
LEMMA CalmSince ==
    ASSUME IInv, [Next]_vars, Calm'
    PROVE  Calm /\ ~Fault /\ ~Crash
<1>1. Fault \/ UNCHANGED faults
    BY DEF Next, Operate, RequestStep, CreatePort, CreateInsert, DeleteDocker, DeleteCommit,
           StartDocker, StartCommit, StopDocker, StopCommit, RebootDocker, RequestLost, Commit,
           RequestRead, CreateCheck, DeleteRead, StartRead, StopRead, RebootRead, Begin,
           StopAndRemove, WorkerStep, WorkerBegin, WorkerCreate, WorkerStart, WorkerCommit,
           WorkerCleanup, WorkerFail, WorkerUnwind, WorkerLost, ContainerGoes, Crash, vars,
           envVars
<1>2. faults = 0 /\ ~Fault
    BY <1>1, FaultCount DEF IInv, TypeOK, Calm
<1>3. crashes \in Nat /\ (Crash \/ UNCHANGED crashes)
    BY InstanceAssumption
       DEF IInv, TypeOK, Next, Operate, RequestStep, CreatePort, CreateInsert, DeleteDocker,
           DeleteCommit, StartDocker, StartCommit, StopDocker, StopCommit, RebootDocker,
           RequestLost, Commit, RequestRead, CreateCheck, DeleteRead, StartRead, StopRead,
           RebootRead, Begin, WorkerStep, WorkerBegin, WorkerCreate, WorkerStart, WorkerCommit,
           WorkerCleanup, WorkerFail, WorkerUnwind, WorkerLost, ContainerGoes, vars, envVars
<1>4. crashes = 0 /\ ~Crash
    BY <1>3 DEF Calm, Crash
<1> QED
    BY <1>2, <1>4 DEF Calm

\* A step of the only request on a row keeps rows and containers together.
LEMMA MatchRequest ==
    ASSUME OneRequestPerRow, ~Fault, IInv, MatchInv, NEW r \in Request, RequestStep(r),
           NEW j \in Instance \ deletedAt'
    PROVE  Truthful(j)'
<1> TypeOK /\ HandlerPhase(r) /\ RowPhase(j) /\ NoInstance \notin Instance
    BY InstanceAssumption DEF IInv
<1> \A q \in Request : target[q] = target[r] /\ target[r] \in Instance => q = r
    BY InstanceAssumption DEF OneRequestPerRow
<1> USE DEF Truthful, Free, Provisioning, Exists
<1>1. CASE CreatePort(r)
    BY <1>1 DEF CreatePort, Return, Goto, MatchInv, TypeOK, rowVars, envVars
<1>2. CASE CreateInsert(r)
    BY <1>2 DEF CreateInsert, Return, Goto, MatchInv, TypeOK, RowPhase, HandlerPhase, envVars
<1>3. CASE DeleteDocker(r)
    BY <1>3 DEF DeleteDocker, StopAndRemove, SetDocker, Goto, MatchInv, TypeOK, RowPhase,
                HandlerPhase, rowVars
<1>4. CASE DeleteCommit(r)
    BY <1>4 DEF DeleteCommit, Return, Goto, MatchInv, TypeOK, envVars
<1>5. CASE StartDocker(r)
    BY <1>5 DEF StartDocker, SetDocker, Return, Goto, MatchInv, TypeOK, RowPhase, HandlerPhase,
                rowVars
<1>6. CASE StartCommit(r)
    BY <1>6 DEF StartCommit, Commit, Return, Goto, MatchInv, TypeOK, RowPhase, HandlerPhase,
                envVars
<1>7. CASE StopDocker(r)
    BY <1>7 DEF StopDocker, SetDocker, Return, Goto, MatchInv, TypeOK, RowPhase, HandlerPhase,
                rowVars
<1>8. CASE StopCommit(r)
    BY <1>8 DEF StopCommit, Commit, Return, Goto, MatchInv, TypeOK, RowPhase, HandlerPhase,
                envVars
<1>9. CASE RebootDocker(r)
    BY <1>9 DEF RebootDocker, CanStart, SetDocker, Return, Goto, MatchInv, TypeOK, RowPhase,
                HandlerPhase, rowVars
<1> QED
    BY <1>1, <1>2, <1>3, <1>4, <1>5, <1>6, <1>7, <1>8, <1>9 DEF RequestStep, RequestLost

\* So does a request that begins: START finds a container that does not run.
LEMMA MatchRead ==
    ASSUME IInv, MatchInv, NEW r \in Request, NEW i \in Instance, RequestRead(r, i),
           NEW j \in Instance \ deletedAt'
    PROVE  Truthful(j)'
<1>1. TypeOK /\ RowPhase(i) /\ Truthful(j)
    BY DEF IInv, MatchInv, RequestRead, CreateCheck, DeleteRead, StartRead, StopRead, RebootRead,
           Begin, rowVars
<1>2. StartRead(r, i) => i \in deletedAt \/ status[i] = "STOPPED"
    BY <1>1 DEF StartRead, MatchInv, Truthful, TypeOK, Statuses, RowPhase, Provisioning
<1> QED
    BY <1>1, <1>2
       DEF RequestRead, CreateCheck, DeleteRead, StartRead, StopRead, RebootRead, Begin, Goto,
           Truthful, Free, Provisioning, Exists, TypeOK, rowVars

\* So does a provisioning task.
LEMMA MatchWorker ==
    ASSUME Calm, ~Fault, IInv, MatchInv, NEW i \in Instance, WorkerStep(i),
           NEW j \in Instance \ deletedAt'
    PROVE  Truthful(j)'
<1> TypeOK /\ RowPhase(j)
    BY DEF IInv
<1> \A r \in Request : HandlerPhase(r)
    BY DEF IInv
<1> USE DEF Truthful, Free, Provisioning, Exists
<1>1. CASE WorkerBegin(i)
    BY <1>1 DEF WorkerBegin, WorkerGoto, MatchInv, TypeOK, RowPhase, HandlerPhase, reqVars
<1>2. CASE WorkerCreate(i)
    BY <1>2 DEF WorkerCreate, SetDocker, WorkerGoto, MatchInv, TypeOK, RowPhase, HandlerPhase,
                rowVars, reqVars
<1>3. CASE WorkerStart(i)
    BY <1>3 DEF WorkerStart, SetDocker, WorkerGoto, MatchInv, TypeOK, RowPhase, HandlerPhase,
                rowVars, reqVars
<1>4. CASE WorkerCommit(i)
    BY <1>4 DEF WorkerCommit, WorkerGoto, MatchInv, TypeOK, RowPhase, HandlerPhase, reqVars
<1>5. CASE WorkerCleanup(i)
    BY <1>5 DEF WorkerCleanup, StopAndRemove, SetDocker, WorkerGoto, MatchInv, TypeOK, RowPhase,
                HandlerPhase, rowVars, reqVars
<1>6. CASE WorkerFail(i)
    BY <1>6 DEF WorkerFail, WorkerGoto, MatchInv, TypeOK, RowPhase, HandlerPhase, reqVars
<1>7. ~WorkerUnwind(i) /\ ~WorkerLost(i)
    BY DEF IInv, RowPhase, Calm, WorkerUnwind, WorkerLost
<1> QED
    BY <1>1, <1>2, <1>3, <1>4, <1>5, <1>6, <1>7 DEF WorkerStep

\* So does every step, because nothing else happens when nothing fails.
LEMMA MatchStep ==
    ASSUME OneRequestPerRow, Calm, ~Fault, ~Crash, IInv, MatchInv, [Next]_vars
    PROVE  MatchInv'
<1> SUFFICES ASSUME NEW j \in Instance \ deletedAt' PROVE Truthful(j)'
    BY DEF MatchInv
<1>1. ~(\E i \in Instance : ContainerGoes(i))
    BY DEF ContainerGoes
<1>2. CASE UNCHANGED vars
    BY <1>2 DEF MatchInv, Truthful, Free, Provisioning, Exists, vars, rowVars, reqVars
<1> QED
    BY <1>1, <1>2, MatchRequest, MatchRead, MatchWorker DEF Next, Operate

\* There is no row at the start.
LEMMA InitMatch == Init => MatchInv
BY DEF Init, MatchInv, Truthful, Free, Provisioning, Exists

\* A row nobody is at work on is free.
LEMMA MatchTells == MatchInv => RowsMatchDocker
BY DEF MatchInv, Truthful, Free, RowsMatchDocker

\* The requests on a row one at a time and nothing that has failed: a row nobody
\* is at work on tells what its container does.
THEOREM RowsTellTruth == Spec /\ []OneRequestPerRow => [](Calm => RowsMatchDocker)
<1>1. Init => (Calm => MatchInv)
    BY InitMatch
<1>2. OneRequestPerRow /\ IInv /\ (Calm => MatchInv) /\ [Next]_vars => (Calm => MatchInv)'
    BY CalmSince, MatchStep
<1>3. (Calm => MatchInv) => (Calm => RowsMatchDocker)
    BY MatchTells
<1> QED
    BY <1>1, <1>2, <1>3, Invariance, PTL DEF Spec

-----------------------------------------------------------------------------
(* Ports.                                                                  *)

\* What keeps the ports apart: the port a creation has chosen is still free when
\* it inserts its row.
PortInv ==
    /\ \A r \in Request : pc[r] = "create_insert" =>
           \A i \in NeverDeleted : sshPort[i] # pick[r]
    /\ LivePortsUnique

\* Only the insert of a row adds to the rows no delete has touched.
LEMMA NeverDeletedShrinks ==
    ASSUME IInv, [Next]_vars, ~(\E r \in Request : CreateInsert(r))
    PROVE  /\ NeverDeleted' \subseteq NeverDeleted
           /\ \A i \in NeverDeleted' : sshPort'[i] = sshPort[i]
<1> TypeOK
    BY DEF IInv
<1> DEFINE Kept ==
        /\ sshPort' = sshPort
        /\ deletedAt \subseteq deletedAt'
        /\ \A i \in Instance : status[i] = "absent" => status'[i] = "absent"
<1>1. Kept
    <2>1. ASSUME NEW r \in Request, RequestStep(r) PROVE Kept
        <3> HandlerPhase(r)
            BY DEF IInv
        <3> QED
            BY <2>1 DEF TypeOK, HandlerPhase, RequestStep, CreatePort, DeleteDocker, DeleteCommit,
                        StartDocker, StartCommit, StopDocker, StopCommit, RebootDocker,
                        RequestLost, Commit, rowVars
    <2>2. ASSUME NEW r \in Request, NEW i \in Instance, RequestRead(r, i) PROVE UNCHANGED rowVars
        BY <2>2 DEF RequestRead, CreateCheck, DeleteRead, StartRead, StopRead, RebootRead, Begin
    <2>3. ASSUME NEW i \in Instance, WorkerStep(i) PROVE Kept
        <3> RowPhase(i)
            BY DEF IInv
        <3> QED
            BY <2>3 DEF TypeOK, RowPhase, WorkerStep, WorkerBegin, WorkerCreate, WorkerStart,
                        WorkerCommit, WorkerCleanup, WorkerFail, WorkerUnwind, WorkerLost, rowVars
    <2>4. ASSUME (\E i \in Instance : ContainerGoes(i)) \/ Crash \/ UNCHANGED vars
          PROVE  UNCHANGED rowVars
        BY <2>4 DEF ContainerGoes, Crash, vars
    <2>5. UNCHANGED rowVars => Kept
        BY DEF rowVars
    <2> QED
        BY <2>1, <2>2, <2>3, <2>4, <2>5 DEF Next, Operate
<1> QED
    BY <1>1 DEF IInv, RowPhase, NeverDeleted, Live

\* While creations come one at a time nobody races with one between its choice
\* of a port and its insert.
LEMMA PortStep ==
    ASSUME OneCreation, IInv, PortInv, [Next]_vars
    PROVE  PortInv'
<1> TypeOK
    BY DEF IInv
<1>1. ASSUME NEW r \in Request, CreateInsert(r) PROVE PortInv'
    <2> DEFINE i == target[r]
    <2>1. /\ i \in Instance
          /\ pick[r] \in Port
          /\ \A j \in NeverDeleted : sshPort[j] # pick[r]
        BY <1>1 DEF IInv, HandlerPhase, PortInv, CreateInsert
    <2>2. \A q \in Request : pc'[q] # "create_insert"
        BY <1>1 DEF TypeOK, CreateInsert, Return, Goto, OneCreation, Creating
    <2>3. CASE status[i] = "absent"
        <3>1. /\ status' = [status EXCEPT ![i] = "PROVISIONING"]
              /\ sshPort' = [sshPort EXCEPT ![i] = pick[r]]
              /\ deletedAt' = deletedAt
            BY <1>1, <2>3 DEF CreateInsert
        <3>2. NeverDeleted' \subseteq NeverDeleted \cup {i} /\ i \notin NeverDeleted
            BY <2>1, <2>3, <3>1 DEF TypeOK, NeverDeleted, Live
        <3>3. \A j \in NeverDeleted : sshPort'[j] = sshPort[j] /\ sshPort'[i] = pick[r]
            BY <2>1, <3>1, <3>2 DEF TypeOK, NeverDeleted, Live
        <3>4. LivePortsUnique'
            BY <2>1, <3>2, <3>3 DEF PortInv, LivePortsUnique
        <3> QED
            BY <2>1, <2>2, <3>1, <3>4 DEF TypeOK, PortInv
    <2>4. CASE status[i] # "absent"
        <3>1. status' = status /\ sshPort' = sshPort /\ deletedAt' = deletedAt
            BY <1>1, <2>4 DEF CreateInsert
        <3> QED
            BY <2>2, <3>1 DEF PortInv, LivePortsUnique, NeverDeleted, Live
    <2> QED
        BY <2>3, <2>4
<1>2. ASSUME ~(\E r \in Request : CreateInsert(r)) PROVE PortInv'
    <2>1. /\ NeverDeleted' \subseteq NeverDeleted
          /\ \A i \in NeverDeleted' : sshPort'[i] = sshPort[i]
        BY <1>2, NeverDeletedShrinks
    <2>2. LivePortsUnique'
        BY <2>1 DEF PortInv, LivePortsUnique
    <2>3. ASSUME NEW q \in Request, pc'[q] = "create_insert", NEW i \in NeverDeleted'
          PROVE  sshPort'[i] # pick'[q]
        <3>1. CASE pc[q] = "create_insert" /\ pick'[q] = pick[q]
            BY <2>1, <2>3, <3>1 DEF PortInv
        <3>2. CASE CreatePort(q)
            BY <2>1, <2>3, <3>2 DEF TypeOK, CreatePort, Return, Goto, FreePorts, NeverDeleted
        <3>3. (pc[q] = "create_insert" /\ pick'[q] = pick[q]) \/ CreatePort(q)
            <4>1. ASSUME NEW r \in Request, RequestStep(r)
                  PROVE  (pc[q] = "create_insert" /\ pick'[q] = pick[q]) \/ CreatePort(q)
                <5>1. CASE r = q
                    BY <1>2, <2>3, <4>1, <5>1
                       DEF TypeOK, RequestStep, DeleteDocker, DeleteCommit, StartDocker,
                           StartCommit, StopDocker, StopCommit, RebootDocker, RequestLost, Commit,
                           Return, Goto
                <5>2. CASE r # q
                    BY <2>3, <4>1, <5>2
                       DEF TypeOK, RequestStep, CreatePort, CreateInsert, DeleteDocker,
                           DeleteCommit, StartDocker, StartCommit, StopDocker, StopCommit,
                           RebootDocker, RequestLost, Commit, Return, Goto
                <5> QED
                    BY <5>1, <5>2
            <4>2. ASSUME NEW r \in Request, NEW k \in Instance, RequestRead(r, k)
                  PROVE  pc[q] = "create_insert" /\ pick'[q] = pick[q]
                BY <2>3, <4>2 DEF TypeOK, RequestRead, CreateCheck, DeleteRead, StartRead,
                                  StopRead, RebootRead, Begin, Goto
            <4>3. ASSUME NEW k \in Instance, WorkerStep(k) \/ ContainerGoes(k) PROVE UNCHANGED reqVars
                BY <4>3 DEF WorkerStep, WorkerBegin, WorkerCreate, WorkerStart, WorkerCommit,
                            WorkerCleanup, WorkerFail, WorkerUnwind, WorkerLost, ContainerGoes
            <4>4. ~Crash
                BY <2>3 DEF Crash
            <4> QED
                BY <2>3, <4>1, <4>2, <4>3, <4>4 DEF Next, Operate, vars, reqVars
        <3> QED
            BY <3>1, <3>2, <3>3
    <2> QED
        BY <2>1, <2>2, <2>3 DEF PortInv
<1> QED
    BY <1>1, <1>2

\* There is no row at the start.
LEMMA InitPorts == Init => PortInv
BY DEF Init, PortInv, LivePortsUnique, NeverDeleted, Live

\* Creations one at a time, any number of other requests, rows, provisioning
\* tasks, faults and restarts: live rows no delete has touched never share an
\* SSH port.
THEOREM PortsUnique == Spec /\ []OneCreation => []LivePortsUnique
<1>1. OneCreation /\ IInv /\ PortInv /\ [Next]_vars => PortInv'
    BY PortStep
<1>2. PortInv => LivePortsUnique
    BY DEF PortInv
<1> QED
    BY <1>1, <1>2, InitPorts, Invariance, PTL DEF Spec

-----------------------------------------------------------------------------
(* Sums.  MapThenSumSet takes the elements of a set one after the other;   *)
(* what it adds up does not depend on their order.  An induction over the  *)
(* subsets of a finite set is stated as: if some are bad, one is bad and   *)
(* has no bad subset but itself.                                           *)

\* Some bad set has no bad subset but itself.
LEMMA MinimalSet ==
    ASSUME NEW S, NEW B, B \subseteq FiniteSubsetsOf(S), B # {}
    PROVE  \E T \in B : \A U \in B : U \subseteq T => U = T
<1>1. IsWellFoundedOn(StrictSubsetOrdering(S), FiniteSubsetsOf(S))
    BY FS_StrictSubsetOrderingWellFounded
<1>2. PICK T \in B : \A U \in B : ~(<<U, T>> \in StrictSubsetOrdering(S))
    BY <1>1, WFMin
<1>3. ASSUME NEW U \in B, U \subseteq T PROVE U = T
    BY <1>2, <1>3 DEF StrictSubsetOrdering, FiniteSubsetsOf
<1> QED
    BY <1>2, <1>3

Total(x, S) == MapThenSumSet(LAMBDA i : Need[i][x], S)

First(s) == CHOOSE i \in s : TRUE

Rest(s) == s \ {First(s)}

\* g adds up what the subsets of S need of x.
SumsOn(x, g, S) ==
    g = [s \in SUBSET S |-> IF s = {} THEN 0 ELSE Need[First(s)][x] + g[Rest(s)]]

Sums(x, S) == CHOOSE g : SumsOn(x, g, S)

\* The sum of the model is such a sum.
LEMMA TotalDef ==
    ASSUME NEW x, NEW S
    PROVE  Total(x, S) = Sums(x, S)[S]
BY DEF Total, MapThenSumSet, MapThenFoldSet, Sums, SumsOn, First, Rest

\* What is left of a set is a smaller one.
LEMMA RestSmaller ==
    ASSUME NEW s, s # {}
    PROVE  First(s) \in s /\ Rest(s) \subseteq s /\ Rest(s) # s
BY DEF First, Rest

\* Two sums agree where both are defined.
LEMMA SumsAgree ==
    ASSUME NEW x, NEW S, NEW T, NEW g, NEW h, SumsOn(x, g, S), SumsOn(x, h, T),
           NEW s, IsFiniteSet(s), s \subseteq S, s \subseteq T
    PROVE  g[s] = h[s]
<1> DEFINE Bad == {u \in FiniteSubsetsOf(s) : g[u] # h[u]}
<1>1. s \in FiniteSubsetsOf(s)
    BY DEF FiniteSubsetsOf
<1>2. ASSUME Bad # {} PROVE FALSE
    <2>1. PICK m \in Bad : \A u \in Bad : u \subseteq m => u = m
        <3> HIDE DEF Bad
        <3>1. Bad \subseteq FiniteSubsetsOf(s)
            BY DEF Bad
        <3> QED
            BY <1>2, <3>1, MinimalSet
    <2>2. m \in SUBSET S /\ m \in SUBSET T /\ IsFiniteSet(m) /\ m \subseteq s
        BY <2>1 DEF FiniteSubsetsOf
    <2>3. /\ g[m] = IF m = {} THEN 0 ELSE Need[First(m)][x] + g[Rest(m)]
          /\ h[m] = IF m = {} THEN 0 ELSE Need[First(m)][x] + h[Rest(m)]
        BY <2>2 DEF SumsOn
    <2>4. m # {}
        BY <2>1, <2>3
    <2>5. Rest(m) \in FiniteSubsetsOf(s) /\ Rest(m) \notin Bad
        <3>1. IsFiniteSet(Rest(m))
            BY <2>2, FS_RemoveElement DEF Rest
        <3> QED
            BY <2>1, <2>2, <2>4, <3>1, RestSmaller DEF FiniteSubsetsOf
    <2> QED
        BY <2>1, <2>3, <2>4, <2>5
<1> QED
    BY <1>1, <1>2

\* Over a finite set there is a sum.
LEMMA SumsExist ==
    ASSUME NEW x, NEW S, IsFiniteSet(S)
    PROVE  SumsOn(x, Sums(x, S), S)
<1> DEFINE Bad == {u \in FiniteSubsetsOf(S) : ~ \E g : SumsOn(x, g, u)}
<1>1. ASSUME Bad # {} PROVE FALSE
    <2>1. PICK m \in Bad : \A u \in Bad : u \subseteq m => u = m
        <3> HIDE DEF Bad
        <3>1. Bad \subseteq FiniteSubsetsOf(S)
            BY DEF Bad
        <3> QED
            BY <1>1, <3>1, MinimalSet
    <2>2. m \subseteq S /\ IsFiniteSet(m)
        BY <2>1 DEF FiniteSubsetsOf
    <2>3. ASSUME NEW u, u \subseteq m, u # m
          PROVE  IsFiniteSet(u) /\ SumsOn(x, Sums(x, u), u)
        <3>1. IsFiniteSet(u)
            BY <2>2, <2>3, FS_Subset
        <3>2. u \in FiniteSubsetsOf(S)
            BY <2>2, <2>3, <3>1 DEF FiniteSubsetsOf
        <3>3. \E g : SumsOn(x, g, u)
            BY <2>1, <2>3, <3>2
        <3> QED
            BY <3>1, <3>3 DEF Sums
    <2> DEFINE g == [s \in SUBSET m |->
                        IF s = {} THEN 0
                        ELSE Need[First(s)][x] + Sums(x, Rest(s))[Rest(s)]]
    <2>4. ASSUME NEW u, u \subseteq m, u # m PROVE g[u] = Sums(x, u)[u]
        <3>1. SumsOn(x, Sums(x, u), u) /\ IsFiniteSet(u)
            BY <2>3, <2>4
        <3>2. Sums(x, u)[u] = IF u = {} THEN 0 ELSE Need[First(u)][x] + Sums(x, u)[Rest(u)]
            BY <3>1 DEF SumsOn
        <3>3. CASE u = {}
            BY <2>4, <3>2, <3>3
        <3>4. CASE u # {}
            <4>1. Rest(u) \subseteq u /\ Rest(u) # m /\ Rest(u) \subseteq m
                BY <2>4, <3>4, RestSmaller
            <4>2. SumsOn(x, Sums(x, Rest(u)), Rest(u)) /\ IsFiniteSet(Rest(u))
                BY <2>3, <4>1
            <4>3. Sums(x, u)[Rest(u)] = Sums(x, Rest(u))[Rest(u)]
                BY <3>1, <4>1, <4>2, SumsAgree
            <4> QED
                BY <2>4, <3>2, <3>4, <4>3
        <3> QED
            BY <3>3, <3>4
    <2>5. ASSUME NEW s \in SUBSET m, s # {}
          PROVE  Sums(x, Rest(s))[Rest(s)] = g[Rest(s)]
        <3>1. Rest(s) \subseteq m /\ Rest(s) # m
            BY <2>5, RestSmaller
        <3> HIDE DEF g
        <3> QED
            BY <2>4, <3>1
    <2>6. SumsOn(x, g, m)
        <3>1. g = [s \in SUBSET m |-> IF s = {} THEN 0 ELSE Need[First(s)][x] + g[Rest(s)]]
            BY <2>5
        <3> QED
            BY <3>1 DEF SumsOn
    <2> QED
        BY <2>1, <2>6
<1>2. S \in FiniteSubsetsOf(S)
    BY DEF FiniteSubsetsOf
<1>3. \E g : SumsOn(x, g, S)
    BY <1>1, <1>2
<1> QED
    BY <1>3 DEF Sums

\* The sum over a set is what its first element needs and the sum of the rest.
LEMMA TotalSplits ==
    ASSUME NEW x, NEW S, IsFiniteSet(S)
    PROVE  Total(x, S) = IF S = {} THEN 0 ELSE Need[First(S)][x] + Total(x, Rest(S))
<1>1. SumsOn(x, Sums(x, S), S)
    BY SumsExist
<1>2. Sums(x, S)[S] = IF S = {} THEN 0 ELSE Need[First(S)][x] + Sums(x, S)[Rest(S)]
    BY <1>1 DEF SumsOn
<1>3. ASSUME S # {} PROVE Sums(x, S)[Rest(S)] = Sums(x, Rest(S))[Rest(S)]
    <2>1. Rest(S) \subseteq S
        BY <1>3, RestSmaller
    <2>2. IsFiniteSet(Rest(S))
        BY FS_RemoveElement DEF Rest
    <2>3. SumsOn(x, Sums(x, Rest(S)), Rest(S))
        BY <2>2, SumsExist
    <2> QED
        BY <1>1, <2>1, <2>2, <2>3, SumsAgree
<1> QED
    BY <1>2, <1>3, TotalDef

\* A sum of needs is a natural number.
LEMMA TotalType ==
    ASSUME NEW x \in Resource, NEW S, S \subseteq Instance, IsFiniteSet(S)
    PROVE  Total(x, S) \in Nat
<1> DEFINE Bad == {u \in FiniteSubsetsOf(S) : Total(x, u) \notin Nat}
<1>1. ASSUME Bad # {} PROVE FALSE
    <2>1. PICK m \in Bad : \A u \in Bad : u \subseteq m => u = m
        <3> HIDE DEF Bad
        <3>1. Bad \subseteq FiniteSubsetsOf(S)
            BY DEF Bad
        <3> QED
            BY <1>1, <3>1, MinimalSet
    <2>2. m \subseteq S /\ IsFiniteSet(m)
        BY <2>1 DEF FiniteSubsetsOf
    <2>3. Total(x, m) = IF m = {} THEN 0 ELSE Need[First(m)][x] + Total(x, Rest(m))
        BY <2>2, TotalSplits
    <2>4. m # {}
        BY <2>1, <2>3
    <2>5. First(m) \in m /\ Rest(m) \subseteq m /\ Rest(m) # m
        BY <2>4, RestSmaller
    <2>6. IsFiniteSet(Rest(m))
        BY <2>2, FS_RemoveElement DEF Rest
    <2>7. Total(x, Rest(m)) \in Nat
        BY <2>1, <2>2, <2>5, <2>6 DEF FiniteSubsetsOf
    <2>8. Need[First(m)][x] \in Nat
        BY <2>2, <2>5, InstanceAssumption
    <2> QED
        BY <2>1, <2>3, <2>4, <2>7, <2>8
<1>2. S \in FiniteSubsetsOf(S)
    BY DEF FiniteSubsetsOf
<1> QED
    BY <1>1, <1>2

\* Any element may be taken out first.
LEMMA TotalTakes ==
    ASSUME NEW x \in Resource, NEW S, S \subseteq Instance, IsFiniteSet(S), NEW i \in S
    PROVE  Total(x, S) = Need[i][x] + Total(x, S \ {i})
<1> DEFINE Bad == {u \in FiniteSubsetsOf(S) :
                      \E j \in u : Total(x, u) # Need[j][x] + Total(x, u \ {j})}
<1>1. ASSUME Bad # {} PROVE FALSE
    <2>1. PICK m \in Bad : \A u \in Bad : u \subseteq m => u = m
        <3> HIDE DEF Bad
        <3>1. Bad \subseteq FiniteSubsetsOf(S)
            BY DEF Bad
        <3> QED
            BY <1>1, <3>1, MinimalSet
    <2>2. m \subseteq S /\ IsFiniteSet(m)
        BY <2>1 DEF FiniteSubsetsOf
    <2>3. PICK j \in m : Total(x, m) # Need[j][x] + Total(x, m \ {j})
        BY <2>1
    <2> DEFINE f == First(m)
    <2>4. f \in m /\ Rest(m) = m \ {f} /\ Rest(m) # m
        BY <2>3, RestSmaller DEF Rest
    <2> HIDE DEF f
    <2>5. Total(x, m) = Need[f][x] + Total(x, m \ {f})
        BY <2>2, <2>3, <2>4, TotalSplits DEF f
    <2>6. j # f
        BY <2>3, <2>5
    <2>7. IsFiniteSet(m \ {f}) /\ IsFiniteSet(m \ {j})
        BY <2>2, FS_RemoveElement
    <2>8. m \ {f} \notin Bad /\ m \ {j} \notin Bad
        BY <2>1, <2>3, <2>4
    <2>9. m \ {f} \in FiniteSubsetsOf(S) /\ m \ {j} \in FiniteSubsetsOf(S)
        BY <2>2, <2>7 DEF FiniteSubsetsOf
    <2>10. (m \ {f}) \ {j} = m \ {f, j} /\ (m \ {j}) \ {f} = m \ {f, j}
        OBVIOUS
    <2>11. Total(x, m \ {f}) = Need[j][x] + Total(x, m \ {f, j})
        BY <2>3, <2>6, <2>8, <2>9, <2>10
    <2>12. Total(x, m \ {j}) = Need[f][x] + Total(x, m \ {f, j})
        BY <2>4, <2>6, <2>8, <2>9, <2>10
    <2>13. Total(x, m \ {f, j}) \in Nat
        <3>1. IsFiniteSet(m \ {f, j})
            BY <2>7, <2>10, FS_RemoveElement
        <3> QED
            BY <2>2, <3>1, TotalType
    <2>14. Need[f][x] \in Nat /\ Need[j][x] \in Nat
        BY <2>2, <2>3, <2>4, InstanceAssumption
    <2> QED
        BY <2>3, <2>5, <2>11, <2>12, <2>13, <2>14
<1>2. S \in FiniteSubsetsOf(S)
    BY DEF FiniteSubsetsOf
<1> QED
    BY <1>1, <1>2

\* Fewer rows need no more.
LEMMA TotalMonotone ==
    ASSUME NEW x \in Resource, NEW S, S \subseteq Instance, IsFiniteSet(S), NEW T \in SUBSET S
    PROVE  Total(x, T) <= Total(x, S)
<1> DEFINE Bad == {u \in FiniteSubsetsOf(S) : \E t \in SUBSET u : ~(Total(x, t) <= Total(x, u))}
<1>1. ASSUME Bad # {} PROVE FALSE
    <2>1. PICK m \in Bad : \A u \in Bad : u \subseteq m => u = m
        <3> HIDE DEF Bad
        <3>1. Bad \subseteq FiniteSubsetsOf(S)
            BY DEF Bad
        <3> QED
            BY <1>1, <3>1, MinimalSet
    <2>2. m \subseteq S /\ IsFiniteSet(m)
        BY <2>1 DEF FiniteSubsetsOf
    <2>3. PICK t \in SUBSET m : ~(Total(x, t) <= Total(x, m))
        BY <2>1
    <2>4. Total(x, m) \in Nat
        BY <2>2, TotalType
    <2>5. PICK i \in m : i \notin t
        <3>1. t # m
            BY <2>3, <2>4
        <3> QED
            BY <3>1
    <2>6. IsFiniteSet(m \ {i}) /\ m \ {i} \subseteq Instance
        BY <2>2, FS_RemoveElement
    <2>7. Total(x, m) = Need[i][x] + Total(x, m \ {i})
        BY <2>2, <2>5, TotalTakes
    <2>8. Total(x, t) <= Total(x, m \ {i})
        <3>1. m \ {i} \notin Bad /\ m \ {i} \in FiniteSubsetsOf(S)
            BY <2>1, <2>2, <2>5, <2>6 DEF FiniteSubsetsOf
        <3> QED
            BY <2>5, <3>1
    <2>9. Need[i][x] \in Nat /\ Total(x, m \ {i}) \in Nat
        BY <2>2, <2>5, <2>6, TotalType, InstanceAssumption
    <2>10. Total(x, t) \in Nat
        <3>1. IsFiniteSet(t)
            BY <2>2, FS_Subset
        <3> QED
            BY <2>2, <3>1, TotalType
    <2> QED
        BY <2>3, <2>7, <2>8, <2>9, <2>10
<1>2. S \in FiniteSubsetsOf(S)
    BY DEF FiniteSubsetsOf
<1> QED
    BY <1>1, <1>2

-----------------------------------------------------------------------------
(* The plan.                                                               *)

\* The rows of t that count: no delete has touched them.
Kept(t) == {i \in NeverDeleted : Owner[i] = t}

\* There are finitely many rows, those of a tenant fit its plan, and so does
\* the one that a request has checked and not yet inserted.
PlanInv ==
    /\ IsFiniteSet({i \in Instance : status[i] # "absent"})
    /\ \A t \in Tenant, x \in Resource : Total(x, Kept(t)) <= Limit[x]
    /\ \A r \in Request : pc[r] \in {"create_port", "create_insert"} =>
           \A x \in Resource :
               Total(x, Kept(Owner[target[r]])) + Need[target[r]][x] <= Limit[x]

\* The rows that count are finitely many.
LEMMA KeptFinite ==
    ASSUME PlanInv, NEW t
    PROVE  Kept(t) \subseteq Instance /\ IsFiniteSet(Kept(t))
<1>1. Kept(t) \in SUBSET {i \in Instance : status[i] # "absent"}
    BY DEF Kept, NeverDeleted, Live
<1> QED
    BY <1>1, FS_Subset DEF PlanInv

\* What the quota check allows fits beside the rows that count.
LEMMA CheckLeavesRoom ==
    ASSUME IInv, PlanInv, NEW i \in Instance, CanAllocate(i), NEW x \in Resource
    PROVE  Total(x, Kept(Owner[i])) + Need[i][x] <= Limit[x]
<1> DEFINE mine == {j \in Live : Owner[j] = Owner[i]}
<1>1. mine \in SUBSET {j \in Instance : status[j] # "absent"}
    BY DEF Live
<1>2. IsFiniteSet(mine) /\ mine \subseteq Instance
    BY <1>1, FS_Subset DEF PlanInv
<1>3. Kept(Owner[i]) \in SUBSET mine
    BY DEF Kept, NeverDeleted
<1>4. Used(Owner[i], x) = Total(x, mine)
    BY DEF Used, Total
<1> HIDE DEF mine
<1>5. Total(x, Kept(Owner[i])) <= Total(x, mine)
    BY <1>2, <1>3, TotalMonotone
<1>6. Total(x, Kept(Owner[i])) \in Nat /\ Total(x, mine) \in Nat
    BY <1>2, KeptFinite, TotalType
<1>7. Need[i][x] \in Nat /\ Limit[x] \in Nat
    BY InstanceAssumption
<1> QED
    BY <1>4, <1>5, <1>6, <1>7 DEF CanAllocate

\* When no row is inserted the rows that count need no more than before.
LEMMA PlanShrinks ==
    ASSUME PlanInv, NeverDeleted' \subseteq NeverDeleted, NEW t, NEW x \in Resource
    PROVE  /\ Total(x, Kept(t)') \in Nat
           /\ Total(x, Kept(t)) \in Nat
           /\ Total(x, Kept(t)') <= Total(x, Kept(t))
<1>1. Kept(t)' \in SUBSET Kept(t)
    BY DEF Kept
<1>2. IsFiniteSet(Kept(t)') /\ IsFiniteSet(Kept(t)) /\ Kept(t) \subseteq Instance
    BY <1>1, KeptFinite, FS_Subset
<1> QED
    BY <1>1, <1>2, TotalMonotone, TotalType

\* The row that is inserted has the room the check left it.
LEMMA PlanInsert ==
    ASSUME OneCreationPerTenant, IInv, PlanInv, NEW r \in Request, CreateInsert(r)
    PROVE  PlanInv'
<1> DEFINE i == target[r]
<1> TypeOK /\ i \in Instance
    BY DEF IInv, HandlerPhase, CreateInsert
<1> HIDE DEF i
<1>1. ASSUME NEW q \in Request, pc'[q] \in {"create_port", "create_insert"}
      PROVE  /\ pc[q] \in {"create_port", "create_insert"}
             /\ target'[q] = target[q]
             /\ Owner[target[q]] # Owner[i]
    BY <1>1 DEF CreateInsert, Return, Goto, TypeOK, OneCreationPerTenant, Creating, i
<1>2. deletedAt' = deletedAt
    BY DEF CreateInsert
<1>3. CASE status[i] = "absent"
    <2>1. status' = [status EXCEPT ![i] = "PROVISIONING"]
        BY <1>3 DEF CreateInsert, i
    <2>2. {j \in Instance : status[j] # "absent"}' =
              {j \in Instance : status[j] # "absent"} \cup {i}
        BY <2>1 DEF TypeOK
    <2>3. IsFiniteSet({j \in Instance : status[j] # "absent"}')
        BY <2>2, FS_AddElement DEF PlanInv
    <2>4. ASSUME NEW t \in Tenant, NEW x \in Resource PROVE Total(x, Kept(t)') <= Limit[x]
        <3>1. /\ IsFiniteSet(Kept(t)) /\ Kept(t) \subseteq Instance
              /\ Total(x, Kept(t)) \in Nat /\ Need[i][x] \in Nat /\ Limit[x] \in Nat
              /\ Total(x, Kept(t)) <= Limit[x]
            BY <2>4, KeptFinite, TotalType, InstanceAssumption DEF PlanInv
        <3>2. CASE t = Owner[i] /\ i \notin deletedAt
            <4>1. i \notin Kept(t) /\ Kept(t)' = Kept(t) \cup {i}
                BY <1>2, <1>3, <2>1, <3>2, <3>1 DEF TypeOK, Kept, NeverDeleted, Live
            <4>2. IsFiniteSet(Kept(t) \cup {i}) /\ Kept(t) \cup {i} \subseteq Instance
                BY <3>1, FS_AddElement
            <4>3. (Kept(t) \cup {i}) \ {i} = Kept(t)
                BY <4>1
            <4>4. Total(x, Kept(t) \cup {i}) = Need[i][x] + Total(x, Kept(t))
                BY <4>2, <4>3, TotalTakes
            <4>5. Total(x, Kept(t)) + Need[i][x] <= Limit[x]
                BY <2>4, <3>2 DEF PlanInv, CreateInsert, i
            <4> QED
                BY <3>1, <4>1, <4>4, <4>5
        <3>3. CASE ~(t = Owner[i] /\ i \notin deletedAt)
            <4>1. Kept(t)' = Kept(t)
                BY <1>2, <1>3, <2>1, <3>3 DEF TypeOK, Kept, NeverDeleted, Live
            <4> QED
                BY <3>1, <4>1
        <3> QED
            BY <3>2, <3>3
    <2>5. ASSUME NEW q \in Request, pc'[q] \in {"create_port", "create_insert"}
          PROVE  {j \in NeverDeleted' : Owner[j] = Owner[target'[q]]} = Kept(Owner[target[q]])
        BY <1>1, <1>2, <2>1, <2>5 DEF TypeOK, Kept, NeverDeleted, Live
    <2>6. (\A q \in Request : pc[q] \in {"create_port", "create_insert"} =>
               \A x \in Resource :
                   Total(x, Kept(Owner[target[q]])) + Need[target[q]][x] <= Limit[x])'
        BY <1>1, <2>5 DEF PlanInv, Kept
    <2> QED
        BY <2>3, <2>4, <2>6 DEF PlanInv
<1>4. CASE status[i] # "absent"
    <2>1. status' = status
        BY <1>4 DEF CreateInsert, i
    <2>2. \A t : Kept(t)' = Kept(t)
        BY <1>2, <2>1 DEF Kept, NeverDeleted, Live
    <2>3. NeverDeleted' = NeverDeleted
        BY <1>2, <2>1 DEF NeverDeleted, Live
    <2>4. (\A q \in Request : pc[q] \in {"create_port", "create_insert"} =>
               \A x \in Resource :
                   Total(x, Kept(Owner[target[q]])) + Need[target[q]][x] <= Limit[x])'
        BY <1>1, <2>3 DEF PlanInv, Kept
    <2> QED
        BY <2>1, <2>2, <2>4 DEF PlanInv
<1> QED
    BY <1>3, <1>4

\* A request that is creating was doing so before, or has just passed the
\* quota check.
LEMMA CreatingSince ==
    ASSUME IInv, [Next]_vars, NEW q \in Request, pc'[q] \in {"create_port", "create_insert"}
    PROVE  \/ pc[q] \in {"create_port", "create_insert"} /\ target'[q] = target[q]
           \/ \E i \in Instance : CanAllocate(i) /\ target'[q] = i
<1> TypeOK
    BY DEF IInv
<1>1. ASSUME NEW r \in Request, RequestStep(r)
      PROVE  pc[q] \in {"create_port", "create_insert"} /\ target'[q] = target[q]
    BY <1>1 DEF TypeOK, RequestStep, CreatePort, CreateInsert, DeleteDocker, DeleteCommit,
                StartDocker, StartCommit, StopDocker, StopCommit, RebootDocker, RequestLost,
                Commit, Return, Goto
<1>2. ASSUME NEW r \in Request, NEW i \in Instance, RequestRead(r, i)
      PROVE  \/ pc[q] \in {"create_port", "create_insert"} /\ target'[q] = target[q]
             \/ CanAllocate(i) /\ target'[q] = i
    BY <1>2 DEF TypeOK, RequestRead, CreateCheck, DeleteRead, StartRead, StopRead, RebootRead,
                Begin, Goto
<1>3. ASSUME NEW i \in Instance, WorkerStep(i) \/ ContainerGoes(i) PROVE UNCHANGED reqVars
    BY <1>3 DEF WorkerStep, WorkerBegin, WorkerCreate, WorkerStart, WorkerCommit, WorkerCleanup,
                WorkerFail, WorkerUnwind, WorkerLost, ContainerGoes
<1>4. ~Crash
    BY DEF Crash
<1> QED
    BY <1>1, <1>2, <1>3, <1>4 DEF Next, Operate, vars, reqVars

\* Rows appear only when they are inserted.
LEMMA NoNewRow ==
    ASSUME IInv, [Next]_vars, ~(\E r \in Request : CreateInsert(r)), NEW i \in Instance,
           status[i] = "absent"
    PROVE  status'[i] = "absent"
<1> TypeOK /\ RowPhase(i)
    BY DEF IInv
<1>1. ASSUME NEW r \in Request, RequestStep(r) PROVE status'[i] = "absent"
    <2> HandlerPhase(r)
        BY DEF IInv
    <2> QED
        BY <1>1 DEF TypeOK, HandlerPhase, RequestStep, CreatePort, DeleteDocker, DeleteCommit,
                    StartDocker, StartCommit, StopDocker, StopCommit, RebootDocker, RequestLost,
                    Commit, rowVars
<1>2. ASSUME NEW r \in Request, NEW k \in Instance, RequestRead(r, k) PROVE UNCHANGED rowVars
    BY <1>2 DEF RequestRead, CreateCheck, DeleteRead, StartRead, StopRead, RebootRead, Begin
<1>3. ASSUME NEW k \in Instance, WorkerStep(k) PROVE status'[i] = "absent"
    BY <1>3 DEF TypeOK, RowPhase, WorkerStep, WorkerBegin, WorkerCreate, WorkerStart,
                WorkerCommit, WorkerCleanup, WorkerFail, WorkerUnwind, WorkerLost, rowVars
<1>4. ASSUME (\E k \in Instance : ContainerGoes(k)) \/ Crash \/ UNCHANGED vars
      PROVE  UNCHANGED rowVars
    BY <1>4 DEF ContainerGoes, Crash, vars
<1> QED
    BY <1>1, <1>2, <1>3, <1>4 DEF Next, Operate, rowVars

\* A step that inserts no row keeps the plan.
LEMMA PlanKeeps ==
    ASSUME IInv, PlanInv, NeverDeleted' \subseteq NeverDeleted,
           \A i \in Instance : status[i] = "absent" => status'[i] = "absent",
           \A q \in Request : pc'[q] \in {"create_port", "create_insert"} =>
               \/ pc[q] \in {"create_port", "create_insert"} /\ target'[q] = target[q]
               \/ \E i \in Instance : CanAllocate(i) /\ target'[q] = i
    PROVE  PlanInv'
<1>1. {i \in Instance : status'[i] # "absent"} \in SUBSET {i \in Instance : status[i] # "absent"}
    OBVIOUS
<1>2. IsFiniteSet({i \in Instance : status[i] # "absent"}')
    BY <1>1, FS_Subset DEF PlanInv
<1>3. ASSUME NEW t \in Tenant, NEW x \in Resource PROVE Total(x, Kept(t)') <= Limit[x]
    <2>1. Total(x, Kept(t)) <= Limit[x] /\ Limit[x] \in Nat
        BY <1>3, InstanceAssumption DEF PlanInv
    <2> QED
        BY <2>1, PlanShrinks
<1>4. ASSUME NEW q \in Request, pc'[q] \in {"create_port", "create_insert"},
             NEW x \in Resource
      PROVE  \E i \in Instance :
                 target'[q] = i /\ Total(x, Kept(Owner[i])') + Need[i][x] <= Limit[x]
    <2>1. PICK i \in Instance :
              /\ target'[q] = i
              /\ Total(x, Kept(Owner[i])) + Need[i][x] <= Limit[x]
        <3>1. CASE pc[q] \in {"create_port", "create_insert"} /\ target'[q] = target[q]
            <4>1. target[q] \in Instance
                BY <3>1 DEF IInv, HandlerPhase
            <4> QED
                BY <1>4, <3>1, <4>1 DEF PlanInv
        <3>2. CASE \E i \in Instance : CanAllocate(i) /\ target'[q] = i
            BY <1>4, <3>2, CheckLeavesRoom
        <3> QED
            BY <1>4, <3>1, <3>2
    <2>2. /\ Total(x, Kept(Owner[i])') \in Nat
          /\ Total(x, Kept(Owner[i])) \in Nat
          /\ Total(x, Kept(Owner[i])') <= Total(x, Kept(Owner[i]))
        BY <1>4, PlanShrinks
    <2>3. Need[i][x] \in Nat /\ Limit[x] \in Nat
        BY <1>4, InstanceAssumption
    <2> QED
        BY <2>1, <2>2, <2>3
<1>5. \A q \in Request : pc'[q] \in {"create_port", "create_insert"} =>
          \A x \in Resource :
              Total(x, {j \in NeverDeleted' : Owner[j] = Owner[target'[q]]})
                  + Need[target'[q]][x] <= Limit[x]
    <2> SUFFICES ASSUME NEW q \in Request, pc'[q] \in {"create_port", "create_insert"},
                        NEW x \in Resource
                 PROVE  Total(x, {j \in NeverDeleted' : Owner[j] = Owner[target'[q]]})
                            + Need[target'[q]][x] <= Limit[x]
        OBVIOUS
    <2>1. PICK i \in Instance :
              target'[q] = i /\ Total(x, Kept(Owner[i])') + Need[i][x] <= Limit[x]
        BY <1>4
    <2>2. {j \in NeverDeleted' : Owner[j] = Owner[target'[q]]} = Kept(Owner[i])'
        BY <2>1 DEF Kept
    <2> QED
        BY <2>1, <2>2
<1>6. (\A t \in Tenant, x \in Resource : Total(x, Kept(t)) <= Limit[x])'
    BY <1>3 DEF Kept
<1>7. (\A q \in Request : pc[q] \in {"create_port", "create_insert"} =>
           \A x \in Resource :
               Total(x, Kept(Owner[target[q]])) + Need[target[q]][x] <= Limit[x])'
    BY <1>5 DEF Kept
<1> QED
    BY <1>2, <1>6, <1>7 DEF PlanInv

\* Every step keeps the plan.
LEMMA PlanStep ==
    ASSUME OneCreationPerTenant, IInv, PlanInv, [Next]_vars
    PROVE  PlanInv'
<1>1. CASE \E r \in Request : CreateInsert(r)
    BY <1>1, PlanInsert
<1>2. CASE ~(\E r \in Request : CreateInsert(r))
    <2>1. NeverDeleted' \subseteq NeverDeleted
        BY <1>2, NeverDeletedShrinks
    <2>2. \A i \in Instance : status[i] = "absent" => status'[i] = "absent"
        BY <1>2, NoNewRow
    <2> QED
        BY <2>1, <2>2, CreatingSince, PlanKeeps
<1> QED
    BY <1>1, <1>2

\* There is no row at the start.
LEMMA InitPlan == Init => PlanInv
<1> SUFFICES ASSUME Init PROVE PlanInv
    OBVIOUS
<1>1. {i \in Instance : status[i] # "absent"} = {} /\ \A t : Kept(t) = {}
    BY DEF Init, Kept, NeverDeleted, Live
<1>2. \A x \in Resource : Total(x, {}) = 0 /\ Limit[x] \in Nat
    BY TotalSplits, FS_EmptySet, InstanceAssumption
<1>3. \A r \in Request : pc[r] = "idle"
    BY DEF Init
<1> QED
    BY <1>1, <1>2, <1>3, FS_EmptySet DEF PlanInv

\* The rows that count are those the property counts.
LEMMA PlanTells == PlanInv => QuotaWhileNeverDeleted
BY DEF PlanInv, Kept, Total, QuotaWhileNeverDeleted

\* The creations of a tenant one at a time: its rows that no delete has touched
\* fit its plan, whatever other requests, provisioning tasks, faults and
\* restarts interleave.
THEOREM PlanIsKept == Spec /\ []OneCreationPerTenant => []QuotaWhileNeverDeleted
<1>1. OneCreationPerTenant /\ IInv /\ PlanInv /\ [Next]_vars => PlanInv'
    BY PlanStep
<1> QED
    BY <1>1, InitPlan, PlanTells, Invariance, PTL DEF Spec
=============================================================================
