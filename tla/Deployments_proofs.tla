------------------------- MODULE Deployments_proofs -------------------------
(***************************************************************************)
(* What holds of deployments for any sets of deployments and deletes and   *)
(* any bounds.                                                             *)
(*                                                                         *)
(* The argument, in two invariants.  BookInv: a pipeline at work has its   *)
(* record in memory, and the flag of a delete is never taken back, so no   *)
(* checkpoint after a delete goes on.  HostInv, which needs it: what is on *)
(* the host belongs to a worker that is still on its way to it, to a       *)
(* record, or to an error that says so.                                    *)
(***************************************************************************)
EXTENDS Deployments, SequenceTheorems, TLAPS

Early == {"queued", "clone", "scan"}
InAttempt == {"generate", "write", "build", "run", "listen", "put_conf", "reload",
              "configured", "abort"}
Publishing == {"put_conf", "reload", "configured"}

\* A record no memory and no row may contradict: within its bounds, and not
\* "running" too early or too late.
Sound(rec) ==
    /\ rec \in Record
    /\ Len(rec.attempts) <= MaxAttempts
    /\ rec.status = "running" => rec.held /\ rec.url /\ ~rec.cancel

Shown ==
    \A d \in Deployment :
        /\ records[d] # NoRecord => Sound(records[d])
        /\ rows[d] # NoRecord => Sound(rows[d])

\* What the record of a pipeline at `label` says.
Fits(label, rec) ==
    /\ rec # NoRecord
    /\ rec.status # "running"
    /\ ~rec.cancel => rec.status # "failed" /\ (label \in Publishing => rec.held)
    /\ label \in CleanupPcs => rec.cancel
    /\ label \in Early => rec.attempts = <<>>
    /\ label \in InAttempt => rec.attempts # <<>>

\* A pipeline at work has its record in memory.
AtWork ==
    \A d \in Deployment :
        /\ pc[d] = "none" => records[d] = NoRecord /\ rows[d] = NoRecord
        /\ Working(d) => Fits(pc[d], records[d])

\* A delete at work has set the flag of its record in memory.
Deleting ==
    \A w \in Deleter : pc[w] # "idle" =>
        target[w] \in Deployment /\ records[target[w]] # NoRecord /\ records[target[w]].cancel

\* What memory and the database know of each other.
InStep ==
    /\ lost = 0 => \A d \in Deployment : records[d] # NoRecord => records[d] = rows[d]
    /\ crashes = 0 => \A d \in Deployment : rows[d] # NoRecord => records[d] # NoRecord
    /\ crashes = 0 => \A d \in Deployment : pc[d] # "killed"

\* What a pipeline nobody has cancelled has built is there.
BuiltAt(d) ==
    /\ Known(d) /\ Visible(d).status = "running" =>
           container[d] = "running" /\ d \in images \cap conf \cap served
    /\ Working(d) /\ ~records[d].cancel =>
           /\ pc[d] \in {"run", "listen"} \cup Publishing => d \in images
           /\ pc[d] \in Publishing => container[d] = "running"
           /\ pc[d] \in {"reload", "configured"} => d \in conf
           /\ pc[d] = "configured" => d \in served

\* A delete of d is at one of these points.
DeleteAt(d, at) == \E w \in Deleter : target[w] = d /\ pc[w] \in at

\* A container is one a pipeline is at work on, one that its last error left, or
\* one in the record: and then, once a delete has begun, somebody will remove it.
ContainerAt(d) ==
    /\ pc[d] \in {"none", "generate", "write", "build", "run"} \cup Early =>
           container[d] = "none"
    /\ container[d] # "none" =>
       \/ pc[d] \in {"listen", "abort", "rm_container", "killed"}
       \/ Broken(d)
       \/ /\ Known(d) /\ Visible(d).held
          /\ pc[d] \notin CleanupPcs /\ ~DeleteAt(d, CleanupPcs \ {"rm_container"})
          /\ Visible(d).cancel /\ crashes = 0 => DeleteAt(d, {"rm_container"})

\* The same of an image, and of a server block, which no record names: a
\* delete passes by it whatever is recorded.
ImageAt(d) ==
    /\ pc[d] \in {"none", "generate", "write", "build"} \cup Early => d \notin images
    /\ d \in images =>
       \/ pc[d] \in {"run", "listen", "abort", "rm_container", "rm_image"}
       \/ Broken(d)
       \/ /\ Known(d)
          /\ IF Visible(d).cancel
             THEN DeleteAt(d, {"rm_container", "rm_image"})
             ELSE Visible(d).held

RouteAt(d) ==
    /\ pc[d] \in {"none", "generate", "write", "build", "run", "listen", "put_conf"} \cup Early =>
           d \notin conf
    /\ d \in conf =>
       \/ pc[d] \in {"reload", "configured", "abort", "rm_container", "rm_image", "rm_conf"}
       \/ Broken(d)
       \/ /\ Known(d)
          /\ Visible(d).cancel => DeleteAt(d, {"rm_container", "rm_image", "rm_conf"})

\* All of this as long as no call fails: what was built stands whatever is
\* restarted, as long as no write is lost; who cleans up is gone after a restart.
HostAt(d) ==
    /\ faults = 0 /\ lost = 0 => BuiltAt(d)
    /\ faults = 0 /\ (lost = 0 \/ crashes = 0) => ContainerAt(d)
    /\ faults = 0 /\ crashes = 0 => ImageAt(d) /\ RouteAt(d)

HostInv == \A d \in Deployment : HostAt(d)

BookInv == DeploymentTypeOK /\ Shown /\ AtWork /\ Deleting /\ InStep

-----------------------------------------------------------------------------
(* Records.                                                                *)

\* The last attempt of a record is closed, and nothing else changes.
LEMMA AttemptClosed ==
    ASSUME NEW rec \in Record, rec.attempts # <<>>, NEW s \in AttemptStatuses
    PROVE  LET new == WithAttempt(rec, s) IN
           /\ new \in Record
           /\ new.attempts # <<>>
           /\ LastAttempt(new) = s
           /\ Len(new.attempts) = Len(rec.attempts)
           /\ new.status = rec.status
           /\ new.held = rec.held
           /\ new.url = rec.url
           /\ new.cancel = rec.cancel
<1> DEFINE seq == [rec.attempts EXCEPT ![Len(rec.attempts)] = s]
<1>1. rec.attempts \in Seq(AttemptStatuses)
  BY DEF Record
<1>2. Len(rec.attempts) \in 1 .. Len(rec.attempts)
  BY <1>1, EmptySeq, LenProperties
<1>3. /\ seq \in Seq(AttemptStatuses)
      /\ Len(seq) = Len(rec.attempts)
  BY <1>1, <1>2, ExceptSeq
<1>4. seq # <<>> /\ seq[Len(seq)] = s
  BY <1>1, <1>2, <1>3
<1>5. WithAttempt(rec, s) = [rec EXCEPT !.attempts = seq]
  BY DEF WithAttempt, Record
<1> HIDE DEF seq
<1>6. QED
  BY <1>3, <1>4, <1>5 DEF LastAttempt, Record

\* A new attempt is added, and the status changes.
LEMMA AttemptAdded ==
    ASSUME NEW rec \in Record
    PROVE  LET new == WithNewAttempt(rec) IN
           /\ new \in Record
           /\ new.attempts # <<>>
           /\ LastAttempt(new) = "running"
           /\ Len(new.attempts) = Len(rec.attempts) + 1
           /\ new.status = "generating_dockerfile"
           /\ new.held = rec.held
           /\ new.url = rec.url
           /\ new.cancel = rec.cancel
<1> DEFINE seq == Append(rec.attempts, "running")
<1>1. rec.attempts \in Seq(AttemptStatuses)
  BY DEF Record
<1>2. /\ seq \in Seq(AttemptStatuses)
      /\ Len(seq) = Len(rec.attempts) + 1
      /\ seq[Len(seq)] = "running"
  BY <1>1, AppendProperties DEF AttemptStatuses
<1>3. seq # <<>>
  BY <1>1, <1>2, LenProperties
<1>4. WithNewAttempt(rec) = [rec EXCEPT !.status = "generating_dockerfile", !.attempts = seq]
  BY DEF WithNewAttempt
<1> HIDE DEF seq
<1>5. QED
  BY <1>2, <1>3, <1>4 DEF LastAttempt, Record, Statuses

-----------------------------------------------------------------------------
(* Writes.                                                                 *)

\* A write changes one record, and its row if it is not lost.
LEMMA Saved ==
    ASSUME BookInv, NEW d \in Deployment, NEW rec, Sound(rec), Save(d, rec)
    PROVE  /\ records' = [records EXCEPT ![d] = rec]
           /\ records' \in [Deployment -> Record \cup {NoRecord}]
           /\ rows' \in [Deployment -> Record \cup {NoRecord}]
           /\ \A e \in Deployment \ {d} : rows'[e] = rows[e]
           /\ rows'[d] # NoRecord => Sound(rows'[d])
           /\ lost' \in 0 .. MaxLost
           /\ lost' = 0 => lost = 0 /\ rows'[d] = rec
           /\ Shown'
<1> USE DEF BookInv, DeploymentTypeOK, Sound
<1>1. rec \in Record /\ rec # NoRecord
  BY RecordAssumption
<1>2. records' = [records EXCEPT ![d] = rec] /\ records' \in [Deployment -> Record \cup {NoRecord}]
  BY <1>1 DEF Save
<1>3. \A old \in Stale(d, rec) : old # NoRecord => Sound(old)
  <2> SUFFICES ASSUME NEW old \in Stale(d, rec), old # NoRecord
               PROVE  Sound(old)
    OBVIOUS
  <2> DEFINE seq == IF rows[d] = NoRecord THEN <<>> ELSE rows[d].attempts
  <2>1. CASE old = rows[d]
    BY <2>1 DEF Shown
  <2>2. CASE old = [rec EXCEPT !.attempts = seq]
    <3>1. seq \in Seq(AttemptStatuses) /\ Len(seq) <= MaxAttempts
      BY EmptySeq, DeploymentAssumption DEF Shown, Record
    <3> HIDE DEF seq
    <3>2. QED
      BY <1>1, <2>2, <3>1 DEF Record
  <2>3. QED
    BY <2>1, <2>2 DEF Stale
<1>4. CASE rows' = [rows EXCEPT ![d] = rec] /\ UNCHANGED lost
  BY <1>1, <1>2, <1>4 DEF Shown
<1>5. CASE /\ lost < MaxLost
           /\ lost' = lost + 1
           /\ \E old \in Stale(d, rec) : rows' = [rows EXCEPT ![d] = old]
  <2>1. PICK old \in Stale(d, rec) : rows' = [rows EXCEPT ![d] = old]
    BY <1>5
  <2>2. old = NoRecord \/ Sound(old)
    BY <1>3
  <2>3. lost' \in 0 .. MaxLost /\ lost' # 0
    BY <1>5, DeploymentAssumption
  <2> HIDE DEF Sound
  <2>4. old \in Record \cup {NoRecord}
    BY <2>2 DEF Sound
  <2>5. QED
    BY <1>1, <1>2, <2>1, <2>2, <2>3, <2>4 DEF Shown
<1>6. QED
  BY <1>4, <1>5 DEF Save

\* The types, after a step, of where the workers are and of the host.
PlaceTypes ==
    /\ pc' \in [Worker -> PipelinePcs \cup DeleterPcs]
    /\ \A d \in Deployment : pc'[d] \in PipelinePcs
    /\ \A w \in Deleter : pc'[w] \in DeleterPcs
    /\ target' \in [Deleter -> Deployment \cup {NoDeployment}]

HostTypes ==
    /\ container' \in [Deployment -> {"none", "stopped", "running"}]
    /\ (images \cup conf \cup served)' \subseteq Deployment
    /\ faults' \in 0 .. MaxFaults
    /\ crashes' \in 0 .. MaxCrashes

\* A step that writes rec for d: what is left to show is about d alone.
LEMMA WriteKeeps ==
    ASSUME BookInv, PlaceTypes, HostTypes,
           NEW d \in Deployment, NEW rec, Sound(rec), Save(d, rec),
           \A e \in Deployment \ {d} : pc'[e] = pc[e],
           pc'[d] # "none",
           pc'[d] = "killed" => pc[d] = "killed",
           pc'[d] \notin {"done", "killed"} => Fits(pc'[d], rec),
           records[d] # NoRecord /\ records[d].cancel => rec.cancel,
           \A w \in Deleter : pc'[w] # "idle" =>
               \/ pc[w] # "idle" /\ target'[w] = target[w]
               \/ target'[w] = d /\ rec.cancel,
           crashes' = crashes
    PROVE  BookInv'
<1>1. rec # NoRecord
  BY RecordAssumption DEF Sound
<1>2. /\ records' = [records EXCEPT ![d] = rec]
      /\ records' \in [Deployment -> Record \cup {NoRecord}]
      /\ rows' \in [Deployment -> Record \cup {NoRecord}]
      /\ \A e \in Deployment \ {d} : rows'[e] = rows[e]
      /\ lost' \in 0 .. MaxLost
      /\ lost' = 0 => lost = 0 /\ rows'[d] = rec
      /\ Shown'
  BY Saved
<1>3. /\ records'[d] = rec
      /\ \A e \in Deployment \ {d} : records'[e] = records[e]
  BY <1>2 DEF BookInv, DeploymentTypeOK
<1>4. DeploymentTypeOK'
  BY <1>2 DEF DeploymentTypeOK, PlaceTypes, HostTypes, Shown, Sound
<1>5. AtWork'
  BY <1>2, <1>3 DEF BookInv, AtWork, Working
<1>6. Deleting'
  BY <1>1, <1>3 DEF BookInv, Deleting
<1>7. InStep'
  BY <1>1, <1>2, <1>3 DEF BookInv, InStep
<1>8. QED
  BY <1>2, <1>4, <1>5, <1>6, <1>7 DEF BookInv

\* A step that writes nothing: what is left to show is where the workers are.
LEMMA QuietKeeps ==
    ASSUME BookInv, PlaceTypes, HostTypes, UNCHANGED bookVars,
           \A e \in Deployment :
               \/ pc'[e] = pc[e]
               \/ pc'[e] = "done"
               \/ pc'[e] \notin {"none", "killed"} /\ Fits(pc'[e], records[e]),
           \A w \in Deleter : pc'[w] # "idle" =>
               pc[w] # "idle" /\ target'[w] = target[w],
           crashes' = crashes
    PROVE  BookInv'
<1>1. records' = records /\ rows' = rows /\ lost' = lost
  BY DEF bookVars
<1>2. Shown'
  BY <1>1 DEF BookInv, Shown
<1>3. DeploymentTypeOK'
  BY <1>1 DEF BookInv, DeploymentTypeOK, PlaceTypes, HostTypes
<1>4. AtWork'
  BY <1>1 DEF BookInv, AtWork, Working
<1>5. Deleting' /\ InStep'
  BY <1>1 DEF BookInv, Deleting, InStep
<1>6. QED
  BY <1>2, <1>3, <1>4, <1>5 DEF BookInv

-----------------------------------------------------------------------------
(* The pipeline.                                                           *)

LEMMA BookInit == Init => BookInv
<1> SUFFICES ASSUME Init PROVE BookInv
  OBVIOUS
<1>1. \A w \in Worker : pc[w] = IF w \in Deployment THEN "none" ELSE "idle"
  BY DEF Init
<1>2. pc \in [Worker -> PipelinePcs \cup DeleterPcs]
  BY DEF Init, PipelinePcs, DeleterPcs
<1>3. (\A d \in Deployment : pc[d] = "none") /\ (\A w \in Deleter : pc[w] = "idle")
  BY <1>1, DeploymentAssumption DEF Worker
<1>4. DeploymentTypeOK
  <2>1. /\ records \in [Deployment -> Record \cup {NoRecord}]
        /\ rows \in [Deployment -> Record \cup {NoRecord}]
        /\ \A d \in Deployment : records[d] = NoRecord /\ rows[d] = NoRecord
    BY DEF Init
  <2>2. /\ \A d \in Deployment : pc[d] \in PipelinePcs
        /\ \A w \in Deleter : pc[w] \in DeleterPcs
    BY <1>3 DEF PipelinePcs, DeleterPcs
  <2>3. /\ target \in [Deleter -> Deployment \cup {NoDeployment}]
        /\ container \in [Deployment -> {"none", "stopped", "running"}]
        /\ images \cup conf \cup served \subseteq Deployment
    BY DEF Init
  <2>4. faults \in 0 .. MaxFaults /\ lost \in 0 .. MaxLost /\ crashes \in 0 .. MaxCrashes
    BY DeploymentAssumption DEF Init
  <2>5. QED
    BY <1>2, <2>1, <2>2, <2>3, <2>4 DEF DeploymentTypeOK
<1>5. Shown /\ AtWork /\ Deleting /\ InStep
  BY <1>3 DEF Init, Shown, AtWork, Working, Deleting, InStep
<1>6. QED
  BY <1>4, <1>5 DEF BookInv

\* What an action knows of the deployment it starts from.
LEMMA AtWorkFacts ==
    ASSUME BookInv, NEW d \in Deployment, Working(d)
    PROVE  /\ records[d] \in Record
           /\ Sound(records[d])
           /\ Fits(pc[d], records[d])
           /\ pc[d] # "none"
BY DEF BookInv, DeploymentTypeOK, Shown, AtWork, Working, Fits

LEMMA PipelineGoes ==
    ASSUME BookInv, NEW d \in Deployment, NEW label \in PipelinePcs,
           Goto(d, label), UNCHANGED target
    PROVE  /\ PlaceTypes
           /\ pc'[d] = label
           /\ \A e \in Deployment \ {d} : pc'[e] = pc[e]
           /\ \A w \in Deleter : pc'[w] = pc[w]
<1>1. d \in Worker /\ d \notin Deleter
  BY DeploymentAssumption DEF Worker
<1>2. Deployment \subseteq Worker /\ Deleter \subseteq Worker
  BY DEF Worker
<1>3. pc' = [pc EXCEPT ![d] = label] /\ pc \in [Worker -> PipelinePcs \cup DeleterPcs]
  BY DEF Goto, BookInv, DeploymentTypeOK
<1>4. QED
  BY <1>1, <1>2, <1>3 DEF PlaceTypes, BookInv, DeploymentTypeOK

LEMMA PipelineWrites ==
    ASSUME BookInv, NEW d \in Deployment, NEW label \in PipelinePcs \ {"none", "killed"},
           NEW rec, Sound(rec), Save(d, rec), Goto(d, label),
           label # "done" => Fits(label, rec),
           records[d] # NoRecord /\ records[d].cancel => rec.cancel,
           UNCHANGED <<target, hostVars, faults, crashes>>
    PROVE  BookInv'
<1>1. /\ PlaceTypes
      /\ pc'[d] = label
      /\ \A e \in Deployment \ {d} : pc'[e] = pc[e]
      /\ \A w \in Deleter : pc'[w] = pc[w]
  BY PipelineGoes
<1>2. HostTypes
  BY DEF HostTypes, hostVars, BookInv, DeploymentTypeOK
<1>3. QED
  BY <1>1, <1>2, WriteKeeps

LEMMA PipelineMoves ==
    ASSUME BookInv, NEW d \in Deployment, NEW label \in PipelinePcs \ {"none", "killed"},
           Goto(d, label),
           label # "done" => Fits(label, records[d]),
           UNCHANGED <<bookVars, target, crashes>>, HostTypes
    PROVE  BookInv'
<1>1. /\ PlaceTypes
      /\ pc'[d] = label
      /\ \A e \in Deployment \ {d} : pc'[e] = pc[e]
      /\ \A w \in Deleter : pc'[w] = pc[w]
  BY PipelineGoes
<1>2. QED
  BY <1>1, QuietKeeps

\* The head of a cleanup.
LEMMA CleanupFits ==
    ASSUME NEW label, NEW rec, Fits(label, rec), rec.cancel
    PROVE  /\ CleanupFrom(rec) \in PipelinePcs \ {"none", "killed"}
           /\ Fits(CleanupFrom(rec), rec)
BY DEF Fits, CleanupFrom, CleanupPcs, PipelinePcs, Early, InAttempt, Publishing

LEMMA HostSame ==
    ASSUME BookInv, UNCHANGED <<hostVars, faults, crashes>>
    PROVE  HostTypes
BY DEF HostTypes, hostVars, BookInv, DeploymentTypeOK

LEMMA Faulty ==
    ASSUME BookInv, Fault
    PROVE  faults' \in 0 .. MaxFaults /\ faults' # 0
BY DeploymentAssumption DEF Fault, BookInv, DeploymentTypeOK

\* What the pipeline of d does to its record: it writes rec and goes to label...
Ends(rec) == rec.attempts # <<>> /\ LastAttempt(rec) = "failed"

Advances(d, rec, label) ==
    /\ Sound(rec) /\ Save(d, rec) /\ Goto(d, label)
    /\ label \in {"clone", "scan", "generate", "write", "build", "put_conf", "done"} \cup CleanupPcs
    /\ label # "done" => Fits(label, rec)
    /\ rec.cancel = records[d].cancel
    /\ pc[d] \in {"generate", "write", "build", "listen", "abort", "configured"} \cup Early
    /\ label = "put_conf" => pc[d] = "listen"
    /\ rec.status = "running" => pc[d] = "configured"
    /\ pc[d] = "abort" => Ends(rec) /\ label = "done"
    /\ pc[d] = "listen" =>
           \/ Ends(rec) /\ label = "done"
           \/ /\ rec.held /\ container[d] = "running"
              /\ label = IF rec.cancel THEN "rm_container" ELSE "put_conf"
    /\ pc[d] = "configured" =>
           ~rec.cancel /\ rec.held /\ rec.attempts = records[d].attempts /\ label = "done"
    /\ UNCHANGED <<target, hostVars, faults, crashes>>

\* ... or finds its flag set at a checkpoint.
TurnsBack(d) ==
    /\ records[d].cancel
    /\ pc[d] \in {"write", "configured"} \cup Early
    /\ Goto(d, CleanupFrom(records[d]))
    /\ UNCHANGED <<bookVars, target, hostVars, faults, crashes>>

Effect(d) == TurnsBack(d) \/ \E rec, label : Advances(d, rec, label)

LEMMA EffectKeeps ==
    ASSUME BookInv, NEW d \in Deployment, Effect(d)
    PROVE  BookInv'
<1>1. CASE TurnsBack(d)
  <2>1. Working(d)
    BY <1>1 DEF TurnsBack, Working, Early
  <2>2. Fits(pc[d], records[d])
    BY <2>1, AtWorkFacts
  <2>3. HostTypes
    BY <1>1, HostSame DEF TurnsBack
  <2>4. QED
    BY <1>1, <2>2, <2>3, CleanupFits, PipelineMoves DEF TurnsBack
<1>2. CASE \E rec, label : Advances(d, rec, label)
  <2>1. PICK rec, label : Advances(d, rec, label)
    BY <1>2
  <2>2. label \in PipelinePcs \ {"none", "killed"}
    BY <2>1 DEF Advances, PipelinePcs, CleanupPcs
  <2>3. QED
    BY <2>1, <2>2, PipelineWrites DEF Advances
<1>3. QED
  BY <1>1, <1>2 DEF Effect

\* A checkpoint.
LEMMA ContinueEffect ==
    ASSUME BookInv, NEW d \in Deployment,
           pc[d] \in {"write", "configured"} \cup Early,
           NEW label \in {"clone", "scan", "generate", "build", "done"},
           NEW rec,
           rec.cancel = records[d].cancel,
           ~rec.cancel => Sound(rec),
           ~rec.cancel /\ label # "done" => Fits(label, rec),
           rec.status = "running" => pc[d] = "configured",
           ~rec.cancel /\ pc[d] = "configured" =>
               rec.held /\ rec.attempts = records[d].attempts /\ label = "done",
           Continue(d, rec, label), UNCHANGED <<target, hostVars, faults, crashes>>
    PROVE  Effect(d)
<1>1. Working(d)
  BY DEF Working, Early
<1>2. records[d] \in Record
  BY <1>1, AtWorkFacts
<1>3. CASE records[d].cancel
  BY <1>3 DEF Continue, Effect, TurnsBack
<1>4. CASE ~records[d].cancel
  <2>1. Advances(d, rec, label)
    BY <1>4 DEF Continue, Advances, Early
  <2>2. QED
    BY <2>1 DEF Effect
<1>5. QED
  BY <1>3, <1>4

\* A record whose fields an action has set.
LEMMA SoundStatus ==
    ASSUME NEW rec, Sound(rec), NEW s \in Statuses \ {"running"}
    PROVE  LET new == [rec EXCEPT !.status = s] IN
           /\ Sound(new)
           /\ new.status = s
           /\ new.held = rec.held
           /\ new.url = rec.url
           /\ new.cancel = rec.cancel
           /\ new.attempts = rec.attempts
BY DEF Sound, Record

LEMMA SoundAttempt ==
    ASSUME NEW rec, Sound(rec), rec.attempts # <<>>, NEW s \in AttemptStatuses
    PROVE  LET new == WithAttempt(rec, s) IN
           /\ Sound(new)
           /\ new.attempts # <<>>
           /\ LastAttempt(new) = s
           /\ Len(new.attempts) = Len(rec.attempts)
           /\ new.status = rec.status
           /\ new.held = rec.held
           /\ new.url = rec.url
           /\ new.cancel = rec.cancel
BY AttemptClosed DEF Sound

LEMMA SoundNewAttempt ==
    ASSUME NEW rec, Sound(rec), Len(rec.attempts) < MaxAttempts
    PROVE  LET new == WithNewAttempt(rec) IN
           /\ Sound(new)
           /\ new.attempts # <<>>
           /\ LastAttempt(new) = "running"
           /\ new.status = "generating_dockerfile"
           /\ new.held = rec.held
           /\ new.url = rec.url
           /\ new.cancel = rec.cancel
<1>1. Len(rec.attempts) \in Nat
  BY LenProperties DEF Sound, Record
<1>2. Len(rec.attempts) + 1 <= MaxAttempts
  BY <1>1, DeploymentAssumption
<1>3. QED
  BY <1>2, AttemptAdded DEF Sound

LEMMA RequestKeeps ==
    ASSUME BookInv, NEW d \in Deployment, RequestDeployment(d)
    PROVE  BookInv'
<1> DEFINE rec == [status |-> "analyzing", held |-> FALSE, url |-> FALSE,
                   cancel |-> FALSE, attempts |-> <<>>]
<1>1. rec \in Record /\ Len(rec.attempts) = 0
  BY EmptySeq DEF Record, Statuses
<1>2. Sound(rec)
  BY <1>1, DeploymentAssumption DEF Sound
<1>3. Fits("queued", rec)
  BY <1>1, RecordAssumption DEF Fits, CleanupPcs, InAttempt, Publishing
<1>4. records[d] = NoRecord
  BY DEF RequestDeployment, BookInv, AtWork
<1>5. "queued" \in PipelinePcs \ {"none", "killed"}
  BY DEF PipelinePcs
<1> HIDE DEF rec
<1>6. Save(d, rec) /\ Goto(d, "queued") /\ UNCHANGED <<target, hostVars, faults, crashes>>
  BY DEF RequestDeployment, rec
<1>7. QED
  BY <1>2, <1>3, <1>4, <1>5, <1>6, PipelineWrites

\* Steps that only pass a checkpoint.
LEMMA CheckpointEffect ==
    ASSUME BookInv, NEW d \in Deployment,
           PipelineBegin(d) \/ Cloned(d) \/ Scanned(d) \/ Written(d) \/ Configured(d)
    PROVE  Effect(d)
<1>1. Working(d)
  BY DEF PipelineBegin, Cloned, Scanned, Written, Configured, Working
<1>2. Sound(records[d]) /\ Fits(pc[d], records[d]) /\ records[d] \in Record
  BY <1>1, AtWorkFacts
<1>3. pc[d] \in {"write", "configured"} \cup Early
  BY DEF PipelineBegin, Cloned, Scanned, Written, Configured, Early
<1>4. CASE PipelineBegin(d)
  <2> DEFINE rec == [records[d] EXCEPT !.status = "cloning"]
  <2>1. Sound(rec) /\ rec.cancel = records[d].cancel
        /\ rec.status = "cloning" /\ rec.attempts = records[d].attempts
    BY <1>2, SoundStatus DEF Statuses
  <2>2. Fits("clone", rec)
    BY <1>2, <1>4, <2>1, RecordAssumption
       DEF PipelineBegin, Fits, Early, InAttempt, CleanupPcs, Publishing, Sound
  <2> HIDE DEF rec
  <2>3. Continue(d, rec, "clone") /\ UNCHANGED <<target, hostVars, faults, crashes>>
    BY <1>4 DEF PipelineBegin, rec
  <2>4. QED
    BY <1>4, <1>1, <1>3, <2>1, <2>2, <2>3, ContinueEffect DEF PipelineBegin
<1>5. CASE Cloned(d)
  <2> DEFINE rec == [records[d] EXCEPT !.status = "analyzing"]
  <2>1. Sound(rec) /\ rec.cancel = records[d].cancel
        /\ rec.status = "analyzing" /\ rec.attempts = records[d].attempts
    BY <1>2, SoundStatus DEF Statuses
  <2>2. Fits("scan", rec)
    BY <1>2, <1>5, <2>1, RecordAssumption
       DEF Cloned, Fits, Early, InAttempt, CleanupPcs, Publishing, Sound
  <2> HIDE DEF rec
  <2>3. Continue(d, rec, "scan") /\ UNCHANGED <<target, hostVars, faults, crashes>>
    BY <1>5 DEF Cloned, rec
  <2>4. QED
    BY <1>5, <1>1, <1>3, <2>1, <2>2, <2>3, ContinueEffect DEF Cloned
<1>6. CASE Scanned(d)
  <2> DEFINE rec == WithNewAttempt(records[d])
  <2>1. records[d].attempts = <<>>
    BY <1>2, <1>6 DEF Scanned, Fits, Early
  <2>2. Len(records[d].attempts) < MaxAttempts
    BY <2>1, DeploymentAssumption, EmptySeq
  <2>3. Sound(rec) /\ rec.cancel = records[d].cancel
        /\ rec.status = "generating_dockerfile" /\ rec.attempts # <<>>
    BY <1>2, <2>2, SoundNewAttempt
  <2> HIDE DEF rec
  <2>4. Fits("generate", rec)
    BY <2>3, RecordAssumption DEF Fits, Early, CleanupPcs, Publishing, Sound
  <2>5. Continue(d, rec, "generate") /\ UNCHANGED <<target, hostVars, faults, crashes>>
    BY <1>6 DEF Scanned, rec
  <2>6. QED
    BY <1>6, <1>1, <1>3, <2>3, <2>4, <2>5, ContinueEffect DEF Scanned
<1>7. CASE Written(d)
  <2> DEFINE rec == [records[d] EXCEPT !.status = "building"]
  <2>1. Sound(rec) /\ rec.cancel = records[d].cancel
        /\ rec.status = "building" /\ rec.attempts = records[d].attempts
    BY <1>2, SoundStatus DEF Statuses
  <2>2. Fits("build", rec)
    BY <1>2, <1>7, <2>1, RecordAssumption
       DEF Written, Fits, Early, InAttempt, CleanupPcs, Publishing, Sound
  <2> HIDE DEF rec
  <2>3. Continue(d, rec, "build") /\ UNCHANGED <<target, hostVars, faults, crashes>>
    BY <1>7 DEF Written, rec
  <2>4. QED
    BY <1>7, <1>1, <1>3, <2>1, <2>2, <2>3, ContinueEffect DEF Written
<1>8. CASE Configured(d)
  <2> DEFINE rec == [records[d] EXCEPT !.status = "running", !.url = TRUE]
  <2>1. rec.cancel = records[d].cancel /\ rec.held = records[d].held
        /\ rec.attempts = records[d].attempts
    BY <1>2 DEF Record
  <2>2. ~rec.cancel => records[d].held
    BY <1>2, <1>8, <2>1 DEF Configured, Fits, Publishing
  <2>3. ~rec.cancel => Sound(rec)
    BY <1>2, <2>1, <2>2 DEF Sound, Record, Statuses
  <2> HIDE DEF rec
  <2>4. Continue(d, rec, "done") /\ UNCHANGED <<target, hostVars, faults, crashes>>
    BY <1>8 DEF Configured, rec
  <2>5. QED
    BY <1>1, <1>3, <2>1, <2>3, <2>4, <1>8, <2>2, ContinueEffect DEF Configured
<1>9. QED
  BY <1>4, <1>5, <1>6, <1>7, <1>8

\* The last handler of the pipeline.
LEMMA FailEffect ==
    ASSUME BookInv, NEW d \in Deployment, NEW rec, Sound(rec),
           pc[d] \in {"clone", "scan", "generate", "write", "build", "listen", "abort"},
           rec.cancel = records[d].cancel,
           pc[d] \in {"listen", "abort"} => Ends(rec),
           Fail(d, rec), UNCHANGED <<target, hostVars, faults, crashes>>
    PROVE  Effect(d)
<1> DEFINE new == [rec EXCEPT !.status = "failed"]
<1>1. Sound(new) /\ new.cancel = rec.cancel /\ new.status = "failed" /\ new.attempts = rec.attempts
  BY SoundStatus DEF Statuses
<1> HIDE DEF new
<1>2. Save(d, new) /\ Goto(d, "done")
  BY DEF Fail, new
<1>3. Ends(rec) => Ends(new)
  BY <1>1 DEF Ends, LastAttempt
<1>4. Advances(d, new, "done")
  BY <1>1, <1>2, <1>3 DEF Advances, Early
<1>5. QED
  BY <1>4 DEF Effect

LEMMA FailureEffect ==
    ASSUME BookInv, NEW d \in Deployment, EarlyFailure(d) \/ AttemptFailure(d)
    PROVE  Effect(d)
<1>1. Working(d)
  BY DEF EarlyFailure, AttemptFailure, Working
<1>2. Sound(records[d]) /\ Fits(pc[d], records[d])
  BY <1>1, AtWorkFacts
<1>3. CASE EarlyFailure(d)
  BY <1>2, <1>3, FailEffect DEF EarlyFailure
<1>4. CASE AttemptFailure(d)
  <2>1. records[d].attempts # <<>>
    BY <1>2, <1>4 DEF AttemptFailure, Fits, InAttempt
  <2>2. Sound(WithAttempt(records[d], "failed"))
        /\ WithAttempt(records[d], "failed").cancel = records[d].cancel
        /\ Ends(WithAttempt(records[d], "failed"))
    BY <1>2, <2>1, SoundAttempt DEF AttemptStatuses, Ends
  <2>3. QED
    BY <1>4, <2>2, FailEffect DEF AttemptFailure
<1>5. QED
  BY <1>3, <1>4

LEMMA GeneratedEffect ==
    ASSUME BookInv, NEW d \in Deployment, Generated(d)
    PROVE  Effect(d)
<1> DEFINE rec == WithAttempt(records[d], "dockerfile_generated")
<1>1. Working(d)
  BY DEF Generated, Working
<1>2. Sound(records[d]) /\ Fits("generate", records[d])
  BY <1>1, AtWorkFacts DEF Generated
<1>3. /\ Sound(rec)
      /\ rec.attempts # <<>>
      /\ rec.status = records[d].status
      /\ rec.cancel = records[d].cancel
  BY <1>2, SoundAttempt DEF AttemptStatuses, Fits, InAttempt
<1>4. Fits("write", rec)
  BY <1>2, <1>3, RecordAssumption DEF Fits, Early, CleanupPcs, Publishing, Sound
<1> HIDE DEF rec
<1>5. /\ Save(d, rec) /\ Goto(d, "write") /\ pc[d] = "generate"
      /\ UNCHANGED <<target, hostVars, faults, crashes>>
  BY DEF Generated, rec
<1>6. Advances(d, rec, "write")
  BY <1>2, <1>3, <1>4, <1>5 DEF Advances, Fits
<1>7. QED
  BY <1>6 DEF Effect

LEMMA BuildFailedEffect ==
    ASSUME BookInv, NEW d \in Deployment, BuildFailed(d)
    PROVE  Effect(d)
<1> DEFINE rec == WithAttempt(records[d], "build_failed")
           again == [rec EXCEPT !.status = "retrying"]
<1>1. Working(d)
  BY DEF BuildFailed, Working
<1>2. Sound(records[d]) /\ Fits("build", records[d])
  BY <1>1, AtWorkFacts DEF BuildFailed
<1>3. /\ Sound(rec)
      /\ rec.attempts # <<>>
      /\ rec.status = records[d].status
      /\ rec.cancel = records[d].cancel
  BY <1>2, SoundAttempt DEF AttemptStatuses, Fits, InAttempt
<1> HIDE DEF rec
<1>4. /\ Sound(again)
      /\ again.status = "retrying"
      /\ again.cancel = rec.cancel
      /\ again.held = rec.held
      /\ again.attempts = rec.attempts
  BY <1>3, SoundStatus DEF Statuses
<1> HIDE DEF again
<1>5. /\ IF Len(rec.attempts) >= MaxAttempts
         THEN Fail(d, rec)
         ELSE IF rec.cancel
              THEN Save(d, again) /\ Goto(d, CleanupFrom(rec))
              ELSE Save(d, WithNewAttempt(again)) /\ Goto(d, "generate")
      /\ UNCHANGED <<target, hostVars, faults, crashes>>
  BY DEF BuildFailed, rec, again
<1>6. CASE Len(rec.attempts) >= MaxAttempts
  BY <1>3, <1>5, <1>6, FailEffect DEF BuildFailed
<1>7. CASE ~(Len(rec.attempts) >= MaxAttempts) /\ rec.cancel
  <2>1. CleanupFrom(rec) = CleanupFrom(again)
    BY <1>4 DEF CleanupFrom
  <2>2. Fits("abort", again)
    BY <1>3, <1>4, <1>7, RecordAssumption DEF Fits, Early, CleanupPcs, Sound
  <2>3. CleanupFrom(again) \in CleanupPcs /\ Fits(CleanupFrom(again), again)
    BY <1>4, <1>7, <2>2, CleanupFits DEF CleanupFrom, CleanupPcs
  <2> DEFINE label == CleanupFrom(again)
  <2> HIDE DEF label
  <2>4. label \in CleanupPcs /\ Fits(label, again) /\ Save(d, again) /\ Goto(d, label)
    BY <1>5, <1>7, <2>1, <2>3 DEF label
  <2>5. Advances(d, again, label)
    BY <1>3, <1>4, <1>5, <2>4 DEF Advances, CleanupPcs, BuildFailed
  <2>6. QED
    BY <2>5 DEF Effect
<1>8. CASE ~(Len(rec.attempts) >= MaxAttempts) /\ ~rec.cancel
  <2> DEFINE next == WithNewAttempt(again)
  <2>1. Len(again.attempts) < MaxAttempts
    BY <1>3, <1>4, <1>8, LenProperties, DeploymentAssumption DEF Sound, Record
  <2>2. /\ Sound(next)
        /\ next.attempts # <<>>
        /\ next.status = "generating_dockerfile"
        /\ next.cancel = rec.cancel
    BY <1>4, <2>1, SoundNewAttempt
  <2>3. Fits("generate", next)
    BY <2>2, RecordAssumption DEF Fits, Early, CleanupPcs, Publishing, Sound
  <2> HIDE DEF next
  <2>4. Save(d, next) /\ Goto(d, "generate")
    BY <1>5, <1>8 DEF next
  <2>5. Advances(d, next, "generate")
    BY <1>3, <1>5, <2>2, <2>3, <2>4 DEF Advances, BuildFailed
  <2>6. QED
    BY <2>5 DEF Effect
<1>9. QED
  BY <1>6, <1>7, <1>8

LEMMA ListeningEffect ==
    ASSUME BookInv, NEW d \in Deployment, Listening(d)
    PROVE  Effect(d)
<1> DEFINE closed == WithAttempt(records[d], "build_succeeded")
           rec == [closed EXCEPT !.held = TRUE]
           next == [rec EXCEPT !.status = "configuring_access"]
<1>1. Working(d)
  BY DEF Listening, Working
<1>2. Sound(records[d]) /\ Fits("listen", records[d])
  BY <1>1, AtWorkFacts DEF Listening
<1>3. /\ Sound(closed)
      /\ closed.attempts # <<>>
      /\ closed.status = records[d].status
      /\ closed.cancel = records[d].cancel
  BY <1>2, SoundAttempt DEF AttemptStatuses, Fits, InAttempt
<1> HIDE DEF closed
<1>4. /\ Sound(rec)
      /\ rec.held
      /\ rec.attempts # <<>>
      /\ rec.status = records[d].status
      /\ rec.cancel = records[d].cancel
  BY <1>3 DEF Sound, Record
<1> HIDE DEF rec
<1>5. /\ Sound(next)
      /\ next.held
      /\ next.attempts # <<>>
      /\ next.status = "configuring_access"
      /\ next.cancel = rec.cancel
  BY <1>4, SoundStatus DEF Statuses
<1> HIDE DEF next
<1>6. /\ IF rec.cancel
         THEN Save(d, rec) /\ Goto(d, CleanupFrom(rec))
         ELSE Save(d, next) /\ Goto(d, "put_conf")
      /\ pc[d] = "listen" /\ container[d] = "running"
      /\ UNCHANGED <<target, hostVars, faults, crashes>>
  BY DEF Listening, next, rec, closed
<1>7. CASE rec.cancel
  <2>1. Fits("listen", rec)
    BY <1>2, <1>4, <1>7, RecordAssumption DEF Fits, Early, CleanupPcs, Sound
  <2>2. CleanupFrom(rec) = "rm_container" /\ Fits(CleanupFrom(rec), rec)
    BY <1>4, <1>7, <2>1, CleanupFits DEF CleanupFrom
  <2>3. Advances(d, rec, "rm_container")
    BY <1>2, <1>4, <1>6, <1>7, <2>2 DEF Advances, CleanupPcs, Fits
  <2>4. QED
    BY <2>3 DEF Effect
<1>8. CASE ~rec.cancel
  <2>1. Fits("put_conf", next)
    BY <1>5, RecordAssumption DEF Fits, Early, CleanupPcs, Sound
  <2>2. Advances(d, next, "put_conf")
    BY <1>4, <1>5, <1>6, <1>8, <2>1 DEF Advances
  <2>3. QED
    BY <2>2 DEF Effect
<1>9. QED
  BY <1>7, <1>8

\* The steps of a pipeline that are neither of the host nor of the cleanup.
LEMMA PipelineEffect ==
    ASSUME BookInv, NEW d \in Deployment, PipelineStep(d)
    PROVE  \/ Effect(d)
           \/ ImageBuilt(d) \/ ContainerRun(d) \/ PutConf(d) \/ Reload(d)
           \/ CleanupStep(d)
BY CheckpointEffect, FailureEffect, GeneratedEffect, BuildFailedEffect, ListeningEffect
   DEF PipelineStep

\* Steps that change the host and write nothing.
LEMMA HostStepKeeps ==
    ASSUME BookInv, NEW d \in Deployment,
           ImageBuilt(d) \/ ContainerRun(d) \/ PutConf(d) \/ Reload(d)
    PROVE  BookInv'
<1>1. Working(d)
  BY DEF ImageBuilt, ContainerRun, PutConf, Reload, Working
<1>2. Fits(pc[d], records[d])
  BY <1>1, AtWorkFacts
<1>3. {"run", "listen", "reload", "configured", "abort"} \subseteq PipelinePcs \ {"none", "killed"}
  BY DEF PipelinePcs
<1>4. faults' = faults \/ Fault => faults' \in 0 .. MaxFaults
  BY Faulty DEF BookInv, DeploymentTypeOK
<1> USE DEF Fits, InAttempt, Early, CleanupPcs, Publishing
<1>5. CASE ImageBuilt(d)
  <2>1. HostTypes /\ Goto(d, "run") /\ UNCHANGED <<bookVars, target, crashes>>
    BY <1>5 DEF ImageBuilt, HostTypes, BookInv, DeploymentTypeOK
  <2>2. Fits("run", records[d])
    BY <1>2, <1>5 DEF ImageBuilt
  <2>3. QED
    BY <1>3, <2>1, <2>2, PipelineMoves
<1>6. CASE ContainerRun(d)
  <2>1. PICK label \in {"listen", "abort"} : Goto(d, label)
    BY <1>6 DEF ContainerRun
  <2>2. HostTypes /\ UNCHANGED <<bookVars, target, crashes>>
    BY <1>6 DEF ContainerRun, HostTypes, BookInv, DeploymentTypeOK
  <2>3. Fits(label, records[d])
    BY <1>2, <1>6 DEF ContainerRun
  <2>4. QED
    BY <1>3, <2>1, <2>2, <2>3, PipelineMoves
<1>7. CASE PutConf(d)
  <2>1. PICK label \in {"reload", "abort"} : Goto(d, label)
    BY <1>7 DEF PutConf
  <2>2. HostTypes /\ UNCHANGED <<bookVars, target, crashes>>
    BY <1>4, <1>7 DEF PutConf, HostTypes, BookInv, DeploymentTypeOK
  <2>3. Fits(label, records[d])
    BY <1>2, <1>7 DEF PutConf
  <2>4. QED
    BY <1>3, <2>1, <2>2, <2>3, PipelineMoves
<1>8. CASE Reload(d)
  <2>1. PICK label \in {"configured", "abort"} : Goto(d, label)
    BY <1>8 DEF Reload
  <2>2. HostTypes /\ UNCHANGED <<bookVars, target, crashes>>
    BY <1>4, <1>8 DEF Reload, HostTypes, BookInv, DeploymentTypeOK
  <2>3. Fits(label, records[d])
    BY <1>2, <1>8 DEF Reload
  <2>4. QED
    BY <1>3, <2>1, <2>2, <2>3, PipelineMoves
<1>9. QED
  BY <1>5, <1>6, <1>7, <1>8

-----------------------------------------------------------------------------
(* The cleanup.                                                            *)

\* Whoever cleans up works on a deployment whose record is in memory, cancelled.
LEMMA CleanupTarget ==
    ASSUME BookInv, NEW w \in Worker, pc[w] \in CleanupPcs
    PROVE  /\ For(w) \in Deployment
           /\ w \in Deployment => For(w) = w
           /\ w \in Deleter => w \notin Deployment /\ For(w) = target[w]
           /\ records[For(w)] \in Record
           /\ Sound(records[For(w)])
           /\ records[For(w)].cancel
           /\ pc[For(w)] # "none"
<1>1. CASE w \in Deployment
  <2>1. Working(w)
    BY DEF Working, CleanupPcs
  <2>2. QED
    BY <1>1, <2>1, AtWorkFacts, DeploymentAssumption DEF For, Fits
<1>2. CASE w \in Deleter
  <2>1. w \notin Deployment /\ For(w) = target[w]
    BY <1>2, DeploymentAssumption DEF For
  <2>2. target[w] \in Deployment /\ records[target[w]] # NoRecord /\ records[target[w]].cancel
    BY <1>2 DEF BookInv, Deleting, CleanupPcs
  <2>3. QED
    BY <1>2, <2>1, <2>2 DEF BookInv, DeploymentTypeOK, Shown, AtWork
<1>3. QED
  BY <1>1, <1>2 DEF Worker

\* The record a finished cleanup leaves.
Cleared(rec) == [rec EXCEPT !.status = "deleted", !.held = FALSE, !.url = FALSE]

LEMMA CleanupWrites ==
    ASSUME BookInv, NEW w \in Worker, CleanupDone(w)
    PROVE  LET d == For(w)
               rec == Cleared(records[d]) IN
           /\ d \in Deployment
           /\ records[d].cancel
           /\ Visible(d) = records[d] /\ Known(d)
           /\ Sound(rec) /\ Save(d, rec)
           /\ rec.status = "deleted"
           /\ rec.cancel
           /\ ~rec.held
           /\ rec.attempts = records[d].attempts
<1> DEFINE d == For(w)
<1>1. pc[w] \in CleanupPcs
  BY DEF CleanupDone, CleanupPcs
<1>2. /\ d \in Deployment
      /\ records[d] \in Record
      /\ Sound(records[d])
      /\ records[d].cancel
  BY <1>1, CleanupTarget
<1>3. Visible(d) = records[d] /\ Known(d)
  BY <1>2, RecordAssumption DEF Visible, Known
<1>4. Save(d, Cleared(records[d]))
  BY DEF CleanupDone, Cleared
<1> HIDE DEF d
<1>5. QED
  BY <1>2, <1>3, <1>4 DEF Cleared, Sound, Record, Statuses, d

\* A worker that goes on with its cleanup, or leaves.
LEMMA WorkerGoes ==
    ASSUME BookInv, NEW w \in Worker, pc[w] \in CleanupPcs,
           \/ (\E label \in CleanupPcs : Goto(w, label)) /\ UNCHANGED target
           \/ Leave(w)
    PROVE  /\ PlaceTypes
           /\ \A v \in Worker \ {w} : pc'[v] = pc[v]
           /\ \A v \in Deleter : pc'[v] # "idle" => pc[v] # "idle" /\ target'[v] = target[v]
           /\ w \in Deployment => pc'[w] \in CleanupPcs \cup {"done"}
           /\ w \in Deleter => pc'[w] \in CleanupPcs \cup {"idle"}
<1>1. /\ pc \in [Worker -> PipelinePcs \cup DeleterPcs]
      /\ \A e \in Deployment : pc[e] \in PipelinePcs
      /\ \A v \in Deleter : pc[v] \in DeleterPcs
      /\ target \in [Deleter -> Deployment \cup {NoDeployment}]
  BY DEF BookInv, DeploymentTypeOK
<1>2. w \in Deployment => w \notin Deleter
  BY DeploymentAssumption
<1>3. CleanupPcs \subseteq PipelinePcs /\ CleanupPcs \subseteq DeleterPcs
      /\ "done" \in PipelinePcs /\ "idle" \in DeleterPcs
      /\ "idle" \notin CleanupPcs
  BY DEF CleanupPcs, PipelinePcs, DeleterPcs
<1>4. CASE (\E label \in CleanupPcs : Goto(w, label)) /\ UNCHANGED target
  <2>1. PICK label \in CleanupPcs : Goto(w, label)
    BY <1>4
  <2>2. pc' = [pc EXCEPT ![w] = label] /\ target' = target
    BY <1>4, <2>1 DEF Goto
  <2>3. QED
    BY <1>1, <1>2, <1>3, <2>2 DEF PlaceTypes, Worker
<1>5. CASE Leave(w)
  <2>1. CASE w \in Deployment
    <3>1. pc' = [pc EXCEPT ![w] = "done"] /\ target' = target
      BY <1>5, <2>1 DEF Leave, Goto
    <3>2. QED
      BY <1>1, <1>2, <1>3, <2>1, <3>1 DEF PlaceTypes, Worker
  <2>2. CASE w \notin Deployment
    <3>1. pc' = [pc EXCEPT ![w] = "idle"] /\ target' = [target EXCEPT ![w] = NoDeployment]
      BY <1>5, <2>2 DEF Leave, Goto
    <3>2. w \in Deleter
      BY <2>2 DEF Worker
    <3>3. QED
      BY <1>1, <1>2, <1>3, <2>2, <3>1, <3>2 DEF PlaceTypes, Worker
  <2>3. QED
    BY <2>1, <2>2
<1>6. QED
  BY <1>4, <1>5

LEMMA CleanupKeeps ==
    ASSUME BookInv, NEW w \in Worker, CleanupStep(w)
    PROVE  BookInv'
<1> DEFINE d == For(w)
<1>1. pc[w] \in CleanupPcs
  BY DEF CleanupStep, RemoveContainer, RemoveImage, RemoveConf, RemoveReload, CleanupDone,
         CleanupPcs
<1>2. /\ d \in Deployment
      /\ w \in Deployment => d = w
      /\ w \in Deleter => w \notin Deployment /\ d = target[w]
      /\ records[d] \in Record
      /\ Sound(records[d])
      /\ records[d].cancel
      /\ pc[d] # "none"
  BY <1>1, CleanupTarget
<1>3. /\ \/ (\E label \in CleanupPcs : Goto(w, label)) /\ UNCHANGED target
         \/ Leave(w)
      /\ UNCHANGED crashes
  BY DEF CleanupStep, RemoveContainer, RemoveImage, RemoveConf, RemoveReload, CleanupDone,
         CleanupPcs
<1>4. /\ PlaceTypes
      /\ \A v \in Worker \ {w} : pc'[v] = pc[v]
      /\ \A v \in Deleter : pc'[v] # "idle" => pc[v] # "idle" /\ target'[v] = target[v]
      /\ w \in Deployment => pc'[w] \in CleanupPcs \cup {"done"}
      /\ w \in Deleter => pc'[w] \in CleanupPcs \cup {"idle"}
  BY <1>1, <1>3, WorkerGoes
<1>5. faults' = faults \/ Fault => faults' \in 0 .. MaxFaults
  BY Faulty DEF BookInv, DeploymentTypeOK
<1>6. HostTypes
  BY <1>2, <1>3, <1>5 DEF CleanupStep, RemoveContainer, RemoveImage, RemoveConf, RemoveReload,
         CleanupDone, HostTypes, hostVars, BookInv, DeploymentTypeOK
<1>7. CASE UNCHANGED bookVars
  <2>1. \A e \in Deployment :
            \/ pc'[e] = pc[e]
            \/ pc'[e] = "done"
            \/ pc'[e] \notin {"none", "killed"} /\ Fits(pc'[e], records[e])
    <3>1. CASE w \in Deployment
      <4>1. Working(w)
        BY <1>1 DEF Working, CleanupPcs
      <4>2. Fits(pc[w], records[w])
        BY <3>1, <4>1, AtWorkFacts
      <4>3. pc'[w] \in CleanupPcs => Fits(pc'[w], records[w])
        BY <1>1, <1>2, <3>1, <4>2 DEF Fits, CleanupPcs, Early, InAttempt, Publishing
      <4>4. QED
        BY <1>4, <3>1, <4>3 DEF Worker, CleanupPcs
    <3>2. CASE w \in Deleter
      BY <1>2, <1>4, <3>2 DEF Worker
    <3>3. QED
      BY <3>1, <3>2 DEF Worker
  <2>2. QED
    BY <1>3, <1>4, <1>6, <1>7, <2>1, QuietKeeps
<1>8. CASE CleanupDone(w)
  <2> DEFINE rec == Cleared(records[d])
  <2>1. /\ Sound(rec) /\ Save(d, rec)
        /\ rec.status = "deleted"
        /\ rec.cancel
        /\ rec.attempts = records[d].attempts
    BY <1>8, CleanupWrites
  <2> HIDE DEF rec
  <2>2. Leave(w)
    BY <1>8 DEF CleanupDone
  <2>3. \A e \in Deployment \ {d} : pc'[e] = pc[e]
    BY <1>2, <1>4 DEF Worker
  <2>4. /\ pc'[d] # "none"
        /\ pc'[d] = "killed" => pc[d] = "killed"
        /\ pc'[d] \notin {"done", "killed"} => Fits(pc'[d], rec)
    <3>1. CASE w \in Deployment
      BY <1>2, <2>2, <3>1 DEF Leave, Goto, BookInv, DeploymentTypeOK, Worker
    <3>2. CASE w \in Deleter
      <4>1. pc'[d] = pc[d]
        BY <1>2, <1>4, <3>2 DEF Worker
      <4>2. pc[d] \notin {"done", "killed"} => Fits(pc[d], records[d])
        BY <1>2, AtWorkFacts DEF Working
      <4>3. QED
        BY <1>2, <2>1, <4>1, <4>2, RecordAssumption DEF Fits, Sound
    <3>3. QED
      BY <3>1, <3>2 DEF Worker
  <2> HIDE DEF d
  <2>5. QED
    BY <1>2, <1>3, <1>4, <1>6, <2>1, <2>2, <2>3, <2>4, WriteKeeps
<1>9. QED
  BY <1>7, <1>8 DEF CleanupStep, RemoveContainer, RemoveImage, RemoveConf, RemoveReload

-----------------------------------------------------------------------------
(* Requests, the outside and restarts.                                     *)

\* The record a delete starts with.
Marked(rec) == [rec EXCEPT !.cancel = TRUE, !.status = "deleting"]

LEMMA DeleteWrites ==
    ASSUME BookInv, NEW w \in Deleter, NEW d \in Deployment, DeleteBegin(w, d)
    PROVE  LET rec == Marked(Visible(d)) IN
           /\ Sound(rec) /\ Save(d, rec)
           /\ rec.status = "deleting"
           /\ rec.cancel
           /\ rec.held = Visible(d).held
           /\ rec.attempts = Visible(d).attempts
<1>1. Visible(d) \in Record /\ Sound(Visible(d))
  BY DEF DeleteBegin, Visible, BookInv, DeploymentTypeOK, Shown
<1>2. Save(d, Marked(Visible(d)))
  BY DEF DeleteBegin, Marked
<1>3. QED
  BY <1>1, <1>2 DEF Marked, Sound, Record, Statuses

LEMMA DeleteKeeps ==
    ASSUME BookInv, NEW w \in Deleter, NEW d \in Deployment, DeleteBegin(w, d)
    PROVE  BookInv'
<1> DEFINE rec == Marked(Visible(d))
<1>2. /\ Sound(rec) /\ Save(d, rec)
      /\ rec.status = "deleting"
      /\ rec.cancel
      /\ rec.attempts = Visible(d).attempts
  BY DeleteWrites
<1> HIDE DEF rec
<1>3. /\ Goto(w, CleanupFrom(Visible(d)))
      /\ target' = [target EXCEPT ![w] = d]
      /\ UNCHANGED <<hostVars, faults, crashes>>
  BY DEF DeleteBegin
<1>4. w \in Worker /\ w \notin Deployment
  BY DeploymentAssumption DEF Worker
<1>5. CleanupFrom(Visible(d)) \in CleanupPcs
  BY DEF CleanupFrom, CleanupPcs
<1> DEFINE label == CleanupFrom(Visible(d))
<1> HIDE DEF label
<1>6. /\ pc' = [pc EXCEPT ![w] = label]
      /\ label \in CleanupPcs
      /\ pc \in [Worker -> PipelinePcs \cup DeleterPcs]
  BY <1>3, <1>5 DEF Goto, label, BookInv, DeploymentTypeOK
<1>7. \A v \in Worker \ {w} : pc'[v] = pc[v]
  BY <1>6 DEF Worker
<1>8. PlaceTypes
  <2>1. CleanupPcs \subseteq DeleterPcs
    BY DEF DeleterPcs
  <2>2. QED
    BY <1>3, <1>4, <1>6, <1>7, <2>1 DEF PlaceTypes, BookInv, DeploymentTypeOK, Worker
<1>9. HostTypes
  BY <1>3, HostSame
<1>10. \A e \in Deployment : pc'[e] = pc[e]
  BY <1>4, <1>7 DEF Worker
<1>11. pc[d] # "none"
  BY DEF DeleteBegin, Visible, BookInv, AtWork
<1>12. pc[d] \notin {"done", "killed"} => Fits(pc[d], rec)
  <2>1. SUFFICES ASSUME Working(d) PROVE Fits(pc[d], rec)
    BY <1>11 DEF Working
  <2>2. Fits(pc[d], records[d])
    BY <2>1, AtWorkFacts
  <2>3. Visible(d) = records[d]
    BY <2>2 DEF Fits, Visible
  <2>4. QED
    BY <1>2, <2>2, <2>3, RecordAssumption DEF Fits, Sound
<1>13. \A v \in Deleter : pc'[v] # "idle" =>
           \/ pc[v] # "idle" /\ target'[v] = target[v]
           \/ target'[v] = d /\ rec.cancel
  BY <1>2, <1>3, <1>7 DEF Worker, BookInv, DeploymentTypeOK
<1>14. QED
  BY <1>2, <1>3, <1>8, <1>9, <1>10, <1>11, <1>12, <1>13, WriteKeeps

LEMMA GetStatusKeeps ==
    ASSUME BookInv, NEW d \in Deployment, GetStatus(d)
    PROVE  BookInv'
<1>1. /\ records' = [records EXCEPT ![d] = rows[d]]
      /\ UNCHANGED <<rows, lost, pc, target, hostVars, faults, crashes>>
      /\ records[d] = NoRecord /\ rows[d] # NoRecord
  BY DEF GetStatus
<1>2. ~Working(d) /\ pc[d] # "none"
  BY <1>1 DEF BookInv, AtWork, Fits
<1>3. /\ records'[d] = rows[d]
      /\ \A e \in Deployment \ {d} : records'[e] = records[e]
      /\ records' \in [Deployment -> Record \cup {NoRecord}]
  BY <1>1 DEF BookInv, DeploymentTypeOK
<1>4. DeploymentTypeOK'
  BY <1>1, <1>3 DEF BookInv, DeploymentTypeOK, hostVars
<1>5. Shown'
  BY <1>1, <1>3 DEF BookInv, Shown
<1>6. AtWork'
  BY <1>1, <1>2, <1>3 DEF BookInv, AtWork, Working
<1>7. Deleting'
  BY <1>1, <1>3 DEF BookInv, Deleting
<1>8. InStep'
  BY <1>1, <1>3 DEF BookInv, InStep
<1>9. QED
  BY <1>4, <1>5, <1>6, <1>7, <1>8 DEF BookInv

LEMMA ContainerGoesKeeps ==
    ASSUME BookInv, NEW d \in Deployment, ContainerGoes(d)
    PROVE  BookInv'
<1>1. faults' \in 0 .. MaxFaults
  BY Faulty DEF ContainerGoes
<1>2. PlaceTypes /\ HostTypes
  BY <1>1 DEF ContainerGoes, PlaceTypes, HostTypes, BookInv, DeploymentTypeOK
<1>3. QED
  BY <1>2, QuietKeeps DEF ContainerGoes

LEMMA CrashKeeps ==
    ASSUME BookInv, Crash
    PROVE  BookInv'
<1>1. /\ crashes' = crashes + 1 /\ crashes' \in 0 .. MaxCrashes /\ crashes' # 0
      /\ records' = [d \in Deployment |-> NoRecord]
      /\ UNCHANGED <<rows, lost, hostVars, faults>>
  BY DeploymentAssumption DEF Crash, BookInv, DeploymentTypeOK
<1>2. /\ \A w \in Deleter : pc'[w] = "idle"
      /\ \A d \in Deployment :
             pc'[d] = IF pc[d] \in {"none", "done"} THEN pc[d] ELSE "killed"
  BY DeploymentAssumption DEF Crash, Worker
<1>3. /\ \A d \in Deployment : pc'[d] \in PipelinePcs /\ (pc'[d] = "none" => pc[d] = "none")
      /\ \A w \in Deleter : pc'[w] \in DeleterPcs
  BY <1>2 DEF PipelinePcs, DeleterPcs
<1>4. PlaceTypes
  <2>1. pc' \in [Worker -> PipelinePcs \cup DeleterPcs]
    BY <1>3 DEF Crash, Worker
  <2>2. target' \in [Deleter -> Deployment \cup {NoDeployment}]
    BY DEF Crash
  <2>3. QED
    BY <1>3, <2>1, <2>2 DEF PlaceTypes
<1>5. DeploymentTypeOK'
  BY <1>1, <1>4 DEF BookInv, DeploymentTypeOK, PlaceTypes, hostVars
<1>6. Shown' /\ InStep'
  BY <1>1 DEF BookInv, Shown, InStep
<1>7. AtWork'
  BY <1>1, <1>2, <1>3 DEF BookInv, AtWork, Working
<1>8. Deleting'
  BY <1>2 DEF Deleting
<1>9. QED
  BY <1>5, <1>6, <1>7, <1>8 DEF BookInv

LEMMA StutterKeeps ==
    ASSUME BookInv, UNCHANGED vars
    PROVE  BookInv'
<1>1. UNCHANGED <<bookVars, pc, target, hostVars, faults, crashes>>
  BY DEF vars
<1>2. HostTypes
  BY <1>1, HostSame
<1>3. PlaceTypes
  BY <1>1 DEF PlaceTypes, BookInv, DeploymentTypeOK
<1>4. QED
  BY <1>1, <1>2, <1>3, QuietKeeps

LEMMA BookStep == BookInv /\ [Next]_vars => BookInv'
<1> SUFFICES ASSUME BookInv, [Next]_vars PROVE BookInv'
  OBVIOUS
<1>1. CASE \E d \in Deployment : RequestDeployment(d)
  BY <1>1, RequestKeeps
<1>2. ASSUME NEW d \in Deployment, PipelineStep(d) PROVE BookInv'
  <2>1. d \in Worker
    BY DEF Worker
  <2>2. QED
    BY <1>2, <2>1, PipelineEffect, EffectKeeps, HostStepKeeps, CleanupKeeps DEF PipelineStep
<1>3. CASE \E w \in Deleter : CleanupStep(w)
  BY <1>3, CleanupKeeps DEF Worker
<1>4. CASE \E w \in Deleter, d \in Deployment : DeleteBegin(w, d)
  BY <1>4, DeleteKeeps
<1>5. CASE \E d \in Deployment : GetStatus(d)
  BY <1>5, GetStatusKeeps
<1>6. CASE \E d \in Deployment : ContainerGoes(d)
  BY <1>6, ContainerGoesKeeps
<1>7. CASE Crash
  BY <1>7, CrashKeeps
<1>8. CASE UNCHANGED vars
  BY <1>8, StutterKeeps
<1>9. QED
  BY <1>1, <1>2, <1>3, <1>4, <1>5, <1>6, <1>7, <1>8 DEF Next

\* The books and the workers are always in order: the invariant the others
\* rest on.
THEOREM BooksInOrder == Spec => []BookInv
<1>1. Spec => Init /\ [][Next]_vars
  BY DEF Spec
<1>2. QED
  BY <1>1, BookInit, BookStep, PTL

\* Every write of a record, by pipeline, delete and restart, keeps the types:
\* no deployment has more attempts than the configured number.
THEOREM TypeCorrect == Spec => []DeploymentTypeOK
<1>1. BookInv => DeploymentTypeOK
  BY DEF BookInv
<1>2. QED
  BY <1>1, BooksInOrder, PTL

-----------------------------------------------------------------------------
(* What a tenant sees.                                                     *)

LEMMA VisibleSaved ==
    ASSUME BookInv, NEW d \in Deployment, NEW rec, Sound(rec), Save(d, rec)
    PROVE  /\ Visible(d)' = rec
           /\ rec # NoRecord
           /\ \A e \in Deployment \ {d} : Visible(e)' = Visible(e)
           /\ lost' = 0 => lost = 0
<1>1. rec # NoRecord
  BY RecordAssumption DEF Sound
<1>2. /\ records' = [records EXCEPT ![d] = rec]
      /\ \A e \in Deployment \ {d} : rows'[e] = rows[e]
      /\ lost' = 0 => lost = 0
  BY Saved
<1>3. records \in [Deployment -> Record \cup {NoRecord}]
  BY DEF BookInv, DeploymentTypeOK
<1>4. QED
  BY <1>1, <1>2, <1>3 DEF Visible

LEMMA VisibleQuiet ==
    ASSUME UNCHANGED bookVars
    PROVE  \A e \in Deployment : Visible(e)' = Visible(e)
BY DEF bookVars, Visible

LEMMA VisibleGetStatus ==
    ASSUME BookInv, NEW d \in Deployment, GetStatus(d)
    PROVE  \A e \in Deployment : Visible(e)' = Visible(e)
<1>1. records \in [Deployment -> Record \cup {NoRecord}]
  BY DEF BookInv, DeploymentTypeOK
<1>2. QED
  BY <1>1 DEF GetStatus, Visible

\* A restart shows what the database has: the same, if no write was lost.
LEMMA VisibleCrash ==
    ASSUME BookInv, Crash, lost = 0
    PROVE  \A e \in Deployment : Visible(e)' = Visible(e)
BY DEF Crash, Visible, BookInv, InStep

LEMMA WorkingVisible ==
    ASSUME BookInv, NEW d \in Deployment, Working(d)
    PROVE  Visible(d) = records[d] /\ Known(d)
BY AtWorkFacts DEF Fits, Visible, Known

Phase == [d \in Deployment |->
        IF ~Known(d) THEN "absent"
        ELSE IF Visible(d).status = "running" THEN "running"
        ELSE IF Visible(d).cancel THEN "closed"
        ELSE IF Visible(d).status = "failed" THEN "failed"
        ELSE "open"]

LEMMA PhaseSame ==
    ASSUME \A e \in Deployment : Visible(e)' = Visible(e)
    PROVE  Phase' = Phase
BY DEF Phase, Known

\* A write is a step the tenant was promised.
LEMMA PhaseSaved ==
    ASSUME BookInv, NEW d \in Deployment, NEW rec, Sound(rec), Save(d, rec),
           \/ ~Known(d) /\ rec.status = "analyzing" /\ ~rec.cancel
           \/ Known(d) /\ rec.cancel
           \/ /\ Known(d) /\ ~Visible(d).cancel /\ ~rec.cancel
              /\ Visible(d).status \notin {"running", "failed"}
    PROVE  [Promise!Next]_Phase
<1>1. /\ Visible(d)' = rec
      /\ rec # NoRecord
      /\ \A e \in Deployment \ {d} : Visible(e)' = Visible(e)
  BY VisibleSaved
<1>2. \A e \in Deployment \ {d} : Phase'[e] = Phase[e]
  BY <1>1 DEF Phase, Known
<1>3. /\ Phase \in [Deployment -> {"absent", "open", "running", "failed", "closed"}]
      /\ Phase' \in [Deployment -> {"absent", "open", "running", "failed", "closed"}]
  BY DEF Phase
<1>4. Phase' = [Phase EXCEPT ![d] = Phase'[d]]
  BY <1>2, <1>3
<1>5. CASE ~Known(d) /\ rec.status = "analyzing" /\ ~rec.cancel
  <2>1. Phase[d] = "absent" /\ Phase'[d] = "open"
    BY <1>1, <1>5 DEF Phase, Known
  <2>2. Promise!Accept(d)
    BY <1>4, <2>1 DEF Promise!Accept, Promise!Move, Phase
  <2>3. QED
    BY <2>2 DEF Promise!Next
<1>6. CASE Known(d) /\ rec.cancel
  <2>1. Phase[d] \in {"open", "running", "failed", "closed"} /\ Phase'[d] = "closed"
    BY <1>1, <1>6 DEF Phase, Known, Sound
  <2>2. Promise!Close(d)
    BY <1>4, <2>1 DEF Promise!Close, Promise!Move, Promise!Phases, Phase
  <2>3. QED
    BY <2>2 DEF Promise!Next
<1>7. CASE /\ Known(d) /\ ~Visible(d).cancel /\ ~rec.cancel
           /\ Visible(d).status \notin {"running", "failed"}
  <2>1. Phase[d] = "open" /\ Phase'[d] \in {"open", "running", "failed"}
    BY <1>1, <1>7 DEF Phase, Known
  <2>2. CASE Phase'[d] = "open"
    BY <1>3, <1>4, <2>1, <2>2
  <2>3. CASE Phase'[d] = "running"
    <3>1. Promise!Succeed(d)
      BY <1>4, <2>1, <2>3 DEF Promise!Succeed, Promise!Move, Phase
    <3>2. QED
      BY <3>1 DEF Promise!Next
  <2>4. CASE Phase'[d] = "failed"
    <3>1. Promise!Fail(d)
      BY <1>4, <2>1, <2>4 DEF Promise!Fail, Promise!Move, Phase
    <3>2. QED
      BY <3>1 DEF Promise!Next
  <2>5. QED
    BY <2>1, <2>2, <2>3, <2>4
<1>8. QED
  BY <1>5, <1>6, <1>7

LEMMA PromiseStep ==
    ASSUME BookInv, [Next]_vars, [Crash => lost = 0]_vars
    PROVE  [Promise!Next]_Phase
<1>1. (Crash => lost = 0) \/ UNCHANGED vars
  OBVIOUS
<1>2. ASSUME UNCHANGED bookVars PROVE [Promise!Next]_Phase
  BY <1>2, VisibleQuiet, PhaseSame
<1>3. ASSUME NEW d \in Deployment, RequestDeployment(d) PROVE [Promise!Next]_Phase
  <2> DEFINE rec == [status |-> "analyzing", held |-> FALSE, url |-> FALSE,
                     cancel |-> FALSE, attempts |-> <<>>]
  <2>1. Sound(rec)
    BY EmptySeq, DeploymentAssumption DEF Sound, Record, Statuses
  <2>2. ~Known(d)
    BY <1>3 DEF RequestDeployment, BookInv, AtWork, Known, Visible
  <2>3. rec.status = "analyzing" /\ ~rec.cancel
    OBVIOUS
  <2> HIDE DEF rec
  <2>4. Save(d, rec)
    BY <1>3 DEF RequestDeployment, rec
  <2>5. QED
    BY <2>1, <2>2, <2>3, <2>4, PhaseSaved
<1>4. ASSUME NEW d \in Deployment, Effect(d) PROVE [Promise!Next]_Phase
  <2>1. CASE TurnsBack(d)
    BY <1>2, <2>1 DEF TurnsBack
  <2>2. CASE \E rec, label : Advances(d, rec, label)
    <3>1. PICK rec, label : Advances(d, rec, label)
      BY <2>2
    <3>2. Working(d)
      BY <3>1 DEF Advances, Working, Early
    <3>3. Fits(pc[d], records[d]) /\ Visible(d) = records[d] /\ Known(d)
      BY <3>2, AtWorkFacts, WorkingVisible
    <3>4. Sound(rec) /\ Save(d, rec) /\ rec.cancel = records[d].cancel
      BY <3>1 DEF Advances
    <3>5. QED
      BY <3>3, <3>4, PhaseSaved DEF Fits
  <2>3. QED
    BY <1>4, <2>1, <2>2 DEF Effect
<1>5. ASSUME NEW w \in Worker, CleanupStep(w) PROVE [Promise!Next]_Phase
  <2>1. CASE CleanupDone(w)
    BY <2>1, CleanupWrites, PhaseSaved
  <2>2. CASE ~CleanupDone(w)
    BY <1>2, <1>5, <2>2 DEF CleanupStep, RemoveContainer, RemoveImage, RemoveConf, RemoveReload
  <2>3. QED
    BY <2>1, <2>2
<1>6. ASSUME NEW d \in Deployment, PipelineStep(d) PROVE [Promise!Next]_Phase
  <2>1. CASE ImageBuilt(d) \/ ContainerRun(d) \/ PutConf(d) \/ Reload(d)
    BY <1>2, <2>1 DEF ImageBuilt, ContainerRun, PutConf, Reload
  <2>2. QED
    BY <1>4, <1>5, <1>6, <2>1, PipelineEffect DEF Worker
<1>7. ASSUME NEW w \in Deleter, NEW d \in Deployment, DeleteBegin(w, d)
      PROVE  [Promise!Next]_Phase
  <2>1. Known(d)
    BY <1>7 DEF DeleteBegin, Known
  <2>2. QED
    BY <1>7, <2>1, DeleteWrites, PhaseSaved
<1>8. ASSUME NEW d \in Deployment, GetStatus(d) PROVE [Promise!Next]_Phase
  BY <1>8, VisibleGetStatus, PhaseSame
<1>9. ASSUME NEW d \in Deployment, ContainerGoes(d) PROVE [Promise!Next]_Phase
  BY <1>2, <1>9 DEF ContainerGoes
<1>10. CASE Crash
  <2>1. CASE lost = 0
    BY <1>10, <2>1, VisibleCrash, PhaseSame
  <2>2. CASE UNCHANGED vars
    BY <1>2, <2>2 DEF vars
  <2>3. QED
    BY <1>1, <1>10, <2>1, <2>2
<1>11. CASE UNCHANGED vars
  BY <1>2, <1>11 DEF vars
<1>12. QED
  BY <1>3, <1>5, <1>6, <1>7, <1>8, <1>9, <1>10, <1>11 DEF Next, Worker

\* Pipelines, deletes and restarts implement what the API tells a tenant: a
\* deployment runs or fails once, and never runs again after DELETE.  Database
\* writes may be lost and the process may go down, as long as no restart comes
\* after a lost write.
THEOREM KeepsItsPromise == Spec /\ [][Crash => lost = 0]_vars => KeepsPromise
<1>1. Init => Promise!Init
  BY DEF Init, Promise!Init, Known, Visible
<1>2. BookInv /\ [Next]_vars /\ [Crash => lost = 0]_vars => [Promise!Next]_Phase
  BY PromiseStep
<1>3. Spec => Init /\ [][Next]_vars
  BY DEF Spec
<1>4. QED
  BY <1>1, <1>2, <1>3, BooksInOrder, PTL DEF KeepsPromise, Promise!Spec, Phase

-----------------------------------------------------------------------------
(* What is left on the host.                                               *)

\* A step of someone else leaves what is known of e.
LEMMA Aside ==
    ASSUME NEW e \in Deployment, HostAt(e),
           Visible(e)' = Visible(e),
           Working(e) => records'[e] = records[e],
           pc'[e] = pc[e],
           container'[e] = container[e],
           e \in images' <=> e \in images,
           e \in conf' <=> e \in conf,
           e \in served /\ e \in conf => e \in served',
           \A w \in Deleter :
               \/ pc'[w] = pc[w] /\ target'[w] = target[w]
               \/ /\ pc[w] \in CleanupPcs => target[w] # e
                  /\ pc'[w] \in CleanupPcs => target'[w] # e,
           faults' = 0 => faults = 0,
           lost' = 0 => lost = 0,
           crashes' = crashes
    PROVE  HostAt(e)'
<1>1. \A at \in SUBSET CleanupPcs : DeleteAt(e, at)' <=> DeleteAt(e, at)
  BY DEF DeleteAt
<1>2. /\ {"rm_container"} \in SUBSET CleanupPcs
      /\ {"rm_container", "rm_image"} \in SUBSET CleanupPcs
      /\ {"rm_container", "rm_image", "rm_conf"} \in SUBSET CleanupPcs
      /\ CleanupPcs \ {"rm_container"} \in SUBSET CleanupPcs
  BY DEF CleanupPcs
<1>3. Known(e)' <=> Known(e)
  BY DEF Known
<1>4. Broken(e)' <=> Broken(e)
  BY <1>3 DEF Broken, LastAttempt
<1>5. BuiltAt(e) => BuiltAt(e)'
  BY <1>3 DEF BuiltAt, Working, Publishing
<1>6. ContainerAt(e) => ContainerAt(e)'
  BY <1>1, <1>2, <1>3, <1>4 DEF ContainerAt
<1>7. ImageAt(e) => ImageAt(e)'
  BY <1>1, <1>2, <1>3, <1>4 DEF ImageAt
<1>8. RouteAt(e) => RouteAt(e)'
  BY <1>1, <1>2, <1>3, <1>4 DEF RouteAt
<1>9. QED
  BY <1>5, <1>6, <1>7, <1>8 DEF HostAt

\* A write or a move of the pipeline of d that leaves the host: what is left is d.
LEMMA PipelineAside ==
    ASSUME BookInv, HostInv, NEW d \in Deployment, NEW label \in PipelinePcs,
           Goto(d, label), UNCHANGED <<target, crashes>>,
           \A e \in Deployment \ {d} :
               /\ Visible(e)' = Visible(e)
               /\ records'[e] = records[e]
               /\ container'[e] = container[e]
               /\ e \in images' <=> e \in images
               /\ e \in conf' <=> e \in conf
               /\ e \in conf /\ e \in served => e \in served',
           faults' = 0 => faults = 0,
           lost' = 0 => lost = 0,
           HostAt(d)'
    PROVE  HostInv'
<1>1. /\ \A e \in Deployment \ {d} : pc'[e] = pc[e]
      /\ \A w \in Deleter : pc'[w] = pc[w]
  BY PipelineGoes
<1>2. \A e \in Deployment \ {d} : HostAt(e)'
  BY <1>1, Aside DEF HostInv
<1>3. QED
  BY <1>2 DEF HostInv

LEMMA HostInit == Init => HostInv
<1> SUFFICES ASSUME Init, NEW d \in Deployment PROVE HostAt(d)
  BY DEF HostInv
<1>1. pc[d] = "none"
  BY DeploymentAssumption DEF Init, Worker
<1>2. container[d] = "none" /\ d \notin images /\ d \notin conf /\ ~Known(d)
  BY DEF Init, Known, Visible
<1>3. QED
  BY <1>1, <1>2 DEF HostAt, BuiltAt, ContainerAt, ImageAt, RouteAt, Working

LEMMA RequestHost ==
    ASSUME BookInv, HostInv, NEW d \in Deployment, RequestDeployment(d)
    PROVE  HostInv'
<1> DEFINE rec == [status |-> "analyzing", held |-> FALSE, url |-> FALSE,
                   cancel |-> FALSE, attempts |-> <<>>]
<1>1. Sound(rec) /\ rec.status = "analyzing"
  BY EmptySeq, DeploymentAssumption DEF Sound, Record, Statuses
<1> HIDE DEF rec
<1>2. /\ Save(d, rec) /\ Goto(d, "queued") /\ pc[d] = "none"
      /\ UNCHANGED <<target, hostVars, faults, crashes>>
  BY DEF RequestDeployment, rec
<1>3. /\ Visible(d)' = rec
      /\ \A e \in Deployment \ {d} : Visible(e)' = Visible(e)
      /\ lost' = 0 => lost = 0
  BY <1>1, <1>2, VisibleSaved
<1>4. \A e \in Deployment \ {d} : records'[e] = records[e]
  BY <1>2 DEF Save, BookInv, DeploymentTypeOK
<1>5. "queued" \in PipelinePcs
  BY DEF PipelinePcs
<1>6. pc'[d] = "queued"
  BY <1>2, <1>5, PipelineGoes
<1>7. HostAt(d)'
  BY <1>1, <1>2, <1>3, <1>6
     DEF HostInv, HostAt, BuiltAt, ContainerAt, ImageAt, RouteAt, hostVars, Publishing
<1>8. QED
  BY <1>2, <1>3, <1>4, <1>5, <1>7, PipelineAside DEF hostVars

LEMMA TurnsBackHost ==
    ASSUME BookInv, HostInv, NEW d \in Deployment, TurnsBack(d)
    PROVE  HostInv'
<1>1. Working(d)
  BY DEF TurnsBack, Working, Early
<1>2. Fits(pc[d], records[d]) /\ Visible(d) = records[d]
  BY <1>1, AtWorkFacts, WorkingVisible
<1>3. /\ records[d].cancel /\ Goto(d, CleanupFrom(records[d]))
      /\ pc[d] \in {"write", "configured"} \cup Early
      /\ records' = records /\ lost' = lost /\ target' = target
      /\ container' = container /\ images' = images /\ conf' = conf /\ served' = served
      /\ faults' = faults /\ crashes' = crashes
      /\ \A e \in Deployment : Visible(e)' = Visible(e)
  BY VisibleQuiet DEF TurnsBack, bookVars, hostVars
<1>4. /\ CleanupFrom(records[d]) \in {"rm_container", "rm_conf"} \cap PipelinePcs
      /\ records[d].held => CleanupFrom(records[d]) = "rm_container"
  BY DEF CleanupFrom, PipelinePcs, CleanupPcs
<1>5. /\ pc'[d] \in {"rm_container", "rm_conf"}
      /\ records[d].held => pc'[d] = "rm_container"
      /\ \A w \in Deleter : pc'[w] = pc[w]
  BY <1>3, <1>4, PipelineGoes
<1>6. /\ Known(d)' <=> Known(d)
      /\ Broken(d)' <=> Broken(d)
  BY <1>3 DEF Known, Broken, LastAttempt
<1>7. \A at \in SUBSET CleanupPcs : DeleteAt(d, at)' <=> DeleteAt(d, at)
  BY <1>3, <1>5 DEF DeleteAt
<1>8. HostAt(d)'
  <2>1. BuiltAt(d)'
    BY <1>2, <1>3, <1>5 DEF BuiltAt, Fits
  <2>2. ContainerAt(d) => ContainerAt(d)'
    BY <1>2, <1>3, <1>5, <1>6 DEF ContainerAt, Early
  <2>3. ImageAt(d) => ImageAt(d)'
    BY <1>2, <1>3, <1>5, <1>6, <1>7 DEF ImageAt, CleanupPcs, Early
  <2>4. RouteAt(d) => RouteAt(d)'
    BY <1>3, <1>5 DEF RouteAt, Early
  <2>5. QED
    BY <1>3, <2>1, <2>2, <2>3, <2>4 DEF HostInv, HostAt
<1>9. QED
  BY <1>3, <1>4, <1>8, PipelineAside

LEMMA AdvancesHost ==
    ASSUME BookInv, HostInv, NEW d \in Deployment, NEW rec, NEW label,
           Advances(d, rec, label)
    PROVE  HostInv'
<1>1. Working(d)
  BY DEF Advances, Working, Early
<1>2. Fits(pc[d], records[d]) /\ Visible(d) = records[d] /\ Known(d)
  BY <1>1, AtWorkFacts, WorkingVisible
<1>3. /\ Sound(rec) /\ Save(d, rec) /\ Goto(d, label)
      /\ rec.cancel = records[d].cancel
      /\ target' = target /\ container' = container /\ images' = images
      /\ conf' = conf /\ served' = served /\ faults' = faults /\ crashes' = crashes
  BY DEF Advances, hostVars
<1>4. /\ Visible(d)' = rec /\ rec # NoRecord
      /\ \A e \in Deployment \ {d} : Visible(e)' = Visible(e)
      /\ lost' = 0 => lost = 0
  BY <1>3, VisibleSaved
<1>5. /\ records'[d] = rec
      /\ \A e \in Deployment \ {d} : records'[e] = records[e]
  BY <1>3 DEF Save, BookInv, DeploymentTypeOK
<1>6. label \in PipelinePcs \ {"none", "killed"}
  BY DEF Advances, PipelinePcs, CleanupPcs
<1>7. /\ pc'[d] = label
      /\ \A w \in Deleter : pc'[w] = pc[w]
  BY <1>3, <1>6, PipelineGoes
<1>8. Known(d)'
  BY <1>4 DEF Known
<1>9. Ends(rec) => Broken(d)'
  BY <1>4, <1>8 DEF Ends, Broken, LastAttempt
\* Nobody deletes what is not cancelled.
<1>10. ~rec.cancel => \A at \in SUBSET CleanupPcs : ~DeleteAt(d, at)'
  BY <1>3, <1>7 DEF DeleteAt, BookInv, Deleting, CleanupPcs
<1>11. CASE pc[d] \in {"generate", "write", "build"} \cup Early
  <2>1. /\ rec.status # "running"
        /\ label \in {"clone", "scan", "generate", "write", "build", "done"} \cup CleanupPcs
    BY <1>11 DEF Advances, Early
  <2>2. BuiltAt(d)'
    BY <1>4, <1>7, <2>1 DEF BuiltAt, Publishing, CleanupPcs
  <2>3. ContainerAt(d) => ContainerAt(d)'
    BY <1>3, <1>11 DEF ContainerAt
  <2>4. ImageAt(d) => ImageAt(d)'
    BY <1>3, <1>11 DEF ImageAt
  <2>5. RouteAt(d) => RouteAt(d)'
    BY <1>3, <1>11 DEF RouteAt
  <2>6. HostAt(d)'
    BY <1>3, <1>4, <2>2, <2>3, <2>4, <2>5 DEF HostInv, HostAt
  <2>7. QED
    BY <1>3, <1>4, <1>5, <1>6, <2>6, PipelineAside
<1>12. CASE pc[d] \in {"listen", "abort"} /\ Ends(rec) /\ label = "done"
  <2>1. rec.status # "running"
    BY <1>12 DEF Advances
  <2>2. BuiltAt(d)'
    BY <1>4, <1>7, <1>12, <2>1 DEF BuiltAt, Working
  <2>3. ContainerAt(d)' /\ ImageAt(d)' /\ RouteAt(d)'
    BY <1>7, <1>9, <1>12 DEF ContainerAt, ImageAt, RouteAt, Early
  <2>4. HostAt(d)'
    BY <2>2, <2>3 DEF HostAt
  <2>5. QED
    BY <1>3, <1>4, <1>5, <1>6, <2>4, PipelineAside
<1>13. CASE pc[d] = "listen" /\ rec.cancel /\ label = "rm_container"
  <2>1. rec.status # "running"
    BY <1>13 DEF Advances
  <2>2. BuiltAt(d)'
    BY <1>4, <1>5, <1>13, <2>1 DEF BuiltAt
  <2>3. ContainerAt(d)' /\ ImageAt(d)' /\ RouteAt(d)'
    BY <1>7, <1>13 DEF ContainerAt, ImageAt, RouteAt, Early
  <2>4. HostAt(d)'
    BY <2>2, <2>3 DEF HostAt
  <2>5. QED
    BY <1>3, <1>4, <1>5, <1>6, <2>4, PipelineAside
<1>14. CASE /\ pc[d] = "listen" /\ ~rec.cancel /\ label = "put_conf"
            /\ rec.held /\ container[d] = "running"
  <2>1. rec.status # "running"
    BY <1>14 DEF Advances
  <2>2. BuiltAt(d) => BuiltAt(d)'
    BY <1>1, <1>3, <1>4, <1>7, <1>14, <2>1 DEF BuiltAt, Publishing
  <2>3. ContainerAt(d)'
    BY <1>4, <1>7, <1>8, <1>10, <1>14 DEF ContainerAt, Early, CleanupPcs
  <2>4. ImageAt(d)'
    BY <1>4, <1>7, <1>8, <1>14 DEF ImageAt, Early
  <2>5. RouteAt(d) => RouteAt(d)'
    BY <1>3, <1>14 DEF RouteAt
  <2>6. HostAt(d)'
    BY <1>3, <1>4, <2>2, <2>3, <2>4, <2>5 DEF HostInv, HostAt
  <2>7. QED
    BY <1>3, <1>4, <1>5, <1>6, <2>6, PipelineAside
<1>15. CASE pc[d] = "configured"
  <2>1. ~rec.cancel /\ rec.held /\ rec.attempts = records[d].attempts /\ label = "done"
    BY <1>15 DEF Advances
  <2>2. Broken(d) => Broken(d)'
    BY <1>2, <1>4, <1>8, <2>1 DEF Broken, LastAttempt
  <2>3. BuiltAt(d) => BuiltAt(d)'
    BY <1>1, <1>3, <1>7, <1>15, <2>1 DEF BuiltAt, Working, Publishing
  <2>4. ContainerAt(d)'
    BY <1>4, <1>7, <1>8, <1>10, <2>1 DEF ContainerAt, Early, CleanupPcs
  <2>5. ImageAt(d)' /\ RouteAt(d)'
    BY <1>4, <1>7, <1>8, <2>1 DEF ImageAt, RouteAt, Early
  <2>6. HostAt(d)'
    BY <1>3, <1>4, <2>3, <2>4, <2>5 DEF HostInv, HostAt
  <2>7. QED
    BY <1>3, <1>4, <1>5, <1>6, <2>6, PipelineAside
<1>16. QED
  BY <1>11, <1>12, <1>13, <1>14, <1>15 DEF Advances

\* The steps of a pipeline that change the host.
LEMMA HostStepHost ==
    ASSUME BookInv, HostInv, NEW d \in Deployment,
           ImageBuilt(d) \/ ContainerRun(d) \/ PutConf(d) \/ Reload(d)
    PROVE  HostInv'
<1>1. Working(d)
  BY DEF ImageBuilt, ContainerRun, PutConf, Reload, Working
<1>2. Fits(pc[d], records[d]) /\ Visible(d) = records[d] /\ Known(d)
  BY <1>1, AtWorkFacts, WorkingVisible
<1>3. /\ records' = records /\ rows' = rows /\ lost' = lost /\ target' = target
      /\ crashes' = crashes
      /\ \A e \in Deployment : Visible(e)' = Visible(e)
  BY VisibleQuiet DEF ImageBuilt, ContainerRun, PutConf, Reload, bookVars
<1>4. PICK label \in {"run", "listen", "reload", "configured", "abort"} :
          /\ Goto(d, label)
          /\ ImageBuilt(d) => label = "run"
          /\ ContainerRun(d) => label \in {"listen", "abort"}
          /\ PutConf(d) => label \in {"reload", "abort"}
          /\ Reload(d) => label \in {"configured", "abort"}
  BY DEF ImageBuilt, ContainerRun, PutConf, Reload
<1>5. label \in PipelinePcs
  BY <1>4 DEF PipelinePcs
<1>6. /\ pc'[d] = label
      /\ \A w \in Deleter : pc'[w] = pc[w]
  BY <1>3, <1>4, <1>5, PipelineGoes
<1>7. faults' = faults \/ faults' # 0
  BY Faulty DEF ImageBuilt, ContainerRun, PutConf, Reload
<1>8. /\ Known(d)' <=> Known(d)
      /\ Broken(d)' <=> Broken(d)
  BY <1>3 DEF Known, Broken, LastAttempt
<1>9. \A at \in SUBSET CleanupPcs : DeleteAt(d, at)' <=> DeleteAt(d, at)
  BY <1>3, <1>6 DEF DeleteAt
<1>10. /\ {"rm_container"} \in SUBSET CleanupPcs
       /\ {"rm_container", "rm_image"} \in SUBSET CleanupPcs
       /\ {"rm_container", "rm_image", "rm_conf"} \in SUBSET CleanupPcs
       /\ CleanupPcs \ {"rm_container"} \in SUBSET CleanupPcs
  BY DEF CleanupPcs
<1>11. Visible(d).status # "running"
  BY <1>2 DEF Fits
<1>12. \A e \in Deployment \ {d} :
          /\ records'[e] = records[e]
          /\ container'[e] = container[e]
          /\ e \in images' <=> e \in images
          /\ e \in conf' <=> e \in conf
          /\ e \in conf /\ e \in served => e \in served'
  BY <1>3 DEF ImageBuilt, ContainerRun, PutConf, Reload, BookInv, DeploymentTypeOK
<1>13. ASSUME faults' = 0 PROVE HostAt(d)'
  <2>1. faults = 0 /\ faults' = faults
    BY <1>7, <1>13
  <2>2. CASE ImageBuilt(d)
    <3>1. /\ pc[d] = "build" /\ pc'[d] = "run" /\ d \in images'
          /\ container' = container /\ conf' = conf
      BY <1>4, <1>6, <2>2 DEF ImageBuilt
    <3>2. BuiltAt(d)' /\ ImageAt(d)'
      BY <1>3, <1>11, <3>1 DEF BuiltAt, ImageAt, Publishing, Early
    <3>3. (ContainerAt(d) => ContainerAt(d)') /\ (RouteAt(d) => RouteAt(d)')
      BY <3>1 DEF ContainerAt, RouteAt
    <3>4. QED
      BY <1>3, <2>1, <3>2, <3>3 DEF HostInv, HostAt
  <2>3. CASE ContainerRun(d)
    <3>1. /\ pc[d] = "run" /\ pc'[d] \in {"listen", "abort"}
          /\ images' = images /\ conf' = conf
      BY <1>4, <1>6, <2>3 DEF ContainerRun
    <3>2. BuiltAt(d) => BuiltAt(d)'
      BY <1>1, <1>3, <1>11, <3>1 DEF BuiltAt, Publishing
    <3>3. ContainerAt(d)' /\ ImageAt(d)'
      BY <3>1 DEF ContainerAt, ImageAt, Early
    <3>4. RouteAt(d) => RouteAt(d)'
      BY <3>1 DEF RouteAt, Early
    <3>5. QED
      BY <1>3, <2>1, <3>2, <3>3, <3>4 DEF HostInv, HostAt
  <2>4. CASE PutConf(d)
    <3>1. /\ pc[d] = "put_conf" /\ pc'[d] = "reload" /\ d \in conf'
          /\ images' = images /\ container' = container
      BY <1>4, <1>6, <2>1, <2>4, Faulty DEF PutConf, Goto, Fault, BookInv, DeploymentTypeOK
    <3>2. BuiltAt(d) => BuiltAt(d)'
      BY <1>1, <1>3, <1>11, <3>1 DEF BuiltAt, Publishing
    <3>3. ContainerAt(d) => ContainerAt(d)'
      BY <1>3, <1>8, <1>9, <1>10, <3>1 DEF ContainerAt, Early, CleanupPcs
    <3>4. ImageAt(d) => ImageAt(d)'
      BY <1>3, <1>8, <1>9, <1>10, <3>1 DEF ImageAt, Early
    <3>5. RouteAt(d)'
      BY <3>1 DEF RouteAt, Early
    <3>6. QED
      BY <1>3, <2>1, <3>2, <3>3, <3>4, <3>5 DEF HostInv, HostAt
  <2>5. CASE Reload(d)
    <3>1. /\ pc[d] = "reload" /\ pc'[d] \in {"configured", "abort"}
          /\ images' = images /\ container' = container /\ conf' = conf
      BY <1>4, <1>6, <2>5 DEF Reload
    <3>2. pc'[d] = "configured" => served' = conf
      BY <1>4, <1>6, <2>5 DEF Reload, Goto, BookInv, DeploymentTypeOK, Worker
    <3>3. BuiltAt(d) => BuiltAt(d)'
      BY <1>1, <1>3, <1>11, <3>1, <3>2 DEF BuiltAt, Publishing
    <3>4. ContainerAt(d) => ContainerAt(d)'
      BY <1>3, <1>8, <1>9, <1>10, <3>1 DEF ContainerAt, Early, CleanupPcs
    <3>5. ImageAt(d) => ImageAt(d)'
      BY <1>3, <1>8, <1>9, <1>10, <3>1 DEF ImageAt, Early
    <3>6. RouteAt(d)'
      BY <1>2, <1>3, <1>8, <1>9, <1>10, <3>1 DEF RouteAt, Early
    <3>7. QED
      BY <1>3, <2>1, <3>3, <3>4, <3>5, <3>6 DEF HostInv, HostAt
  <2>6. QED
    BY <2>2, <2>3, <2>4, <2>5
<1>14. HostAt(d)'
  BY <1>13 DEF HostAt
<1>15. QED
  BY <1>3, <1>4, <1>5, <1>7, <1>12, <1>14, PipelineAside

\* A step of the cleanup of d by w: w is a delete, or d itself.
LEMMA CleanupHost ==
    ASSUME BookInv, HostInv, NEW w \in Worker, CleanupStep(w)
    PROVE  HostInv'
<1>1. pc[w] \in CleanupPcs
  BY DEF CleanupStep, RemoveContainer, RemoveImage, RemoveConf, RemoveReload, CleanupDone,
         CleanupPcs
<1>2. PICK d \in Deployment :
      /\ d = For(w)
      /\ w \in Deployment => d = w
      /\ w \in Deleter => w \notin Deployment /\ d = target[w]
      /\ Sound(records[d]) /\ records[d] # NoRecord
      /\ records[d].cancel
  BY <1>1, CleanupTarget, RecordAssumption
<1>3. /\ \/ (\E label \in CleanupPcs : Goto(w, label)) /\ UNCHANGED target
         \/ Leave(w)
      /\ crashes' = crashes
  BY DEF CleanupStep, RemoveContainer, RemoveImage, RemoveConf, RemoveReload, CleanupDone,
         CleanupPcs
<1>4. /\ \A v \in Worker \ {w} : pc'[v] = pc[v]
      /\ \A v \in Deleter : pc'[v] # "idle" => pc[v] # "idle" /\ target'[v] = target[v]
      /\ w \in Deployment => pc'[w] \in CleanupPcs \cup {"done"}
      /\ w \in Deleter => pc'[w] \in CleanupPcs \cup {"idle"}
  BY <1>1, <1>3, WorkerGoes
<1>5. \A v \in Deleter \ {w} : pc'[v] = pc[v] /\ target'[v] = target[v]
  <2>1. target' = target \/ (w \in Deleter /\ target' = [target EXCEPT ![w] = NoDeployment])
    BY <1>3 DEF Leave, Worker
  <2>2. QED
    BY <1>4, <2>1 DEF Worker, BookInv, DeploymentTypeOK
<1>6. faults' = faults \/ faults' # 0
  BY Faulty DEF CleanupStep, RemoveContainer, RemoveImage, RemoveConf, RemoveReload, CleanupDone
<1>7. Visible(d) = records[d] /\ Known(d)
  BY <1>2 DEF Visible, Known
\* What the step does to the records of the others, and to the one of d.
<1>8. /\ \A e \in Deployment \ {d} : Visible(e)' = Visible(e) /\ records'[e] = records[e]
      /\ Visible(d)' # NoRecord
      /\ Visible(d)'.cancel /\ Visible(d)'.status # "running" /\ records'[d].cancel
      /\ Visible(d)'.attempts = Visible(d).attempts
      /\ ~CleanupDone(w) => Visible(d)' = Visible(d)
      /\ lost' = 0 => lost = 0
  <2>1. CASE CleanupDone(w)
    <3> DEFINE rec == Cleared(records[d])
    <3>1. /\ Sound(rec) /\ Save(d, rec)
          /\ rec.cancel /\ rec.status = "deleted" /\ rec.attempts = records[d].attempts
      BY <1>2, <2>1, CleanupWrites
    <3> HIDE DEF rec
    <3>2. records' = [records EXCEPT ![d] = rec]
      BY <3>1 DEF Save
    <3>3. QED
      BY <1>2, <1>7, <2>1, <3>1, <3>2, VisibleSaved DEF BookInv, DeploymentTypeOK
  <2>2. CASE ~CleanupDone(w)
    <3>1. UNCHANGED bookVars
      BY <2>2 DEF CleanupStep, RemoveContainer, RemoveImage, RemoveConf, RemoveReload
    <3>2. \A e \in Deployment : Visible(e)' = Visible(e)
      BY <3>1, VisibleQuiet
    <3>3. QED
      BY <1>2, <1>7, <2>2, <3>1, <3>2 DEF bookVars, Sound
  <2>3. QED
    BY <2>1, <2>2
<1>9. Known(d)' /\ (Broken(d) => Broken(d)')
  BY <1>7, <1>8 DEF Known, Broken, LastAttempt
<1>10. \A e \in Deployment \ {d} : HostAt(e)'
  <2> SUFFICES ASSUME NEW e \in Deployment \ {d} PROVE HostAt(e)'
    OBVIOUS
  <2>1. pc'[e] = pc[e]
    BY <1>2, <1>4 DEF Worker
  <2>2. /\ container'[e] = container[e]
        /\ e \in images' <=> e \in images
        /\ e \in conf' <=> e \in conf
        /\ e \in served /\ e \in conf => e \in served'
    BY <1>2 DEF CleanupStep, RemoveContainer, RemoveImage, RemoveConf, RemoveReload, CleanupDone,
               hostVars, BookInv, DeploymentTypeOK
  <2>3. \A v \in Deleter :
            \/ pc'[v] = pc[v] /\ target'[v] = target[v]
            \/ /\ pc[v] \in CleanupPcs => target[v] # e
               /\ pc'[v] \in CleanupPcs => target'[v] # e
    BY <1>2, <1>4, <1>5 DEF CleanupPcs
  <2>4. QED
    BY <1>3, <1>6, <1>8, <2>1, <2>2, <2>3, Aside DEF HostInv
\* The pipeline of d is where it was, unless it is the one that cleans up.
<1>11. pc'[d] = pc[d] \/ (w = d /\ w \in Deployment /\ w \notin Deleter)
  BY <1>2, <1>4, DeploymentAssumption DEF Worker
<1>12. w = d \/ (w \in Deleter /\ target[w] = d)
  BY <1>2 DEF Worker
<1>13. pc'[w] \notin CleanupPcs \/ (pc'[w] \in CleanupPcs /\ target' = target)
  BY <1>3 DEF Leave, Goto, CleanupPcs, BookInv, DeploymentTypeOK
<1>14. ASSUME faults' = 0 PROVE HostAt(d)'
  <2>1. faults = 0 /\ ~Fault
    BY <1>6, <1>14, Faulty
  <2>2. BuiltAt(d)'
    BY <1>8 DEF BuiltAt
\* Past the removal, whoever does it, the container is known otherwise.
  <2>3. ASSUME pc[w] # "rm_container", container'[d] = container[d]
        PROVE  ContainerAt(d) => ContainerAt(d)'
    <3>1. pc[d] \in CleanupPcs \/ DeleteAt(d, CleanupPcs \ {"rm_container"})
      BY <1>1, <1>12, <2>3 DEF DeleteAt
    <3>2. /\ pc[d] \in {"listen", "abort", "rm_container", "killed"} => pc'[d] = pc[d]
          /\ pc'[d] \in {"none", "generate", "write", "build", "run"} \cup Early => pc'[d] = pc[d]
      BY <1>1, <1>4, <1>11, <2>3 DEF CleanupPcs, Early
    <3>3. QED
      BY <1>9, <2>3, <3>1, <3>2 DEF ContainerAt
  <2>4. ASSUME pc[w] \notin {"rm_container", "rm_image"}, d \in images' <=> d \in images
        PROVE  ImageAt(d) => ImageAt(d)'
    <3>1. DeleteAt(d, {"rm_container", "rm_image"}) => DeleteAt(d, {"rm_container", "rm_image"})'
      BY <1>5, <2>4 DEF DeleteAt
    <3>2. /\ pc[d] \in {"run", "listen", "abort", "rm_container", "rm_image"} => pc'[d] = pc[d]
          /\ pc'[d] \in {"none", "generate", "write", "build"} \cup Early => pc'[d] = pc[d]
      BY <1>1, <1>4, <1>11, <2>4 DEF CleanupPcs, Early
    <3>3. Visible(d).cancel
      BY <1>2, <1>7
    <3>4. QED
      BY <1>8, <1>9, <2>4, <3>1, <3>2, <3>3 DEF ImageAt
  <2>5. ASSUME pc[w] \notin {"rm_container", "rm_image", "rm_conf"}, d \in conf' <=> d \in conf
        PROVE  RouteAt(d) => RouteAt(d)'
    <3>1. DeleteAt(d, {"rm_container", "rm_image", "rm_conf"}) =>
              DeleteAt(d, {"rm_container", "rm_image", "rm_conf"})'
      BY <1>5, <2>5 DEF DeleteAt
    <3>2. /\ pc[d] \in {"reload", "configured", "abort", "rm_container", "rm_image", "rm_conf"} =>
                 pc'[d] = pc[d]
          /\ pc'[d] \in {"none", "generate", "write", "build", "run", "listen", "put_conf"}
                        \cup Early => pc'[d] = pc[d]
      BY <1>1, <1>4, <1>11, <2>5 DEF CleanupPcs, Early
    <3>3. Visible(d).cancel
      BY <1>2, <1>7
    <3>4. QED
      BY <1>8, <1>9, <2>5, <3>1, <3>2, <3>3 DEF RouteAt
\* On its way there, it is w itself that will remove what is left.
  <2>6. ASSUME pc'[w] \in {"rm_image", "rm_conf"}
        PROVE  \/ pc'[d] = pc'[w]
               \/ /\ pc'[d] = pc[d]
                  /\ \A at \in SUBSET CleanupPcs : pc'[w] \in at => DeleteAt(d, at)'
    BY <1>11, <1>12, <1>13, <2>6 DEF DeleteAt, CleanupPcs
  <2>7. CASE RemoveContainer(w)
    <3>1. /\ container'[d] = "none" /\ pc'[w] = "rm_image"
          /\ images' = images /\ conf' = conf
      BY <1>1, <1>2, <2>1, <2>7 DEF RemoveContainer, Goto, BookInv, DeploymentTypeOK
    <3>2. ContainerAt(d)'
      BY <3>1 DEF ContainerAt
    <3>3. ImageAt(d) => ImageAt(d)'
      <4>1. CASE pc'[d] = "rm_image"
        BY <4>1 DEF ImageAt, Early
      <4>2. CASE pc'[d] = pc[d] /\ DeleteAt(d, {"rm_container", "rm_image"})'
        BY <1>8, <1>9, <3>1, <4>2 DEF ImageAt
      <4>3. QED
        BY <2>6, <3>1, <4>1, <4>2 DEF CleanupPcs
    <3>4. RouteAt(d) => RouteAt(d)'
      <4>1. CASE pc'[d] = "rm_image"
        BY <4>1 DEF RouteAt, Early
      <4>2. CASE pc'[d] = pc[d] /\ DeleteAt(d, {"rm_container", "rm_image", "rm_conf"})'
        BY <1>8, <1>9, <3>1, <4>2 DEF RouteAt
      <4>3. QED
        BY <2>6, <3>1, <4>1, <4>2 DEF CleanupPcs
    <3>5. QED
      BY <1>2, <1>3, <2>1, <2>2, <3>2, <3>3, <3>4 DEF HostInv, HostAt
  <2>8. CASE RemoveImage(w)
    <3>1. /\ d \notin images' /\ pc[w] = "rm_image" /\ pc'[w] = "rm_conf"
          /\ container' = container /\ conf' = conf
      BY <1>1, <1>2, <2>1, <2>8 DEF RemoveImage, Goto, BookInv, DeploymentTypeOK
    <3>2. ContainerAt(d) => ContainerAt(d)'
      BY <2>3, <3>1
    <3>3. ImageAt(d)'
      BY <3>1 DEF ImageAt
    <3>4. RouteAt(d) => RouteAt(d)'
      <4>1. CASE pc'[d] = "rm_conf"
        BY <4>1 DEF RouteAt, Early
      <4>2. CASE pc'[d] = pc[d] /\ DeleteAt(d, {"rm_container", "rm_image", "rm_conf"})'
        BY <1>8, <1>9, <3>1, <4>2 DEF RouteAt
      <4>3. QED
        BY <2>6, <3>1, <4>1, <4>2 DEF CleanupPcs
    <3>5. QED
      BY <1>2, <1>3, <1>8, <2>1, <2>2, <3>2, <3>3, <3>4 DEF HostInv, HostAt
  <2>9. CASE RemoveConf(w)
    <3>1. /\ d \notin conf' /\ pc[w] = "rm_conf"
          /\ container' = container /\ images' = images
      BY <1>2, <2>1, <2>9 DEF RemoveConf
    <3>2. RouteAt(d)'
      BY <3>1 DEF RouteAt
    <3>3. (ContainerAt(d) => ContainerAt(d)') /\ (ImageAt(d) => ImageAt(d)')
      BY <2>3, <2>4, <3>1
    <3>4. QED
      BY <1>2, <1>3, <1>8, <2>1, <2>2, <3>2, <3>3 DEF HostInv, HostAt
  <2>10. CASE RemoveReload(w) \/ CleanupDone(w)
    <3>1. /\ pc[w] \in {"rm_reload", "rm_done"}
          /\ container' = container /\ images' = images /\ conf' = conf
      BY <2>10 DEF RemoveReload, CleanupDone, hostVars
    <3>2. /\ ContainerAt(d) => ContainerAt(d)'
          /\ ImageAt(d) => ImageAt(d)'
          /\ RouteAt(d) => RouteAt(d)'
      BY <2>3, <2>4, <2>5, <3>1
    <3>3. QED
      BY <1>2, <1>3, <1>8, <2>1, <2>2, <3>2 DEF HostInv, HostAt
  <2>11. QED
    BY <2>7, <2>8, <2>9, <2>10 DEF CleanupStep
<1>15. QED
  BY <1>10, <1>14 DEF HostInv, HostAt

LEMMA DeleteHost ==
    ASSUME BookInv, HostInv, NEW w \in Deleter, NEW d \in Deployment, DeleteBegin(w, d)
    PROVE  HostInv'
<1> DEFINE rec == Marked(Visible(d))
<1>1. /\ Sound(rec) /\ Save(d, rec)
      /\ rec.status = "deleting"
      /\ rec.cancel
      /\ rec.held = Visible(d).held
      /\ rec.attempts = Visible(d).attempts
  BY DeleteWrites
<1> HIDE DEF rec
<1>2. /\ pc[w] = "idle"
      /\ Known(d)
      /\ target' = [target EXCEPT ![w] = d]
      /\ container' = container /\ images' = images /\ conf' = conf /\ served' = served
      /\ faults' = faults /\ crashes' = crashes
  BY DEF DeleteBegin, Known, hostVars
<1>3. w \in Worker /\ w \notin Deployment
  BY DeploymentAssumption DEF Worker
<1>4. /\ \A v \in Worker \ {w} : pc'[v] = pc[v]
      /\ pc'[w] \in {"rm_container", "rm_conf"}
      /\ Visible(d).held => pc'[w] = "rm_container"
  BY <1>3 DEF DeleteBegin, Goto, CleanupFrom, BookInv, DeploymentTypeOK
<1>5. target'[w] = d /\ \A v \in Deleter \ {w} : pc'[v] = pc[v] /\ target'[v] = target[v]
  BY <1>2, <1>4 DEF Worker, BookInv, DeploymentTypeOK
<1>6. \A e \in Deployment : pc'[e] = pc[e]
  BY <1>3, <1>4 DEF Worker
<1>7. /\ Visible(d)' = rec /\ rec # NoRecord
      /\ \A e \in Deployment \ {d} : Visible(e)' = Visible(e)
      /\ lost' = 0 => lost = 0
  BY <1>1, VisibleSaved
<1>8. /\ records'[d] = rec
      /\ \A e \in Deployment \ {d} : records'[e] = records[e]
  BY <1>1 DEF Save, BookInv, DeploymentTypeOK
<1>9. \A e \in Deployment \ {d} : HostAt(e)'
  <2> SUFFICES ASSUME NEW e \in Deployment \ {d} PROVE HostAt(e)'
    OBVIOUS
  <2>1. \A v \in Deleter :
            \/ pc'[v] = pc[v] /\ target'[v] = target[v]
            \/ /\ pc[v] \in CleanupPcs => target[v] # e
               /\ pc'[v] \in CleanupPcs => target'[v] # e
    BY <1>2, <1>5 DEF CleanupPcs
  <2>2. QED
    BY <1>2, <1>6, <1>7, <1>8, <2>1, Aside DEF HostInv
<1>10. Known(d)' /\ (Broken(d) => Broken(d)')
  BY <1>1, <1>2, <1>7 DEF Known, Broken, LastAttempt
<1>11. \A at \in SUBSET CleanupPcs : DeleteAt(d, at) => DeleteAt(d, at)'
  BY <1>2, <1>5 DEF DeleteAt, CleanupPcs
<1>12. \A at \in SUBSET CleanupPcs : pc'[w] \in at => DeleteAt(d, at)'
  BY <1>5 DEF DeleteAt
<1>13. pc'[w] = "rm_container" /\ ~DeleteAt(d, CleanupPcs \ {"rm_container"}) =>
           ~DeleteAt(d, CleanupPcs \ {"rm_container"})'
  BY <1>5 DEF DeleteAt
<1>14. BuiltAt(d)'
  BY <1>1, <1>7, <1>8 DEF BuiltAt
<1>15. ContainerAt(d) => ContainerAt(d)'
  BY <1>1, <1>2, <1>4, <1>6, <1>7, <1>10, <1>12, <1>13 DEF ContainerAt, CleanupPcs
<1>16. ImageAt(d) => ImageAt(d)'
  <2>1. DeleteAt(d, {"rm_container", "rm_image"}) \/ Visible(d).held =>
            DeleteAt(d, {"rm_container", "rm_image"})'
    BY <1>4, <1>11, <1>12 DEF CleanupPcs
  <2>2. QED
    BY <1>1, <1>2, <1>6, <1>7, <1>10, <2>1 DEF ImageAt
<1>17. RouteAt(d) => RouteAt(d)'
  <2>1. DeleteAt(d, {"rm_container", "rm_image", "rm_conf"})'
    BY <1>4, <1>12 DEF CleanupPcs
  <2>2. QED
    BY <1>2, <1>6, <1>10, <2>1 DEF RouteAt
<1>18. HostAt(d)'
  BY <1>2, <1>7, <1>14, <1>15, <1>16, <1>17 DEF HostInv, HostAt
<1>19. QED
  BY <1>9, <1>18 DEF HostInv

LEMMA QuietHost ==
    ASSUME BookInv, HostInv,
           UNCHANGED vars \/ \E d \in Deployment : GetStatus(d)
    PROVE  HostInv'
<1>1. /\ \A e \in Deployment : Visible(e)' = Visible(e)
      /\ pc' = pc /\ target' = target /\ lost' = lost
      /\ container' = container /\ images' = images /\ conf' = conf /\ served' = served
      /\ faults' = faults /\ crashes' = crashes
  BY VisibleQuiet, VisibleGetStatus DEF GetStatus, vars, hostVars, bookVars
<1>2. \A e \in Deployment : Working(e) => records'[e] = records[e]
  <2> SUFFICES ASSUME NEW e \in Deployment, Working(e) PROVE records'[e] = records[e]
    OBVIOUS
  <2>1. records[e] # NoRecord
    BY AtWorkFacts DEF Fits
  <2>2. QED
    BY <2>1 DEF GetStatus, vars, bookVars, BookInv, DeploymentTypeOK
<1>3. \A e \in Deployment : HostAt(e)'
  BY <1>1, <1>2, Aside DEF HostInv
<1>4. QED
  BY <1>3 DEF HostInv

LEMMA ContainerGoesHost ==
    ASSUME BookInv, NEW d \in Deployment, ContainerGoes(d)
    PROVE  HostInv'
<1>1. faults' # 0
  BY Faulty DEF ContainerGoes
<1>2. QED
  BY <1>1 DEF HostInv, HostAt

LEMMA CrashHost ==
    ASSUME BookInv, HostInv, Crash
    PROVE  HostInv'
<1>1. /\ crashes' # 0 /\ lost' = lost /\ faults' = faults
      /\ container' = container /\ images' = images /\ conf' = conf /\ served' = served
  BY DeploymentAssumption DEF Crash, BookInv, DeploymentTypeOK, hostVars
<1>2. SUFFICES ASSUME lost = 0, NEW d \in Deployment PROVE HostAt(d)'
  BY <1>1 DEF HostInv, HostAt
<1>3. /\ \A w \in Deleter : pc'[w] = "idle"
      /\ pc'[d] = IF pc[d] \in {"none", "done"} THEN pc[d] ELSE "killed"
  BY DeploymentAssumption DEF Crash, Worker
<1>4. Visible(d)' = Visible(d)
  BY <1>2, VisibleCrash
<1>5. (Known(d)' <=> Known(d)) /\ (Broken(d)' <=> Broken(d))
  BY <1>4 DEF Known, Broken, LastAttempt
<1>6. \A at \in SUBSET CleanupPcs : ~DeleteAt(d, at)'
  BY <1>3 DEF DeleteAt, CleanupPcs
<1>7. BuiltAt(d) => BuiltAt(d)'
  BY <1>1, <1>3, <1>4, <1>5 DEF BuiltAt, Working
<1>8. ContainerAt(d) => ContainerAt(d)'
  BY <1>1, <1>3, <1>4, <1>5, <1>6 DEF ContainerAt, Early, CleanupPcs
<1>9. QED
  BY <1>1, <1>2, <1>7, <1>8 DEF HostInv, HostAt

LEMMA HostStep == BookInv /\ HostInv /\ [Next]_vars => HostInv'
<1> SUFFICES ASSUME BookInv, HostInv, [Next]_vars PROVE HostInv'
  OBVIOUS
<1>1. CASE \E d \in Deployment : RequestDeployment(d)
  BY <1>1, RequestHost
<1>2. ASSUME NEW d \in Deployment, PipelineStep(d) PROVE HostInv'
  <2>1. Effect(d) => HostInv'
    BY TurnsBackHost, AdvancesHost DEF Effect
  <2>2. QED
    BY <1>2, <2>1, PipelineEffect, HostStepHost, CleanupHost DEF Worker
<1>3. CASE \E w \in Deleter : CleanupStep(w)
  BY <1>3, CleanupHost DEF Worker
<1>4. CASE \E w \in Deleter, d \in Deployment : DeleteBegin(w, d)
  BY <1>4, DeleteHost
<1>5. CASE (\E d \in Deployment : GetStatus(d)) \/ UNCHANGED vars
  BY <1>5, QuietHost
<1>6. CASE \E d \in Deployment : ContainerGoes(d)
  BY <1>6, ContainerGoesHost
<1>7. CASE Crash
  BY <1>7, CrashHost
<1>8. QED
  BY <1>1, <1>2, <1>3, <1>4, <1>5, <1>6, <1>7 DEF Next

\* What is on the host is known, or somebody is about to remove it: the
\* invariant the three below rest on.
THEOREM HostKnown == Spec => []HostInv
<1>1. Spec => Init /\ [][Next]_vars
  BY DEF Spec
<1>2. QED
  BY <1>1, HostInit, HostStep, BooksInOrder, PTL

\* A deployment shown as running has its container, image and route, and no
\* delete has begun, whatever overlaps and whatever is restarted.
THEOREM ServedWhenRunning == Spec => []RunningIsServed
<1>1. BookInv /\ HostInv => RunningIsServed
  <2> SUFFICES ASSUME BookInv, HostInv, NEW d \in Deployment,
                      Known(d), Visible(d).status = "running"
               PROVE  /\ Visible(d).held /\ Visible(d).url /\ ~Visible(d).cancel
                      /\ faults + lost = 0 =>
                             container[d] = "running" /\ d \in images \cap conf \cap served
    BY DEF RunningIsServed
  <2>1. Sound(Visible(d))
    BY DEF Known, Visible, BookInv, Shown
  <2>2. faults + lost = 0 => faults = 0 /\ lost = 0
    BY DeploymentAssumption DEF BookInv, DeploymentTypeOK
  <2>3. faults = 0 /\ lost = 0 => BuiltAt(d)
    BY DEF HostInv, HostAt
  <2>4. QED
    BY <2>1, <2>2, <2>3 DEF Sound, BuiltAt
<1>2. QED
  BY <1>1, BooksInOrder, HostKnown, PTL

\* A container nobody is at work on is in the record, or one of the reasons
\* named is there: what a pipeline built is not forgotten, even by a restart.
THEOREM NoneForgotten == Spec => []NothingForgotten
<1>1. BookInv /\ HostInv => NothingForgotten
  <2> SUFFICES ASSUME BookInv, HostInv, NEW d \in Deployment,
                      container[d] # "none", ~Working(d), ~(faults + lost > 0)
               PROVE  \/ Known(d) /\ Visible(d).held
                      \/ Broken(d)
                      \/ pc[d] = "killed"
    BY DEF NothingForgotten
  <2>1. faults = 0 /\ lost = 0
    BY DeploymentAssumption DEF BookInv, DeploymentTypeOK
  <2>2. ContainerAt(d)
    BY <2>1 DEF HostInv, HostAt
  <2>3. QED
    BY <2>2 DEF ContainerAt, Working
<1>2. QED
  BY <1>1, BooksInOrder, HostKnown, PTL

\* A delete that overlaps the pipeline at any point leaves nothing behind, when
\* no call fails: whoever sees the flag last removes what is there.
THEOREM NothingLeft == Spec => []DeletedLeavesNothing
<1>1. BookInv /\ HostInv => DeletedLeavesNothing
  <2> SUFFICES ASSUME BookInv, HostInv, NEW d \in Deployment,
                      Known(d), Visible(d).cancel, Idle(d), ~Broken(d),
                      faults + crashes = 0
               PROVE  container[d] = "none" /\ d \notin images \cup conf
    BY DEF DeletedLeavesNothing
  <2>1. faults = 0 /\ crashes = 0
    BY DeploymentAssumption DEF BookInv, DeploymentTypeOK
  <2>2. ContainerAt(d) /\ ImageAt(d) /\ RouteAt(d)
    BY <2>1 DEF HostInv, HostAt
  <2>3. pc[d] \in {"none", "done"}
    BY <2>1 DEF Idle, Working, BookInv, InStep
  <2>4. \A at : ~DeleteAt(d, at)
    BY DEF Idle, DeleteAt
  <2>5. QED
    BY <2>1, <2>2, <2>3, <2>4 DEF ContainerAt, ImageAt, RouteAt
<1>2. QED
  BY <1>1, BooksInOrder, HostKnown, PTL
=============================================================================
