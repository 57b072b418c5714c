------------------------- MODULE DeploymentPromise -------------------------
(***************************************************************************)
(* What the API tells a tenant about a deployment, without how it is done: *)
(* once accepted it runs or fails, once; it can be closed (DELETE) at any  *)
(* time, and a closed deployment is never running again.                   *)
(***************************************************************************)
CONSTANT Deployment

VARIABLE phase

Phases == {"absent", "open", "running", "failed", "closed"}

Init == phase = [d \in Deployment |-> "absent"]

Move(d, from, to) ==
    /\ phase[d] \in from
    /\ phase' = [phase EXCEPT ![d] = to]

Accept(d)  == Move(d, {"absent"}, "open")
Succeed(d) == Move(d, {"open"}, "running")
Fail(d)    == Move(d, {"open"}, "failed")
Close(d)   == Move(d, Phases \ {"absent"}, "closed")

Next == \E d \in Deployment : Accept(d) \/ Succeed(d) \/ Fail(d) \/ Close(d)

Spec == Init /\ [][Next]_phase
=============================================================================
