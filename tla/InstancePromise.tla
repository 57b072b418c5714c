---------------------------- MODULE InstancePromise ----------------------------
(***************************************************************************)
(* What the API tells a tenant about an instance, without how it is done:  *)
(* the instance's status and deleted_at, and the status of its CREATE      *)
(* operation.  A creation ends once, as a success or a failure; only an    *)
(* instance whose creation succeeded is started and stopped afterwards, by *)
(* its user or by billing; deleted_at is never taken back, although a      *)
(* request or a creation that overlaps a delete may still bring the        *)
(* instance back after it.                                                 *)
(***************************************************************************)
CONSTANT Instance

VARIABLES
    status,
    createOp,
    deletedAt

told == <<status, createOp, deletedAt>>

Init ==
    /\ status = [i \in Instance |-> "absent"]
    /\ createOp = [i \in Instance |-> "absent"]
    /\ deletedAt = {}

Accept(i) ==
    /\ status[i] = "absent"
    /\ status' = [status EXCEPT ![i] = "PROVISIONING"]
    /\ createOp' = [createOp EXCEPT ![i] = "PENDING"]
    /\ UNCHANGED deletedAt

Provision(i) ==
    /\ createOp[i] = "PENDING"
    /\ createOp' = [createOp EXCEPT ![i] = "RUNNING"]
    /\ UNCHANGED <<status, deletedAt>>

End(i, outcome, s) ==
    /\ createOp[i] = "RUNNING"
    /\ createOp' = [createOp EXCEPT ![i] = outcome]
    /\ status' = [status EXCEPT ![i] = s]
    /\ UNCHANGED deletedAt

Succeed(i) == End(i, "SUCCESS", "RUNNING")
Fail(i)    == End(i, "FAILED", "ERROR")

\* Billing stops all instances of a tenant at once.
Power(rows, s) ==
    /\ \A i \in rows : createOp[i] = "SUCCESS"
    /\ status' = [i \in Instance |-> IF i \in rows THEN s ELSE status[i]]
    /\ UNCHANGED <<createOp, deletedAt>>

Delete(i) ==
    /\ status[i] # "absent"
    /\ status' = [status EXCEPT ![i] = "TERMINATED"]
    /\ deletedAt' = deletedAt \cup {i}
    /\ UNCHANGED createOp

Next ==
    \/ \E i \in Instance :
           Accept(i) \/ Provision(i) \/ Succeed(i) \/ Fail(i) \/ Delete(i)
               \/ Power({i}, "RUNNING")
    \/ \E rows \in SUBSET Instance : Power(rows, "STOPPED")

Spec == Init /\ [][Next]_told
=============================================================================
