------------------------ MODULE MCInstanceLifecycle ------------------------
(* Instances of one tenant that each take one unit of a plan; how many    *)
(* ports there are and requests interleave is up to the configuration.    *)
EXTENDS InstanceLifecycle

MCOwner == [i \in Instance |-> CHOOSE t \in Tenant : TRUE]
MCNeed  == [i \in Instance |-> [x \in Resource |-> 1]]
MCPorts == 22000 .. 22001
\* One port more than the plan has room for: the plan is what refuses a create.
SparePorts == 22000 .. 22002

\* Room for two instances, and for a single one (the plan a new
\* tenant gets and the smallest flavor).
RoomForTwo == [x \in Resource |-> 2]
RoomForOne == [x \in Resource |-> 1]

\* Several requests at once, each on a row of its own and one of them a creation.
Orderly == OneCreation /\ OneRequestPerRow

OrderlySpec == Init /\ [][Next /\ Orderly']_vars /\ Fairness
=============================================================================
