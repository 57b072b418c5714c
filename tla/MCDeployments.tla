--------------------------- MODULE MCDeployments ---------------------------
(* Deployments on a small instance: from an empty system, or beside a      *)
(* neighbour that is up, as its own pipeline has left it.                  *)
EXTENDS Deployments, TLC

CONSTANTS d1, d2, x1, x2

MCSymmetry == Permutations(Deployment) \cup Permutations(Deleter)

Up == [status |-> "running", held |-> TRUE, url |-> TRUE, cancel |-> FALSE,
       attempts |-> <<"build_succeeded">>]

Book == [d \in Deployment |-> IF d = d2 THEN Up ELSE NoRecord]

MCInit ==
    /\ records = Book
    /\ rows = Book
    /\ pc = [w \in Worker |-> CASE w = d2 -> "done" [] w = d1 -> "none" [] OTHER -> "idle"]
    /\ target = [w \in Deleter |-> NoDeployment]
    /\ container = [d \in Deployment |-> IF d = d2 THEN "running" ELSE "none"]
    /\ images = {d2}
    /\ conf = {d2}
    /\ served = {d2}
    /\ faults = 0
    /\ lost = 0
    /\ crashes = 0

MCSpec == MCInit /\ [][Next]_vars /\ Fairness

\* Both requests may delete d1, one of them the neighbour as well; whatever
\* fails, it is one thing.
OneFailure == target[x1] # d2 /\ faults + lost + crashes <= 1
=============================================================================
