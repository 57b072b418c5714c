------------------------------ MODULE Networks ------------------------------
(***************************************************************************)
(* A tenant's networks (NetworkService): rows with a name and a CIDR.  A   *)
(* create or an update checks both against the rows it reads, then commits *)
(* its own; every request has a thread, a session and a transaction of its *)
(* own, and only the unique index on (tenant, name) is looked at again at  *)
(* the commit.                                                             *)
(***************************************************************************)
EXTENDS Integers

CONSTANTS
    Id,             \* the primary keys; a bound: an id is never used again
    Tenant,
    Name,
    Cidr,
    Block,          \* Block[c]: the addresses of ip_network(c, strict=False)
    Request,
    None            \* a field that is not written, a row that does not exist

ASSUME NetworkAssumption ==
    /\ Block \in [Cidr -> SUBSET Int]
    /\ None \notin Name \cup Cidr \cup Id

VARIABLES
    nets,           \* table networks
    fresh,          \* the ids the sequence has not given yet
    job,            \* what a request has checked and is about to commit
    raced           \* history: tenants that had two requests in flight

vars == <<nets, fresh, job, raced>>

Network == [tenant : Tenant, name : Name, cidr : Cidr]
Job == [op : {"create", "update", "delete"}, id : Id, tenant : Tenant,
        name : Name \cup {None}, cidr : Cidr \cup {None}]

ASSUME RowAssumption == None \notin Network /\ None \notin Job

Init ==
    /\ nets = [n \in Id |-> None]
    /\ fresh = Id
    /\ job = [r \in Request |-> None]
    /\ raced = {}

Rows == {n \in Id : nets[n] # None}
RowsOf(t) == {n \in Rows : nets[n].tenant = t}

\* ip_network.overlaps
Overlap(c, e) == Block[c] \cap Block[e] # {}

\* _assert_unique_name and _assert_no_cidr_overlap: the row itself is left
\* aside in an update.
NameFree(t, m, self) == \A n \in RowsOf(t) \ {self} : nets[n].name # m
CidrFree(t, c, self) == \A n \in RowsOf(t) \ {self} : ~Overlap(c, nets[n].cidr)

\* The checks of r have passed.
Begin(r, j) ==
    /\ job[r] = None
    /\ job' = [job EXCEPT ![r] = j]
    /\ raced' = raced \cup {t \in {j.tenant} :
                    \E q \in Request : job[q] # None /\ job[q].tenant = t}
    /\ UNCHANGED nets

CreateCheck(r, t, m, c) ==
    /\ NameFree(t, m, None)
    /\ CidrFree(t, c, None)
    /\ \E n \in fresh :
           /\ Begin(r, [op |-> "create", id |-> n, tenant |-> t, name |-> m, cidr |-> c])
           /\ fresh' = fresh \ {n}

\* The session writes a column only if its value differs from the one read.
Changed(new, old) == IF new = old THEN None ELSE new

\* Mutant: the CIDR is checked only when the name changes as well.
UpdateCheckMut(r, n, m, c) ==
    /\ n \in Rows
    /\ m # None => /\ NameFree(nets[n].tenant, m, n)
                   /\ c # None => CidrFree(nets[n].tenant, c, n)
    /\ Begin(r, [op |-> "update", id |-> n, tenant |-> nets[n].tenant,
                 name |-> Changed(m, nets[n].name), cidr |-> Changed(c, nets[n].cidr)])
    /\ UNCHANGED fresh

\* update_network: each field is optional and checked when it is given.
UpdateCheck(r, n, m, c) ==
    /\ n \in Rows
    /\ m # None => NameFree(nets[n].tenant, m, n)
    /\ c # None => CidrFree(nets[n].tenant, c, n)
    /\ Begin(r, [op |-> "update", id |-> n, tenant |-> nets[n].tenant,
                 name |-> Changed(m, nets[n].name), cidr |-> Changed(c, nets[n].cidr)])
    /\ UNCHANGED fresh

DeleteRead(r, n) ==
    /\ n \in Rows
    /\ Begin(r, [op |-> "delete", id |-> n, tenant |-> nets[n].tenant,
                 name |-> None, cidr |-> None])
    /\ UNCHANGED fresh

\* Mutant: a column that has not changed is written all the same.
OrMut(new, old) == new

Or(new, old) == IF new = None THEN old ELSE new

\* Mutant: no unique index.
RefusedMut(j) == j.op # "create" /\ j.id \notin Rows

\* The unique index on (tenant, name) and the primary key, at the commit.
Refused(j) ==
    \/ j.op # "create" /\ j.id \notin Rows
    \/ j.op # "delete" /\ j.name # None /\ ~NameFree(j.tenant, j.name, j.id)

\* An update writes the columns it has changed and no other.
Written(j) ==
    CASE j.op = "create" -> [tenant |-> j.tenant, name |-> j.name, cidr |-> j.cidr]
      [] j.op = "update" -> [tenant |-> nets[j.id].tenant,
                             name |-> Or(j.name, nets[j.id].name),
                             cidr |-> Or(j.cidr, nets[j.id].cidr)]
      [] j.op = "delete" -> None

Commit(r) ==
    LET j == job[r] IN
    /\ j # None
    /\ job' = [job EXCEPT ![r] = None]
    /\ \/ ~Refused(j) /\ nets' = [nets EXCEPT ![j.id] = Written(j)]
       \/ Refused(j) /\ UNCHANGED nets
    /\ UNCHANGED <<fresh, raced>>

Next ==
    \/ \E r \in Request, t \in Tenant, m \in Name, c \in Cidr : CreateCheck(r, t, m, c)
    \/ \E r \in Request, n \in Id, m \in Name \cup {None}, c \in Cidr \cup {None} :
           UpdateCheck(r, n, m, c)
    \/ \E r \in Request, n \in Id : DeleteRead(r, n)
    \/ \E r \in Request : Commit(r)

Spec == Init /\ [][Next]_vars

-----------------------------------------------------------------------------
NetworksTypeOK ==
    /\ nets \in [Id -> Network \cup {None}]
    /\ fresh \subseteq Id
    /\ job \in [Request -> Job \cup {None}]
    /\ raced \subseteq Tenant

\* The networks of a tenant are told apart by their names, whatever requests
\* interleave.
NamesUnique ==
    \A t \in Tenant : \A n, p \in RowsOf(t) : nets[n].name = nets[p].name => n = p

Disjoint(t) == \A n, p \in RowsOf(t) : n # p => ~Overlap(nets[n].cidr, nets[p].cidr)

\* The networks of a tenant whose requests have come one at a time do not
\* overlap, through any sequence of creates, updates of either field and
\* deletes, and whatever other tenants do at the same time.
SerialDisjoint == \A t \in Tenant \ raced : Disjoint(t)

\* What TODO.md promises: a tenant's networks never overlap.
NetworksDisjoint == \A t \in Tenant : Disjoint(t)
=============================================================================
