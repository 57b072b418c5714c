-------------------------- MODULE Networks_proofs --------------------------
(***************************************************************************)
(* Proofs about Networks, for any sets of tenants, names, CIDRs and        *)
(* requests.  Names are unique because the commit looks again; CIDRs are   *)
(* disjoint only because the answer of the check is still right at the     *)
(* commit, which is what CheckStands says of a tenant that has had one     *)
(* request at a time.                                                      *)
(***************************************************************************)
EXTENDS Networks, TLAPS

Pending(r) == job[r] # None

\* An id is given to one create and names no row before its commit.
IdsOnce ==
    /\ \A n \in fresh : n \notin Rows /\ \A r \in Request : Pending(r) => job[r].id # n
    /\ \A r \in Request : Pending(r) /\ job[r].op = "create" =>
           /\ job[r].id \notin Rows
           /\ job[r].name # None /\ job[r].cidr # None
           /\ \A q \in Request \ {r} : Pending(q) => job[q].id # job[r].id

\* A row keeps its tenant while requests are at work on it.
TenantKept ==
    \A r \in Request : Pending(r) /\ job[r].id \in Rows => nets[job[r].id].tenant = job[r].tenant

OneAtATime ==
    \A r, q \in Request :
        /\ Pending(r) /\ Pending(q) /\ job[r].tenant = job[q].tenant
        /\ job[r].tenant \notin raced
        => r = q

CheckStands ==
    \A r \in Request :
        /\ Pending(r)
        /\ job[r].tenant \notin raced
        /\ job[r].cidr # None
        => CidrFree(job[r].tenant, job[r].cidr, job[r].id)

IInv ==
    /\ NetworksTypeOK
    /\ IdsOnce
    /\ TenantKept
    /\ OneAtATime
    /\ CheckStands
    /\ NamesUnique
    /\ SerialDisjoint

LEMMA InitInv == Init => IInv
BY NetworkAssumption, RowAssumption
   DEF Init, IInv, NetworksTypeOK, IdsOnce, TenantKept, OneAtATime, CheckStands,
       NamesUnique, SerialDisjoint, Disjoint, Rows, RowsOf, Pending

\* The first half of every request: nothing changes but the job, which holds
\* what its checks have found.
LEMMA BeginInv ==
    ASSUME IInv, NEW r \in Request, NEW j \in Job, Begin(r, j),
           fresh' = fresh \/ fresh' = fresh \ {j.id},
           \/ j.op # "create" /\ j.id \in Rows /\ nets[j.id].tenant = j.tenant
              /\ fresh' = fresh
           \/ /\ j.op = "create" /\ j.id \in fresh /\ fresh' = fresh \ {j.id}
              /\ j.name # None /\ j.cidr # None,
           j.cidr # None => CidrFree(j.tenant, j.cidr, j.id)
    PROVE  IInv'
<1> USE DEF IInv
<1>0. /\ nets' = nets
      /\ job[r] = None
      /\ job' = [job EXCEPT ![r] = j]
      /\ job' \in [Request -> Job \cup {None}]
      /\ j # None
      /\ job'[r] = j
      /\ \A q \in Request \ {r} : job'[q] = job[q]
      /\ raced \subseteq raced'
  BY RowAssumption DEF Begin, NetworksTypeOK
<1>1. NetworksTypeOK'
  <2>1. j.tenant \in Tenant
    BY DEF Job
  <2> QED BY <1>0, <2>1 DEF NetworksTypeOK, Begin
<1>2. IdsOnce'
  BY <1>0 DEF IdsOnce, Rows, Pending, NetworksTypeOK
<1>3. TenantKept'
  BY <1>0 DEF TenantKept, IdsOnce, Rows, Pending
<1>4. OneAtATime'
  <2> SUFFICES ASSUME NEW p \in Request, NEW q \in Request,
                      Pending(p)', Pending(q)', job'[p].tenant = job'[q].tenant,
                      job'[p].tenant \notin raced', p # q
               PROVE  FALSE
    BY DEF OneAtATime
  <2>1. CASE p # r /\ q # r
    BY <2>1, <1>0 DEF OneAtATime, Pending
  <2>2. CASE p = r \/ q = r
    <3> PICK o \in Request \ {r} : Pending(o)' /\ job'[o].tenant = j.tenant
      BY <2>2, <1>0
    <3>1. job[o] # None /\ job[o].tenant = j.tenant
      BY <1>0 DEF Pending
    <3>2. j.tenant \in raced'
      BY <3>1 DEF Begin
    <3> QED BY <2>2, <1>0, <3>2
  <2> QED BY <2>1, <2>2
<1>5. CheckStands'
  BY <1>0 DEF CheckStands, Pending, CidrFree, RowsOf, Rows
<1>6. NamesUnique'
  BY <1>0 DEF NamesUnique, RowsOf, Rows
<1>7. SerialDisjoint'
  BY <1>0 DEF SerialDisjoint, Disjoint, RowsOf, Rows
<1> QED BY <1>1, <1>2, <1>3, <1>4, <1>5, <1>6, <1>7

LEMMA CommitInv ==
    ASSUME IInv, NEW r \in Request, Commit(r)
    PROVE  IInv'
<1> USE DEF IInv
<1> DEFINE j == job[r]
<1>0. /\ j \in Job /\ j # None
      /\ job' = [job EXCEPT ![r] = None]
      /\ job' \in [Request -> Job \cup {None}]
      /\ \A q \in Request : job'[q] # None => q # r /\ job'[q] = job[q]
      /\ fresh' = fresh /\ raced' = raced
      /\ j.id \notin fresh
  BY DEF Commit, NetworksTypeOK, IdsOnce, Pending
<1>1. CASE Refused(j) /\ UNCHANGED nets
  <2>1. NetworksTypeOK'
    BY <1>0, <1>1 DEF NetworksTypeOK
  <2>2. IdsOnce'
    BY <1>0, <1>1 DEF IdsOnce, Rows, Pending
  <2>3. TenantKept' /\ OneAtATime'
    BY <1>0, <1>1 DEF TenantKept, OneAtATime, Rows, Pending
  <2>4. CheckStands'
    BY <1>0, <1>1 DEF CheckStands, Pending, CidrFree, RowsOf, Rows
  <2>5. NamesUnique' /\ SerialDisjoint'
    BY <1>0, <1>1 DEF NamesUnique, SerialDisjoint, Disjoint, RowsOf, Rows
  <2> QED BY <2>1, <2>2, <2>3, <2>4, <2>5
<1>2. CASE ~Refused(j) /\ nets' = [nets EXCEPT ![j.id] = Written(j)]
  <2> DEFINE new == Written(j)
  <2>0. /\ j.op \in {"create", "update", "delete"}
        /\ j.id \in Id /\ j.tenant \in Tenant
        /\ j.name \in Name \cup {None} /\ j.cidr \in Cidr \cup {None}
    BY <1>0 DEF Job
  <2>1. /\ j.op = "create" => /\ j.id \notin Rows /\ j.name # None /\ j.cidr # None
                             /\ \A q \in Request \ {r} : job[q] # None => job[q].id # j.id
        /\ j.op # "create" => j.id \in Rows /\ nets[j.id].tenant = j.tenant
    BY <1>0, <1>2 DEF IdsOnce, TenantKept, Pending, Refused
  <2>2. /\ new \in Network \cup {None}
        /\ new = None => j.op = "delete"
        /\ new # None => /\ j.op \in {"create", "update"}
                         /\ new.tenant = j.tenant
                         /\ new.name = IF j.name = None THEN nets[j.id].name ELSE j.name
                         /\ new.cidr = IF j.cidr = None THEN nets[j.id].cidr ELSE j.cidr
                         /\ j.name = None \/ j.cidr = None =>
                                j.id \in Rows /\ nets[j.id].tenant = j.tenant
    <3>1. CASE j.op = "create"
      <4>1. new = [tenant |-> j.tenant, name |-> j.name, cidr |-> j.cidr]
        BY <3>1 DEF Written
      <4>2. new \in Network
        BY <4>1, <2>0, <2>1, <3>1 DEF Network
      <4> QED BY <4>1, <4>2, <2>1, <3>1, RowAssumption
    <3>2. CASE j.op = "update"
      <4>1. new = [tenant |-> nets[j.id].tenant, name |-> Or(j.name, nets[j.id].name),
                   cidr |-> Or(j.cidr, nets[j.id].cidr)]
        BY <3>2 DEF Written
      <4>2. nets[j.id] \in Network /\ nets[j.id].tenant = j.tenant /\ j.id \in Rows
        BY <2>0, <2>1, <3>2 DEF NetworksTypeOK, Rows
      <4>3. new \in Network
        BY <4>1, <4>2, <2>0 DEF Network, Or
      <4> QED BY <4>1, <4>2, <4>3, <3>2, RowAssumption DEF Or
    <3>3. CASE j.op = "delete"
      BY <3>3 DEF Written
    <3> QED BY <2>0, <3>1, <3>2, <3>3
  <2>3. /\ nets' \in [Id -> Network \cup {None}]
        /\ nets'[j.id] = new
        /\ \A n \in Id \ {j.id} : nets'[n] = nets[n]
    BY <1>2, <2>0, <2>2 DEF NetworksTypeOK
  <2>4. /\ \A t : RowsOf(t)' \ {j.id} = RowsOf(t) \ {j.id}
        /\ \A t : j.id \in RowsOf(t)' => new # None /\ t = j.tenant
    BY <2>2, <2>3 DEF RowsOf, Rows
  <2>5. NetworksTypeOK'
    BY <1>0, <2>3 DEF NetworksTypeOK
  <2>6. IdsOnce'
    BY <1>0, <2>0, <2>1, <2>3 DEF IdsOnce, Rows, Pending
  <2>7. TenantKept'
    BY <1>0, <2>0, <2>1, <2>2, <2>3 DEF TenantKept, IdsOnce, Rows, Pending
  <2>8. OneAtATime'
    BY <1>0 DEF OneAtATime, Pending
  <2>9. \A q \in Request : Pending(q)' /\ job'[q].tenant = j.tenant => j.tenant \in raced
    BY <1>0 DEF OneAtATime, Pending
  <2>10. CheckStands'
    <3> SUFFICES ASSUME NEW q \in Request, Pending(q)', job'[q].tenant \notin raced,
                        job'[q].cidr # None
                 PROVE  CidrFree(job[q].tenant, job[q].cidr, job[q].id)'
      BY <1>0 DEF CheckStands
    <3>1. job'[q] = job[q] /\ Pending(q) /\ job[q].tenant # j.tenant
      BY <1>0, <2>9 DEF Pending
    <3>2. CidrFree(job[q].tenant, job[q].cidr, job[q].id)
      BY <3>1, <1>0 DEF CheckStands
    <3>3. \A n \in RowsOf(job[q].tenant)' : n # j.id /\ n \in RowsOf(job[q].tenant)
                                           /\ nets'[n] = nets[n]
      BY <2>2, <2>3, <3>1 DEF RowsOf, Rows
    <3> QED BY <3>1, <3>2, <3>3 DEF CidrFree
  <2>11. NamesUnique'
    <3> SUFFICES ASSUME NEW t \in Tenant, NEW n \in RowsOf(t)',
                        nets'[j.id].name = nets'[n].name, j.id \in RowsOf(t)', n # j.id
                 PROVE  FALSE
      <4> SUFFICES ASSUME NEW t \in Tenant, NEW n \in RowsOf(t)', NEW p \in RowsOf(t)',
                          nets'[n].name = nets'[p].name, n # p
                   PROVE  FALSE
        BY DEF NamesUnique
      <4>1. CASE n # j.id /\ p # j.id
        <5>1. n \in RowsOf(t) /\ p \in RowsOf(t) /\ nets'[n] = nets[n] /\ nets'[p] = nets[p]
          BY <4>1, <2>3, <2>4 DEF RowsOf, Rows
        <5> QED BY <5>1 DEF NamesUnique
      <4> QED BY <4>1
    <3>1. n \in RowsOf(t) /\ nets'[n] = nets[n] /\ new # None /\ t = j.tenant
      BY <2>3, <2>4 DEF RowsOf, Rows
    <3>2. CASE j.name = None
      BY <3>1, <3>2, <2>2, <2>3 DEF NamesUnique, RowsOf, Rows
    <3>3. CASE j.name # None
      <4>1. NameFree(j.tenant, j.name, j.id)
        BY <1>2, <3>1, <3>3, <2>2 DEF Refused
      <4> QED BY <4>1, <3>1, <3>3, <2>2, <2>3 DEF NameFree
    <3> QED BY <3>2, <3>3
  <2>12. SerialDisjoint'
    <3>0. \A n, p : Overlap(nets'[n].cidr, nets'[p].cidr) <=> Overlap(nets'[p].cidr, nets'[n].cidr)
      BY DEF Overlap
    <3> SUFFICES ASSUME NEW t \in Tenant \ raced, NEW n \in RowsOf(t)', n # j.id,
                        j.id \in RowsOf(t)'
                 PROVE  ~Overlap(nets'[j.id].cidr, nets'[n].cidr)
      <4> SUFFICES ASSUME NEW t \in Tenant \ raced, NEW n \in RowsOf(t)', NEW p \in RowsOf(t)',
                          n # p
                   PROVE  ~Overlap(nets'[n].cidr, nets'[p].cidr)
        BY <1>0 DEF SerialDisjoint, Disjoint
      <4>1. CASE n # j.id /\ p # j.id
        <5>1. n \in RowsOf(t) /\ p \in RowsOf(t) /\ nets'[n] = nets[n] /\ nets'[p] = nets[p]
          BY <4>1, <2>3, <2>4 DEF RowsOf, Rows
        <5> QED BY <5>1 DEF SerialDisjoint, Disjoint
      <4> QED BY <4>1, <3>0
    <3>1. n \in RowsOf(t) /\ nets'[n] = nets[n] /\ new # None /\ t = j.tenant
      BY <2>3, <2>4 DEF RowsOf, Rows
    <3>2. CASE j.cidr = None
      <4>1. j.id \in RowsOf(t) /\ nets'[j.id].cidr = nets[j.id].cidr
        BY <3>1, <3>2, <2>2, <2>3 DEF RowsOf, Rows
      <4> QED BY <4>1, <3>1 DEF SerialDisjoint, Disjoint
    <3>3. CASE j.cidr # None
      <4>1. CidrFree(j.tenant, j.cidr, j.id)
        BY <1>0, <3>1, <3>3 DEF CheckStands, Pending
      <4> QED BY <4>1, <3>1, <3>3, <2>2, <2>3 DEF CidrFree
    <3> QED BY <3>2, <3>3
  <2> QED BY <2>5, <2>6, <2>7, <2>8, <2>10, <2>11, <2>12
<1> QED BY <1>1, <1>2 DEF Commit

LEMMA NextInv == IInv /\ [Next]_vars => IInv'
<1> SUFFICES ASSUME IInv, [Next]_vars PROVE IInv'
  OBVIOUS
<1>1. ASSUME NEW r \in Request, NEW t \in Tenant, NEW m \in Name, NEW c \in Cidr,
             CreateCheck(r, t, m, c)
      PROVE  IInv'
  <2>1. PICK n \in fresh :
             /\ Begin(r, [op |-> "create", id |-> n, tenant |-> t, name |-> m, cidr |-> c])
             /\ fresh' = fresh \ {n}
    BY <1>1 DEF CreateCheck
  <2> DEFINE j == [op |-> "create", id |-> n, tenant |-> t, name |-> m, cidr |-> c]
  <2>2. j \in Job /\ m # None /\ c # None
    BY NetworkAssumption DEF Job, IInv, NetworksTypeOK
  <2>3. CidrFree(t, c, n)
    BY <1>1, NetworkAssumption DEF CreateCheck, CidrFree, Rows, RowsOf
  <2> HIDE DEF j
  <2>4. j.op = "create" /\ j.id = n /\ j.tenant = t /\ j.name = m /\ j.cidr = c
    BY DEF j
  <2> QED BY <2>1, <2>2, <2>3, <2>4, BeginInv DEF j
<1>2. ASSUME NEW r \in Request, NEW n \in Id, NEW m \in Name \cup {None},
             NEW c \in Cidr \cup {None}, UpdateCheck(r, n, m, c)
      PROVE  IInv'
  <2> DEFINE name == Changed(m, nets[n].name)
             cidr == Changed(c, nets[n].cidr)
             j == [op |-> "update", id |-> n, tenant |-> nets[n].tenant,
                   name |-> name, cidr |-> cidr]
  <2>1. n \in Rows /\ nets[n].tenant \in Tenant
    BY <1>2 DEF UpdateCheck, Rows, IInv, NetworksTypeOK, Network
  <2>2. name \in {m, None} /\ cidr \in {c, None}
    BY DEF Changed
  <2>3. Begin(r, j) /\ fresh' = fresh /\ (c # None => CidrFree(nets[n].tenant, c, n))
    BY <1>2 DEF UpdateCheck
  <2> HIDE DEF name, cidr
  <2>4. j \in Job
    BY <2>1, <2>2 DEF Job
  <2>5. /\ j.op # "create" /\ j.id = n /\ j.tenant = nets[n].tenant
        /\ j.cidr # None => CidrFree(j.tenant, j.cidr, j.id)
    BY <2>2, <2>3
  <2> HIDE DEF j
  <2> QED BY <2>1, <2>3, <2>4, <2>5, BeginInv
<1>3. ASSUME NEW r \in Request, NEW n \in Id, DeleteRead(r, n)
      PROVE  IInv'
  <2> DEFINE j == [op |-> "delete", id |-> n, tenant |-> nets[n].tenant,
                   name |-> None, cidr |-> None]
  <2>1. n \in Rows /\ nets[n].tenant \in Tenant
    BY <1>3 DEF DeleteRead, Rows, IInv, NetworksTypeOK, Network
  <2>2. j \in Job
    BY <2>1 DEF Job
  <2>3. Begin(r, j) /\ fresh' = fresh
    BY <1>3 DEF DeleteRead
  <2>4. j.op # "create" /\ j.id = n /\ j.tenant = nets[n].tenant /\ j.cidr = None
    OBVIOUS
  <2> HIDE DEF j
  <2> QED BY <2>1, <2>2, <2>3, <2>4, BeginInv
<1>4. ASSUME NEW r \in Request, Commit(r)
      PROVE  IInv'
  BY <1>4, CommitInv
<1>5. CASE UNCHANGED vars
  BY <1>5 DEF vars, IInv, NetworksTypeOK, IdsOnce, TenantKept, OneAtATime, CheckStands,
              NamesUnique, SerialDisjoint, Disjoint, CidrFree, RowsOf, Rows, Pending
<1> QED BY <1>1, <1>2, <1>3, <1>4, <1>5 DEF Next

\* Every reachable state satisfies the inductive invariant.
THEOREM Invariance == Spec => []IInv
BY InitInv, NextInv, PTL DEF Spec

\* The rows, ids and jobs of NetworkService keep their types.
THEOREM TypeCorrect == Spec => []NetworksTypeOK
<1>1. IInv => NetworksTypeOK
  BY DEF IInv
<1> QED BY <1>1, Invariance, PTL

\* However requests interleave, a tenant has no two networks of one name.
THEOREM NamesAreUnique == Spec => []NamesUnique
<1>1. IInv => NamesUnique
  BY DEF IInv
<1> QED BY <1>1, Invariance, PTL

\* The networks of a tenant whose requests have come one at a time never
\* overlap, whatever the other tenants do.
THEOREM SerialCidrsDisjoint == Spec => []SerialDisjoint
<1>1. IInv => SerialDisjoint
  BY DEF IInv
<1> QED BY <1>1, Invariance, PTL
=============================================================================
