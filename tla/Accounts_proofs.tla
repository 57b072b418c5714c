-------------------------- MODULE Accounts_proofs --------------------------
(***************************************************************************)
(* What holds of users and tokens for any users, names, tenants, requests  *)
(* and number of starts.                                                   *)
(*                                                                         *)
(* The argument: a user's tenant is the one it registered with until a     *)
(* start makes it a superuser, and a start comes only when no request is   *)
(* under way.  So whatever a request has read of a user when it commits or *)
(* hands out a token, the tenant in it is still the user's, or the role in *)
(* it is not.                                                              *)
(***************************************************************************)
EXTENDS Accounts, TLAPS

\* A user is where it registered, or nowhere and a superuser.
AtHome ==
    \A i \in Known : user[i].tenant \in {home[i], NoTenant}

\* A token names the tenant its user registered with, or is a superuser's.
Fits(tok) ==
    /\ tok.sub \in Known
    /\ tok.role = "SUPERUSER" <=> tok.tenant = NoTenant
    /\ tok.tenant \in {home[tok.sub], NoTenant}

TokensFit == \A tok \in tokens : Fits(tok)

\* What a request under way has read, and what of it no one can change.
RequestFits(q) ==
    /\ q.pc = "verify" => Fits(q.token)
    /\ q.pc = "token" =>
           /\ q.id \in Known
           /\ user[q.id].role # "SUPERUSER"
           /\ home[q.id] = q.tenant
    /\ q.pc = "role" => q.id \in Known /\ user[q.id].role # "SUPERUSER"
    /\ q.pc = "insert" => (q.join => q.tenant \in tenants)

RequestsFit ==
    /\ \A r \in Request : RequestFits(req[r])
    /\ ~up => \A r \in Request : req[r] = Idle

\* The superuser of the last start has the first candidate no one else has.
Seated ==
    conf # NoEmail => \E i \in HasEmail(conf) :
        user[i].role = "SUPERUSER" /\ SeedName(user[i].name, conf)

IInv ==
    /\ AccountsTypeOK
    /\ AtHome
    /\ TokensFit
    /\ RequestsFit
    /\ KeysUnique
    /\ SuperusersGlobal
    /\ TenantsPeopled
    /\ Seated

-----------------------------------------------------------------------------
LEMMA KnownRow ==
    ASSUME AccountsTypeOK, NEW i \in Known
    PROVE  i \in Id /\ user[i] \in User
BY NoUserAssumption DEF AccountsTypeOK, Known

LEMMA GotoTypes ==
    ASSUME AccountsTypeOK, NEW r \in Request, NEW q \in Pending, Goto(r, q)
    PROVE  req' \in [Request -> Pending]
BY DEF AccountsTypeOK, Goto

LEMMA TypeInit == Init => AccountsTypeOK
<1> SUFFICES ASSUME Init PROVE AccountsTypeOK
  OBVIOUS
<1>1. Known = {}
  BY DEF Init, Known
<1>2. req \in [Request -> Pending]
  BY DEF Init, Pending
<1>3. starts \in 0 .. MaxStarts
  BY AccountsAssumption DEF Init
<1>4. user \in [Id -> User \cup {NoUser}] /\ home \in [Id -> Tenant \cup {NoTenant}]
  BY DEF Init
<1>5. QED
  BY <1>1, <1>2, <1>3, <1>4 DEF Init, AccountsTypeOK

\* A request that only moves on, or is answered, keeps the rows' types.
LEMMA TypeMove ==
    ASSUME AccountsTypeOK, NEW r \in Request, NEW q \in Pending, Goto(r, q),
           UNCHANGED <<user, tenants, up, conf, starts, home>>, tokens' \subseteq Token
    PROVE  AccountsTypeOK'
BY GotoTypes DEF AccountsTypeOK, Known

LEMMA TypeStep ==
    ASSUME AccountsTypeOK, RequestsFit, [Next]_vars
    PROVE  AccountsTypeOK'
<1> USE DEF Pending
<1>0. Idle \in Pending
  OBVIOUS
<1>1. ASSUME NEW r \in Request, NEW n \in Name, NEW e \in Email, NEW t \in Tenant,
             RegisterCheck(r, n, e, t)
      PROVE  AccountsTypeOK'
  <2>1. [pc |-> "tenant", name |-> n, email |-> e, tenant |-> t] \in Pending
    OBVIOUS
  <2>2. QED
    BY <1>1, <2>1, TypeMove DEF RegisterCheck, AccountsTypeOK
<1>2. ASSUME NEW r \in Request, RegisterTenant(r) PROVE AccountsTypeOK'
  <2>1. req[r] \in [pc : {"tenant"}, name : Name, email : Email, tenant : Tenant]
    BY <1>2 DEF RegisterTenant, AccountsTypeOK, Idle
  <2>2. [pc |-> "insert", name |-> req[r].name, email |-> req[r].email,
         tenant |-> req[r].tenant, join |-> req[r].tenant \in tenants] \in Pending
    BY <2>1
  <2>3. QED
    BY <1>2, <2>2, TypeMove DEF RegisterTenant, AccountsTypeOK
<1>3. ASSUME NEW r \in Request, NEW i \in Id, RegisterCommit(r, i) PROVE AccountsTypeOK'
  <2>1. req[r] \in [pc : {"insert"}, name : Name, email : Email, tenant : Tenant, join : BOOLEAN]
    BY <1>3 DEF RegisterCommit, AccountsTypeOK, Idle
  <2>2. [pc |-> "token", id |-> i, tenant |-> req[r].tenant] \in Pending
    BY <2>1
  <2>3. req' \in [Request -> Pending]
    BY <1>3, <2>2, GotoTypes DEF RegisterCommit
  <2>4. user' \in [Id -> User \cup {NoUser}]
    BY <1>3, <2>1 DEF RegisterCommit, AccountsTypeOK, User, Role
  <2>5. tenants' = tenants \cup {req[r].tenant} /\ tenants' \subseteq Tenant
    BY <1>3, <2>1 DEF RegisterCommit, AddTenant, AccountsTypeOK
  <2>6. home' \in [Id -> Tenant \cup {NoTenant}]
    BY <1>3, <2>1 DEF RegisterCommit, AccountsTypeOK
  <2>7. \A j \in Known' : user'[j].tenant \in tenants' \cup {NoTenant}
    BY <1>3, <2>5 DEF RegisterCommit, AccountsTypeOK, Known
  <2>8. QED
    BY <1>3, <2>3, <2>4, <2>5, <2>6, <2>7 DEF RegisterCommit, AccountsTypeOK
<1>4. ASSUME NEW r \in Request, RegisterConflict(r) PROVE AccountsTypeOK'
  BY <1>0, <1>4, TypeMove DEF RegisterConflict, AccountsTypeOK
<1>5. ASSUME NEW r \in Request, RegisterToken(r) PROVE AccountsTypeOK'
  <2>1. req[r] \in [pc : {"token"}, id : Id, tenant : Tenant]
    BY <1>5 DEF RegisterToken, AccountsTypeOK, Idle
  <2>2. user[req[r].id].role \in Role
    BY <1>5, KnownRow DEF RegisterToken, RequestsFit, RequestFits, User
  <2>3. QED
    BY <1>0, <1>5, <2>1, <2>2, TypeMove DEF RegisterToken, AccountsTypeOK, Token
<1>6. ASSUME NEW r \in Request, NEW i \in Id, LoginRead(r, i) PROVE AccountsTypeOK'
  <2>1. TokenOf(i, user[i]) \in Token
    BY <1>6, KnownRow DEF LoginRead, TokenOf, Token, User
  <2>2. [pc |-> "verify", token |-> TokenOf(i, user[i])] \in Pending
    BY <2>1
  <2>3. QED
    BY <1>6, <2>2, TypeMove DEF LoginRead, AccountsTypeOK
<1>7. ASSUME NEW r \in Request, LoginToken(r) PROVE AccountsTypeOK'
  <2>1. req[r] \in [pc : {"verify"}, token : Token]
    BY <1>7 DEF LoginToken, AccountsTypeOK, Idle
  <2>2. QED
    BY <1>0, <1>7, <2>1, TypeMove DEF LoginToken, AccountsTypeOK
<1>8. ASSUME NEW r \in Request, NEW i \in Id, NEW role \in {"USER", "ADMIN"}, ChangeRead(r, i, role)
      PROVE  AccountsTypeOK'
  <2>1. [pc |-> "role", id |-> i, role |-> role] \in Pending
    OBVIOUS
  <2>2. QED
    BY <1>8, <2>1, TypeMove DEF ChangeRead, AccountsTypeOK
<1>9. ASSUME NEW r \in Request, ChangeCommit(r) PROVE AccountsTypeOK'
  <2>1. req[r] \in [pc : {"role"}, id : Id, role : {"USER", "ADMIN"}]
    BY <1>9 DEF ChangeCommit, AccountsTypeOK, Idle
  <2>2. req' \in [Request -> Pending]
    BY <1>0, <1>9, GotoTypes DEF ChangeCommit
  <2>3. user[req[r].id] \in User /\ req[r].id \in Known
    BY <1>9, KnownRow DEF ChangeCommit, RequestsFit, RequestFits
  <2>4. [user[req[r].id] EXCEPT !.role = req[r].role] \in User
    BY <2>1, <2>3 DEF User, Role
  <2>5. user' \in [Id -> User \cup {NoUser}]
    BY <1>9, <2>4 DEF ChangeCommit, AccountsTypeOK
  <2>6. \A j \in Known' : user'[j].tenant \in tenants' \cup {NoTenant}
    <3>1. TAKE j \in Known'
    <3>2. CASE j = req[r].id
      BY <1>9, <2>3, <3>2 DEF ChangeCommit, AccountsTypeOK, User
    <3>3. CASE j # req[r].id
      BY <1>9, <3>3 DEF ChangeCommit, AccountsTypeOK, Known
    <3>4. QED
      BY <3>2, <3>3
  <2>7. QED
    BY <1>9, <2>2, <2>5, <2>6 DEF ChangeCommit, AccountsTypeOK
<1>10. ASSUME NEW i \in Id, NEW n \in Name, NEW e \in Email, Start(i, n, e)
       PROVE  AccountsTypeOK'
  <2>1. Seeded(i, n, e) \in User /\ Seeded(i, n, e).tenant = NoTenant
    BY DEF Seeded, User, Role
  <2>2. user' \in [Id -> User \cup {NoUser}]
    BY <1>10, <2>1 DEF Start, AccountsTypeOK
  <2>3. \A j \in Known' : user'[j].tenant \in tenants' \cup {NoTenant}
    BY <1>10, <2>1 DEF Start, AccountsTypeOK, Known
  <2>4. starts' \in 0 .. MaxStarts
    BY <1>10, AccountsAssumption DEF Start, AccountsTypeOK
  <2>5. QED
    BY <1>10, <2>2, <2>3, <2>4 DEF Start, AccountsTypeOK
<1>11. CASE Crash
  BY <1>0, <1>11 DEF Crash, AccountsTypeOK, Known
<1>12. CASE UNCHANGED vars
  BY <1>12 DEF vars, AccountsTypeOK, Known
<1>13. QED
  BY <1>1, <1>2, <1>3, <1>4, <1>5, <1>6, <1>7, <1>8, <1>9, <1>10, <1>11, <1>12
     DEF Next, RequestStep

-----------------------------------------------------------------------------
(* What no step undoes.                                                    *)

\* Rows and tenants stay; a user's tenant only becomes none, and, with requests
\* under way, no user becomes a superuser.
LEMMA Grows ==
    ASSUME AccountsTypeOK, RequestsFit, [Next]_vars
    PROVE  /\ Known \subseteq Known'
           /\ \A i \in Known : home'[i] = home[i]
           /\ tenants \subseteq tenants'
           /\ \A i \in Known : up /\ user[i].role # "SUPERUSER" =>
                  user'[i].role # "SUPERUSER" /\ user'[i].tenant = user[i].tenant
<1>1. CASE UNCHANGED <<user, tenants, home>>
  BY <1>1 DEF Known
<1>2. ASSUME NEW r \in Request, NEW i \in Id, RegisterCommit(r, i)
      PROVE  /\ Known \subseteq Known' /\ tenants \subseteq tenants'
             /\ \A j \in Known : home'[j] = home[j] /\ user'[j] = user[j]
  <2>1. \A j \in Known : j # i
    BY <1>2 DEF RegisterCommit
  <2>2. \A j \in Known : home'[j] = home[j] /\ user'[j] = user[j]
    BY <1>2, <2>1 DEF RegisterCommit, AccountsTypeOK, Known
  <2>3. QED
    BY <1>2, <2>2 DEF RegisterCommit, AddTenant, Known
<1>3. ASSUME NEW r \in Request, ChangeCommit(r)
      PROVE  /\ Known \subseteq Known' /\ UNCHANGED <<tenants, home>>
             /\ \A j \in Known : user[j].role # "SUPERUSER" =>
                    user'[j].role # "SUPERUSER" /\ user'[j].tenant = user[j].tenant
  <2>1. req[r] \in [pc : {"role"}, id : Id, role : {"USER", "ADMIN"}]
    BY <1>3 DEF ChangeCommit, AccountsTypeOK, Pending, Idle
  <2>2. \A j \in Known : user'[j] = IF j = req[r].id THEN [user[j] EXCEPT !.role = req[r].role] ELSE user[j]
    BY <1>3 DEF ChangeCommit, AccountsTypeOK, Known
  <2>3. \A j \in Known : user[j] \in User
    BY KnownRow
  <2>4. \A j \in Known : user'[j] \in User
    <3>1. TAKE j \in Known
    <3>2. CASE j = req[r].id
      <4>1. [user[j] EXCEPT !.role = req[r].role] \in User
        BY <2>1, <2>3 DEF User, Role
      <4>2. QED
        BY <2>2, <3>2, <4>1
    <3>3. CASE j # req[r].id
      BY <2>2, <2>3, <3>3
    <3>4. QED
      BY <3>2, <3>3
  <2>5. Known \subseteq Known'
    BY <2>4, NoUserAssumption DEF Known
  <2>6. \A j \in Known : user[j].role # "SUPERUSER" =>
            user'[j].role # "SUPERUSER" /\ user'[j].tenant = user[j].tenant
    BY <2>1, <2>2, <2>3 DEF User
  <2>7. QED
    BY <1>3, <2>5, <2>6 DEF ChangeCommit
<1>4. ASSUME NEW i \in Id, NEW n \in Name, NEW e \in Email, Start(i, n, e)
      PROVE  Known \subseteq Known' /\ UNCHANGED <<tenants, home>> /\ ~up
  <2>1. Seeded(i, n, e) # NoUser
    <3>1. Seeded(i, n, e) \in User
      BY DEF Seeded, User, Role
    <3>2. QED
      BY <3>1, NoUserAssumption
  <2>2. QED
    BY <1>4, <2>1 DEF Start, AccountsTypeOK, Known
<1>5. ASSUME NEW r \in Request, RequestStep(r)
      PROVE  \/ UNCHANGED <<user, tenants, home>>
             \/ ChangeCommit(r)
             \/ \E i \in Id : RegisterCommit(r, i)
  BY <1>5 DEF RequestStep, RegisterCheck, RegisterTenant, RegisterConflict, RegisterToken,
              LoginRead, LoginToken, ChangeRead
<1>6. CASE Crash \/ UNCHANGED vars
  BY <1>1, <1>6 DEF Crash, vars
<1>7. QED
  BY <1>1, <1>2, <1>3, <1>4, <1>5, <1>6 DEF Next

LEMMA FitsKept ==
    ASSUME AccountsTypeOK, RequestsFit, [Next]_vars, NEW tok, Fits(tok)
    PROVE  Fits(tok)'
BY Grows DEF Fits

LEMMA TokensStep ==
    ASSUME AccountsTypeOK, AtHome, TokensFit, RequestsFit, SuperusersGlobal, [Next]_vars
    PROVE  TokensFit'
<1>1. CASE UNCHANGED tokens
  BY <1>1, FitsKept DEF TokensFit
<1>2. ASSUME NEW r \in Request, RegisterToken(r) PROVE TokensFit'
  <2> DEFINE tok == [sub |-> req[r].id, tenant |-> req[r].tenant, role |-> user[req[r].id].role]
  <2>1. req[r] \in [pc : {"token"}, id : Id, tenant : Tenant]
    BY <1>2 DEF RegisterToken, AccountsTypeOK, Pending, Idle
  <2>2. Fits(tok)
    BY <1>2, <2>1, AccountsAssumption DEF RegisterToken, RequestsFit, RequestFits, Fits
  <2>3. tokens' = tokens \cup {tok}
    BY <1>2 DEF RegisterToken
  <2>4. QED
    BY <2>2, <2>3, FitsKept DEF TokensFit
<1>3. ASSUME NEW r \in Request, LoginToken(r) PROVE TokensFit'
  BY <1>3, FitsKept DEF LoginToken, RequestsFit, RequestFits, TokensFit
<1>4. QED
  BY <1>1, <1>2, <1>3 DEF Next, RequestStep, RegisterCheck, RegisterTenant, RegisterCommit,
     RegisterConflict, LoginRead, ChangeRead, ChangeCommit, Start, Crash, vars

LEMMA RequestsStep ==
    ASSUME AccountsTypeOK, AtHome, RequestsFit, SuperusersGlobal, [Next]_vars
    PROVE  RequestsFit'
<1>1. \A q \in Pending : up /\ RequestFits(q) => RequestFits(q)'
  BY Grows, FitsKept DEF RequestFits
<1>2. \A r \in Request : req[r] \in Pending
  BY DEF AccountsTypeOK
<1>3. RequestFits(Idle)'
  BY DEF RequestFits, Idle
<1>4. ASSUME NEW r \in Request, NEW q, Goto(r, q), RequestFits(q)', up, up' = up
      PROVE  RequestsFit'
  <2>1. \A p \in Request : req'[p] = IF p = r THEN q ELSE req[p]
    BY <1>4 DEF Goto, AccountsTypeOK
  <2>2. \A p \in Request : RequestFits(req[p])'
    BY <1>1, <1>2, <1>4, <2>1 DEF RequestsFit
  <2>3. QED
    BY <1>4, <2>2 DEF RequestsFit
<1>5. ASSUME NEW r \in Request, req[r] # Idle PROVE up
  BY <1>5 DEF RequestsFit
<1>6. ASSUME NEW r \in Request, NEW n \in Name, NEW e \in Email, NEW t \in Tenant,
             RegisterCheck(r, n, e, t)
      PROVE  RequestsFit'
  BY <1>4, <1>6 DEF RegisterCheck, RequestFits
<1>7. ASSUME NEW r \in Request, RegisterTenant(r) PROVE RequestsFit'
  <2>1. up
    BY <1>5, <1>7 DEF RegisterTenant, Idle
  <2>2. QED
    BY <1>4, <1>7, <2>1 DEF RegisterTenant, RequestFits
<1>8. ASSUME NEW r \in Request, NEW i \in Id, RegisterCommit(r, i) PROVE RequestsFit'
  <2>1. up
    BY <1>5, <1>8 DEF RegisterCommit, Idle
  <2>0. PICK q : q = [pc |-> "token", id |-> i, tenant |-> req[r].tenant]
    OBVIOUS
  <2>2. user'[i].role = "USER" /\ home'[i] = q.tenant
    BY <1>8, <2>0 DEF RegisterCommit, AccountsTypeOK
  <2>3. i \in Known'
    BY <1>8, TypeStep, NoUserAssumption DEF RegisterCommit, AccountsTypeOK, Known, Pending, Idle, User, Role
  <2>4. RequestFits(q)'
    BY <2>0, <2>2, <2>3 DEF RequestFits
  <2>5. QED
    BY <1>4, <1>8, <2>0, <2>1, <2>4 DEF RegisterCommit
<1>9. ASSUME NEW r \in Request, RegisterConflict(r) \/ RegisterToken(r) \/ LoginToken(r) \/ ChangeCommit(r)
      PROVE  RequestsFit'
  <2>1. up
    BY <1>5, <1>9 DEF RegisterConflict, RegisterToken, LoginToken, ChangeCommit, Idle
  <2>2. QED
    BY <1>3, <1>4, <1>9, <2>1 DEF RegisterConflict, RegisterToken, LoginToken, ChangeCommit
<1>10. ASSUME NEW r \in Request, NEW i \in Id, LoginRead(r, i) PROVE RequestsFit'
  <2>1. Fits(TokenOf(i, user[i]))
    BY <1>10, KnownRow DEF LoginRead, Fits, TokenOf, AtHome, SuperusersGlobal
  <2>2. Fits(TokenOf(i, user[i]))' <=> Fits(TokenOf(i, user[i]))
    BY <1>10 DEF LoginRead, Fits, TokenOf, Known
  <2>3. QED
    BY <1>4, <1>10, <2>1, <2>2 DEF LoginRead, RequestFits
<1>11. ASSUME NEW r \in Request, NEW i \in Id, NEW role \in {"USER", "ADMIN"}, ChangeRead(r, i, role)
       PROVE  RequestsFit'
  BY <1>4, <1>11 DEF ChangeRead, RequestFits, Known
<1>12. ASSUME NEW i \in Id, NEW n \in Name, NEW e \in Email, Start(i, n, e)
       PROVE  RequestsFit'
  BY <1>3, <1>12 DEF Start, RequestsFit
<1>13. CASE Crash
  BY <1>3, <1>13 DEF Crash, RequestsFit
<1>14. CASE UNCHANGED vars
  <2>1. \A q \in Pending : RequestFits(q) => RequestFits(q)'
    BY <1>14 DEF vars, RequestFits, Fits, Known
  <2>2. QED
    BY <1>2, <1>14, <2>1 DEF vars, RequestsFit
<1>15. QED
  BY <1>6, <1>7, <1>8, <1>9, <1>10, <1>11, <1>12, <1>13, <1>14 DEF Next, RequestStep

-----------------------------------------------------------------------------
(* The rows.                                                               *)

\* A registration adds a row that no request has, under keys no row has; a
\* change of role and a start change one row each.
LEMMA UserSteps ==
    ASSUME AccountsTypeOK, RequestsFit, [Next]_vars
    PROVE  \/ UNCHANGED user
           \/ \E r \in Request, i \in Id : RegisterCommit(r, i)
           \/ \E r \in Request : ChangeCommit(r)
           \/ \E i \in Id, n \in Name, e \in Email : Start(i, n, e)
BY DEF Next, RequestStep, RegisterCheck, RegisterTenant, RegisterConflict, RegisterToken,
       LoginRead, LoginToken, ChangeRead, Crash, vars

\* What a step makes of the table.
Registered(q, i) ==
    /\ Known' = Known \cup {i} /\ i \notin Known
    /\ \A j \in Known : user'[j] = user[j] /\ home'[j] = home[j]
    /\ user'[i].name = q.name /\ user'[i].email = q.email
    /\ user'[i].tenant = q.tenant /\ user'[i].role = "USER"
    /\ home'[i] = q.tenant /\ q.tenant \in Tenant
    /\ tenants' = tenants \cup {q.tenant}
    /\ Unique(q)

Started(i, n, e) ==
    /\ Known' = Known \cup {i} /\ UNCHANGED <<home, tenants>> /\ up' = TRUE /\ conf' = e
    /\ \A j \in Known \ {i} : user'[j] = user[j]
    /\ user'[i].name = n /\ user'[i].email = e
    /\ user'[i].tenant = NoTenant /\ user'[i].role = "SUPERUSER"
    /\ IF HasEmail(e) # {} THEN i \in HasEmail(e) ELSE i \notin Known
    /\ HasName(n) \subseteq HasEmail(e)

LEMMA RegisterRows ==
    ASSUME AccountsTypeOK
    PROVE  \A r \in Request, i \in Id : RegisterCommit(r, i) => Registered(req[r], i)
<1> SUFFICES ASSUME NEW r \in Request, NEW i \in Id, RegisterCommit(r, i)
             PROVE  Registered(req[r], i)
  OBVIOUS
<1>1. req[r] \in [pc : {"insert"}, name : Name, email : Email, tenant : Tenant, join : BOOLEAN]
  BY DEF RegisterCommit, AccountsTypeOK, Pending, Idle
<1>2. user'[i] = [name |-> req[r].name, email |-> req[r].email,
                  tenant |-> req[r].tenant, role |-> "USER"]
  BY DEF RegisterCommit, AccountsTypeOK
<1>3. user'[i] \in User
  BY <1>1, <1>2 DEF User, Role
<1>4. user'[i] # NoUser
  BY <1>3, NoUserAssumption
<1>5. \A j \in Id \ {i} : user'[j] = user[j] /\ home'[j] = home[j]
  BY DEF RegisterCommit, AccountsTypeOK
<1>6. i \notin Known
  BY DEF RegisterCommit
<1>7. Known' = Known \cup {i}
  BY <1>4, <1>5 DEF Known
<1>8. QED
  BY <1>1, <1>2, <1>5, <1>6, <1>7 DEF Registered, RegisterCommit, AddTenant, AccountsTypeOK, Known

LEMMA ChangeRows ==
    ASSUME AccountsTypeOK, RequestsFit, NEW r \in Request, ChangeCommit(r)
    PROVE  /\ Known' = Known /\ req[r].id \in Known /\ UNCHANGED <<home, tenants, conf, up>>
           /\ \A j \in Known \ {req[r].id} : user'[j] = user[j]
           /\ user'[req[r].id].name = user[req[r].id].name
           /\ user'[req[r].id].email = user[req[r].id].email
           /\ user'[req[r].id].tenant = user[req[r].id].tenant
           /\ user'[req[r].id].role # "SUPERUSER" /\ user[req[r].id].role # "SUPERUSER"
<1>1. req[r] \in [pc : {"role"}, id : Id, role : {"USER", "ADMIN"}]
  BY DEF ChangeCommit, AccountsTypeOK, Pending, Idle
<1>2. req[r].id \in Known /\ user[req[r].id].role # "SUPERUSER" /\ user[req[r].id] \in User
  BY KnownRow DEF ChangeCommit, RequestsFit, RequestFits
<1>3. user'[req[r].id] = [user[req[r].id] EXCEPT !.role = req[r].role]
  BY <1>1 DEF ChangeCommit, AccountsTypeOK
<1>4. user'[req[r].id] \in User
  BY <1>1, <1>2, <1>3 DEF User, Role
<1>5. \A j \in Id \ {req[r].id} : user'[j] = user[j]
  BY DEF ChangeCommit, AccountsTypeOK
<1>6. Known' = Known
  BY <1>2, <1>4, <1>5, NoUserAssumption DEF Known
<1>7. QED
  BY <1>1, <1>2, <1>3, <1>5, <1>6 DEF ChangeCommit, User, Known

LEMMA StartRows ==
    ASSUME AccountsTypeOK
    PROVE  \A i \in Id, n \in Name, e \in Email : Start(i, n, e) => Started(i, n, e)
<1> SUFFICES ASSUME NEW i \in Id, NEW n \in Name, NEW e \in Email, Start(i, n, e)
             PROVE  Started(i, n, e)
  OBVIOUS
<1>1. user'[i] = Seeded(i, n, e) /\ Seeded(i, n, e) \in User
  BY DEF Start, AccountsTypeOK, Seeded, User, Role
<1>2. \A j \in Id \ {i} : user'[j] = user[j]
  BY DEF Start, AccountsTypeOK
<1>3. Known' = Known \cup {i}
  BY <1>1, <1>2, NoUserAssumption DEF Known
<1>4. QED
  BY <1>1, <1>2, <1>3 DEF Started, Seeded, Start, SeedName, FreeName, Known

LEMMA HomeStep ==
    ASSUME AccountsTypeOK, RequestsFit, AtHome, [Next]_vars
    PROVE  AtHome'
<1>1. CASE UNCHANGED user
  BY <1>1, Grows DEF AtHome, Known
<1>2. ASSUME NEW r \in Request, NEW i \in Id, RegisterCommit(r, i) PROVE AtHome'
  <2>0. Registered(req[r], i)
    BY <1>2, RegisterRows
  <2>1. QED
    BY <2>0 DEF AtHome, Registered
<1>3. ASSUME NEW r \in Request, ChangeCommit(r) PROVE AtHome'
  BY <1>3, ChangeRows DEF AtHome
<1>4. ASSUME NEW i \in Id, NEW n \in Name, NEW e \in Email, Start(i, n, e) PROVE AtHome'
  <2>0. Started(i, n, e)
    BY <1>4, StartRows
  <2>1. QED
    BY <2>0 DEF AtHome, Started
<1>5. QED
  BY <1>1, <1>2, <1>3, <1>4, UserSteps

LEMMA KeysStep ==
    ASSUME AccountsTypeOK, RequestsFit, KeysUnique, [Next]_vars
    PROVE  KeysUnique'
<1>1. CASE UNCHANGED user
  BY <1>1 DEF KeysUnique, Known
<1>2. ASSUME NEW r \in Request, NEW i \in Id, RegisterCommit(r, i) PROVE KeysUnique'
  <2>0. Registered(req[r], i)
    BY <1>2, RegisterRows
  <2>1. \A j \in Known : user[j].name # req[r].name /\ user[j].email # req[r].email
    BY <1>2, <2>0 DEF Unique, HasName, HasEmail, Registered
  <2>2. user'[i].name = req[r].name /\ user'[i].email = req[r].email
    BY <1>2, <2>0 DEF Registered
  <2>3. QED
    BY <1>2, <2>1, <2>2, <2>0 DEF KeysUnique, Registered
<1>3. ASSUME NEW r \in Request, ChangeCommit(r) PROVE KeysUnique'
  <2>1. \A j \in Known : user'[j].name = user[j].name /\ user'[j].email = user[j].email
    BY <1>3, ChangeRows
  <2>2. QED
    BY <1>3, <2>1, ChangeRows DEF KeysUnique
<1>4. ASSUME NEW i \in Id, NEW n \in Name, NEW e \in Email, Start(i, n, e) PROVE KeysUnique'
  <2>0. Started(i, n, e)
    BY <1>4, StartRows
  <2>1. \A j \in Known \ {i} : user[j].email # e
    BY <1>4, <2>0 DEF KeysUnique, HasEmail, Started
  <2>2. \A j \in Known \ {i} : user[j].name # n
    BY <1>4, <2>1, <2>0 DEF HasName, HasEmail, Started
  <2>3. user'[i].name = n /\ user'[i].email = e
    BY <1>4, <2>0 DEF Started
  <2>4. QED
    BY <1>4, <2>1, <2>2, <2>3, <2>0 DEF KeysUnique, Started
<1>5. QED
  BY <1>1, <1>2, <1>3, <1>4, UserSteps

\* Only a start changes the configured email, and only a start ends a stop.
LEMMA ConfSteps ==
    ASSUME [Next]_vars
    PROVE  \/ conf' = conf /\ (up' => up)
           \/ \E i \in Id, n \in Name, e \in Email : Start(i, n, e)
BY DEF Next, RequestStep, RegisterCheck, RegisterTenant, RegisterCommit, RegisterConflict,
       RegisterToken, LoginRead, LoginToken, ChangeRead, ChangeCommit, Crash, vars

LEMMA SuperuserStep ==
    ASSUME AccountsTypeOK, RequestsFit, SuperusersGlobal, [Next]_vars
    PROVE  SuperusersGlobal'
<1>1. CASE UNCHANGED user /\ conf' = conf /\ (up' => up)
  BY <1>1 DEF SuperusersGlobal, HasEmail, Known
<1>2. ASSUME NEW r \in Request, NEW i \in Id, RegisterCommit(r, i), conf' = conf, up' => up
      PROVE  SuperusersGlobal'
  <2>0. Registered(req[r], i)
    BY <1>2, RegisterRows
  <2>1. QED
    BY <1>2, <2>0, AccountsAssumption DEF SuperusersGlobal, HasEmail, Registered
<1>3. ASSUME NEW r \in Request, ChangeCommit(r) PROVE SuperusersGlobal'
  BY <1>3, ChangeRows DEF SuperusersGlobal, HasEmail
<1>4. ASSUME NEW i \in Id, NEW n \in Name, NEW e \in Email, Start(i, n, e)
      PROVE  SuperusersGlobal'
  <2>0. Started(i, n, e)
    BY <1>4, StartRows
  <2>1. QED
    BY <2>0 DEF SuperusersGlobal, HasEmail, Started
<1>5. QED
  BY <1>1, <1>2, <1>3, <1>4, UserSteps, ConfSteps

LEMMA PeopledStep ==
    ASSUME AccountsTypeOK, RequestsFit, TenantsPeopled, [Next]_vars
    PROVE  TenantsPeopled'
<1>1. ASSUME UNCHANGED user, ~\E r \in Request, i \in Id : RegisterCommit(r, i)
      PROVE  TenantsPeopled'
  <2>1. UNCHANGED <<tenants, home>>
    BY <1>1 DEF Next, RequestStep, RegisterCheck, RegisterTenant, RegisterConflict, RegisterToken,
       LoginRead, LoginToken, ChangeRead, ChangeCommit, Start, Crash, vars
  <2>2. QED
    BY <1>1, <2>1 DEF TenantsPeopled, Known
<1>2. ASSUME NEW r \in Request, NEW i \in Id, RegisterCommit(r, i) PROVE TenantsPeopled'
  <2>0. Registered(req[r], i)
    BY <1>2, RegisterRows
  <2>1. \A t \in tenants : \E j \in Known' :
            home'[j] = t /\ (user'[j].tenant = t \/ user'[j].role = "SUPERUSER")
    BY <1>2, <2>0 DEF TenantsPeopled, Registered
  <2>2. i \in Known' /\ home'[i] = req[r].tenant /\ user'[i].tenant = req[r].tenant
    BY <1>2, <2>0 DEF Registered
  <2>3. tenants' = tenants \cup {req[r].tenant}
    BY <1>2, <2>0 DEF Registered
  <2>4. QED
    BY <2>1, <2>2, <2>3 DEF TenantsPeopled
<1>3. ASSUME NEW r \in Request, ChangeCommit(r) PROVE TenantsPeopled'
  BY <1>3, ChangeRows DEF TenantsPeopled
<1>4. ASSUME NEW i \in Id, NEW n \in Name, NEW e \in Email, Start(i, n, e)
      PROVE  TenantsPeopled'
  <2>0. Started(i, n, e)
    BY <1>4, StartRows
  <2>1. QED
    BY <2>0 DEF TenantsPeopled, Started
<1>5. QED
  BY <1>1, <1>2, <1>3, <1>4, UserSteps

\* Rows that keep their keys, and new ones with other keys, leave the
\* superuser's candidate what it is.
LEMMA SeedNameKept ==
    ASSUME NEW n, NEW e, SeedName(n, e), Known \subseteq Known',
           \A j \in Known : user'[j].name = user[j].name /\ user'[j].email = user[j].email,
           \A j \in Known' \ Known : user'[j].name # n
    PROVE  SeedName(n, e)'
<1>1. \A m : HasName(m) \subseteq HasName(m)' /\ HasEmail(e) \subseteq HasEmail(e)'
  BY DEF HasName, HasEmail
<1>2. \A m : ~FreeName(m, e) => ~FreeName(m, e)'
  BY DEF FreeName, HasName, HasEmail
<1>3. FreeName(n, e) => FreeName(n, e)'
  BY DEF FreeName, HasName, HasEmail
<1>4. QED
  BY <1>2, <1>3 DEF SeedName

LEMMA SeatedStep ==
    ASSUME AccountsTypeOK, RequestsFit, KeysUnique, Seated, [Next]_vars
    PROVE  Seated'
<1>1. CASE UNCHANGED user /\ conf' = conf
  BY <1>1 DEF Seated, SeedName, FreeName, HasName, HasEmail, Known
<1>2. ASSUME NEW r \in Request, NEW i \in Id, RegisterCommit(r, i), conf' = conf
      PROVE  Seated'
  <2>0. Registered(req[r], i)
    BY <1>2, RegisterRows
  <2> SUFFICES ASSUME conf # NoEmail
               PROVE  \E j \in HasEmail(conf)' : user'[j].role = "SUPERUSER" /\ SeedName(user[j].name, conf)'
    BY <1>2 DEF Seated
  <2>1. PICK j \in HasEmail(conf) : user[j].role = "SUPERUSER" /\ SeedName(user[j].name, conf)
    BY DEF Seated
  <2>2. j \in Known /\ user'[j] = user[j] /\ j \in HasEmail(conf)'
    BY <1>2, <2>1, <2>0 DEF HasEmail, Registered
  <2>3. PICK n, e : n = user[j].name /\ e = conf
    OBVIOUS
  <2>4. user'[i].name # n
    BY <1>2, <2>2, <2>3, <2>0 DEF Unique, HasName, Registered
  <2>5. SeedName(n, e)'
    BY <1>2, <2>1, <2>3, <2>4, <2>0, SeedNameKept DEF Registered
  <2>6. n = user'[j].name /\ e = conf'
    BY <1>2, <2>2, <2>3
  <2>7. QED
    BY <2>1, <2>2, <2>5, <2>6
<1>3. ASSUME NEW r \in Request, ChangeCommit(r) PROVE Seated'
  <2>1. \A j \in Known : user'[j].name = user[j].name /\ user'[j].email = user[j].email
    BY <1>3, ChangeRows
  <2>2. HasEmail(conf)' = HasEmail(conf)
    BY <1>3, <2>1, ChangeRows DEF HasEmail
  <2>3. \A n, e : SeedName(n, e) => SeedName(n, e)'
    BY <1>3, <2>1, ChangeRows, SeedNameKept
  <2>4. \A j \in Known : user[j].role = "SUPERUSER" => user'[j] = user[j]
    BY <1>3, ChangeRows
  <2>5. conf' = conf /\ HasEmail(conf) \subseteq Known
    BY <1>3, ChangeRows DEF HasEmail
  <2>6. QED
    BY <2>2, <2>3, <2>4, <2>5 DEF Seated
<1>4. ASSUME NEW i \in Id, NEW n \in Name, NEW e \in Email, Start(i, n, e)
      PROVE  Seated'
  <2>0. Started(i, n, e)
    BY <1>4, StartRows
  <2>1. user'[i].name = n /\ user'[i].email = e /\ user'[i].role = "SUPERUSER" /\ i \in Known'
    BY <1>4, <2>0 DEF Started
  <2>2. \A j \in Known \ {i} : user[j].email # e
    BY <1>4, <2>0 DEF KeysUnique, HasEmail, Started
  <2>3. \A j \in Known \ {i} : user'[j] = user[j] /\ j \in Known'
    BY <1>4, <2>0 DEF Started
  <2>4. \A m : ~FreeName(m, e) => ~FreeName(m, e)'
    BY <2>0, <2>2, <2>3 DEF Started, FreeName, HasName, HasEmail
  <2>5. FreeName(n, e)'
    <3>1. \A j \in Known \ {i} : user[j].name # n
      BY <1>4, <2>2, <2>0 DEF HasName, HasEmail, Started
    <3>2. \A j \in Known' : user'[j].name = n => j = i
      BY <1>4, <2>3, <3>1, <2>0 DEF Started
    <3>3. QED
      BY <2>1, <3>2 DEF FreeName, HasName, HasEmail
  <2>6. SeedName(n, e)'
    BY <1>4, <2>4, <2>5 DEF Start, SeedName
  <2>7. i \in HasEmail(e)' /\ conf' = e
    BY <1>4, <2>1, <2>0 DEF HasEmail, Started
  <2>8. QED
    BY <2>1, <2>6, <2>7 DEF Seated
<1>5. QED
  BY <1>1, <1>2, <1>3, <1>4, UserSteps, ConfSteps

-----------------------------------------------------------------------------
LEMMA Inductive == Spec => []IInv
<1>1. Init => IInv
  <2>1. Init => Known = {} /\ tenants = {} /\ tokens = {} /\ up = FALSE /\ conf = NoEmail
                /\ \A r \in Request : req[r] = Idle
    BY DEF Init, Known
  <2>2. RequestFits(Idle)
    BY DEF RequestFits, Idle
  <2>3. QED
    BY <2>1, <2>2, TypeInit DEF IInv, AtHome, TokensFit, RequestsFit, KeysUnique,
       SuperusersGlobal, TenantsPeopled, Seated
<1>2. IInv /\ [Next]_vars => IInv'
  BY TypeStep, HomeStep, TokensStep, RequestsStep, KeysStep, SuperuserStep, PeopledStep, SeatedStep
     DEF IInv
<1>3. QED
  BY <1>1, <1>2, PTL DEF Spec

\* Every row, token and request has its type, and every tenant of a user exists.
THEOREM TypeCorrect == Spec => []AccountsTypeOK
BY Inductive, PTL DEF IInv

\* However registrations and seeding interleave, names and emails stay unique,
\* so that seeding never meets a name a tenant's user has taken.
THEOREM UniqueKeys == Spec => []KeysUnique
BY Inductive, PTL DEF IInv

\* The superusers are the users without a tenant, and the configured one is there
\* while the API is up, whoever had its email before.
THEOREM GlobalSuperusers == Spec => []SuperusersGlobal
BY Inductive, PTL DEF IInv

\* No tenant is left without the user who registered it.
THEOREM NoEmptyTenant == Spec => []TenantsPeopled
BY Inductive, PTL DEF IInv

\* A token whose role is still its user's is accepted: its tenant cannot be the
\* wrong one.
THEOREM TokenWorks == Spec => []CurrentTokenWorks
<1>1. IInv => CurrentTokenWorks
  <2> SUFFICES ASSUME IInv, NEW tok \in tokens, user[tok.sub].role = tok.role
               PROVE  Accepted(tok)
    BY DEF CurrentTokenWorks
  <2>1. Fits(tok) /\ user[tok.sub] \in User
    BY KnownRow DEF IInv, TokensFit, Fits
  <2>2. user[tok.sub].tenant \in {home[tok.sub], NoTenant}
    BY <2>1 DEF IInv, AtHome, Fits
  <2>3. user[tok.sub].role = "SUPERUSER" <=> user[tok.sub].tenant = NoTenant
    BY <2>1 DEF IInv, SuperusersGlobal, Fits
  <2>4. QED
    BY <2>1, <2>2, <2>3 DEF Accepted, Fits, User, Role
<1>2. QED
  BY <1>1, Inductive, PTL

\* A start under the settings of the last one finds its superuser's row, gives it
\* the name it has, and so changes nothing.
THEOREM RestartChangesNothing == Spec => RestartKeepsAccounts
<1>1. ASSUME IInv, [Next]_vars, ~up, up', conf' = conf PROVE UNCHANGED user
  <2>1. PICK i \in Id, n \in Name, e \in Email : Start(i, n, e)
    BY <1>1, ConfSteps
  <2>2. Started(i, n, e)
    BY <1>1, <2>1, StartRows DEF IInv
  <2>3. e = conf /\ conf # NoEmail
    BY <1>1, <2>2, AccountsAssumption DEF Started
  <2>4. PICK j \in HasEmail(conf) : user[j].role = "SUPERUSER" /\ SeedName(user[j].name, conf)
    BY <1>1, <2>3 DEF IInv, Seated
  <2>5. i = j
    BY <1>1, <2>2, <2>3, <2>4 DEF Started, IInv, KeysUnique, HasEmail
  <2>6. SeedName(n, conf)
    BY <2>1, <2>3 DEF Start
  <2>7. user[j].name = n
    <3>1. PICK k \in DOMAIN Candidates :
              /\ n = Candidates[k] /\ FreeName(n, conf)
              /\ \A l \in 1 .. k - 1 : ~FreeName(Candidates[l], conf)
      BY <2>6 DEF SeedName
    <3>2. PICK m \in DOMAIN Candidates :
              /\ user[j].name = Candidates[m] /\ FreeName(user[j].name, conf)
              /\ \A l \in 1 .. m - 1 : ~FreeName(Candidates[l], conf)
      BY <2>4 DEF SeedName
    <3>3. k \in Nat /\ m \in Nat /\ k >= 1 /\ m >= 1
      BY AccountsAssumption
    <3>4. ~(k < m) /\ ~(m < k)
      BY <3>1, <3>2, <3>3
    <3>5. QED
      BY <3>1, <3>2, <3>3, <3>4
  <2>8. j \in Known /\ user[j].email = conf /\ user[j].tenant = NoTenant
    BY <1>1, <2>4 DEF HasEmail, IInv, SuperusersGlobal
  <2>9. user[j] = Seeded(j, n, e)
    BY <1>1, <2>3, <2>4, <2>7, <2>8, KnownRow DEF IInv, Seeded, User
  <2>10. QED
    BY <1>1, <2>1, <2>5, <2>9 DEF Start, IInv, AccountsTypeOK
<1>2. QED
  BY <1>1, Inductive, PTL DEF Spec, RestartKeepsAccounts
=============================================================================
