------------------------------ MODULE Accounts ------------------------------
(***************************************************************************)
(* Users, tenants and tokens: registration, login, promotion and demotion, *)
(* and the superuser that every start of the API seeds (AuthService,       *)
(* AdminService, deps.get_current_user, init_db).                          *)
(*                                                                         *)
(* A handler's queries and its commit are steps of their own: in between,  *)
(* others commit.  The database has unique indexes on the names of users   *)
(* and tenants and on emails; a commit that breaks one is answered 409.    *)
(* Names and emails are taken as the handlers normalise them.              *)
(***************************************************************************)
EXTENDS Naturals, FiniteSets, Sequences

CONSTANTS
    Id,             \* bound: the users that may ever be
    Name, Email, Tenant,
    NoTenant, NoEmail,
    NoUser,         \* an id no row has yet
    Candidates,     \* SUPERUSER_NAME, then with 1, 2, ... behind it
    Request,        \* bound: requests at a time
    MaxStarts       \* bound: starts of the API

ASSUME AccountsAssumption ==
    /\ NoTenant \notin Tenant
    /\ NoEmail \notin Email
    /\ Candidates \in Seq(Name)
    /\ MaxStarts \in Nat

VARIABLES
    user,           \* the users table
    tenants,        \* the names in the tenants table
    tokens,         \* the tokens that have been handed out
    req,
    up,             \* the API has started
    conf,           \* SUPERUSER_EMAIL of the last start
    starts,
    home            \* history: the tenant a user registered with

vars == <<user, tenants, tokens, req, up, conf, starts, home>>

Role == {"USER", "ADMIN", "SUPERUSER"}

User == [name : Name, email : Email, tenant : Tenant \cup {NoTenant}, role : Role]

ASSUME NoUserAssumption == NoUser \notin User

Token == [sub : Id, tenant : Tenant \cup {NoTenant}, role : Role]

Idle == [pc |-> "idle"]

Known == {i \in Id : user[i] # NoUser}

HasEmail(e) == {i \in Known : user[i].email = e}
HasName(n) == {i \in Known : user[i].name = n}

Init ==
    /\ user = [i \in Id |-> NoUser]
    /\ tenants = {}
    /\ tokens = {}
    /\ req = [r \in Request |-> Idle]
    /\ up = FALSE
    /\ conf = NoEmail
    /\ starts = 0
    /\ home = [i \in Id |-> NoTenant]

\* create_access_token, from a row of users
TokenOf(i, u) == [sub |-> i, tenant |-> u.tenant, role |-> u.role]

Goto(r, next) == req' = [req EXCEPT ![r] = next]

-----------------------------------------------------------------------------
(* AuthService.register                                                    *)

RegisterCheck(r, n, e, t) ==
    /\ up
    /\ req[r] = Idle
    /\ HasEmail(e) = {} /\ HasName(n) = {}
    /\ Goto(r, [pc |-> "tenant", name |-> n, email |-> e, tenant |-> t])
    /\ UNCHANGED <<user, tenants, tokens, up, conf, starts, home>>

\* Mutant: the new tenant is committed before its first user.
RegisterTenantMut(r) ==
    /\ req[r].pc = "tenant"
    /\ tenants' = tenants \cup {req[r].tenant}
    /\ Goto(r, [pc |-> "insert", name |-> req[r].name, email |-> req[r].email,
                tenant |-> req[r].tenant, join |-> TRUE])
    /\ UNCHANGED <<user, tokens, up, conf, starts, home>>

\* The tenant of that name, or a new one.
RegisterTenant(r) ==
    /\ req[r].pc = "tenant"
    /\ Goto(r, [pc |-> "insert", name |-> req[r].name, email |-> req[r].email,
                tenant |-> req[r].tenant, join |-> req[r].tenant \in tenants])
    /\ UNCHANGED <<user, tenants, tokens, up, conf, starts, home>>

Unique(q) ==
    /\ HasEmail(q.email) = {}
    /\ HasName(q.name) = {}
    /\ q.join \/ q.tenant \notin tenants

\* Mutant: the user is committed, the tenant is not.
AddTenantMut(t) == UNCHANGED tenants

AddTenant(t) == tenants' = tenants \cup {t}

\* Tenant and user are inserted in one transaction.
RegisterCommit(r, i) ==
    /\ req[r].pc = "insert"
    /\ Unique(req[r])
    /\ i \notin Known
    /\ user' = [user EXCEPT ![i] = [name |-> req[r].name, email |-> req[r].email,
                                    tenant |-> req[r].tenant, role |-> "USER"]]
    /\ AddTenant(req[r].tenant)
    /\ home' = [home EXCEPT ![i] = req[r].tenant]
    /\ Goto(r, [pc |-> "token", id |-> i, tenant |-> req[r].tenant])
    /\ UNCHANGED <<tokens, up, conf, starts>>

\* integrity_error_handler
RegisterConflict(r) ==
    /\ req[r].pc = "insert"
    /\ ~Unique(req[r])
    /\ Goto(r, Idle)
    /\ UNCHANGED <<user, tenants, tokens, up, conf, starts, home>>

\* The user is read again after the commit, and the token made from both.
RegisterToken(r) ==
    /\ req[r].pc = "token"
    /\ tokens' = tokens \cup {[sub |-> req[r].id, tenant |-> req[r].tenant,
                               role |-> user[req[r].id].role]}
    /\ Goto(r, Idle)
    /\ UNCHANGED <<user, tenants, up, conf, starts, home>>

-----------------------------------------------------------------------------
(* AuthService.login: the row is read, then its hash is compared.          *)

LoginRead(r, i) ==
    /\ up
    /\ req[r] = Idle
    /\ i \in Known
    /\ Goto(r, [pc |-> "verify", token |-> TokenOf(i, user[i])])
    /\ UNCHANGED <<user, tenants, tokens, up, conf, starts, home>>

LoginToken(r) ==
    /\ req[r].pc = "verify"
    /\ tokens' = tokens \cup {req[r].token}
    /\ Goto(r, Idle)
    /\ UNCHANGED <<user, tenants, up, conf, starts, home>>

\* get_current_user
Accepted(tok) ==
    /\ tok.sub \in Known
    /\ LET u == user[tok.sub] IN
       /\ tok.role = u.role
       /\ \/ u.role \in {"USER", "ADMIN"} /\ u.tenant # NoTenant /\ tok.tenant = u.tenant
          \/ u.role = "SUPERUSER" /\ u.tenant = NoTenant /\ tok.tenant = NoTenant

-----------------------------------------------------------------------------
(* AdminService.promote_to_admin and demote_admin, for a superuser.        *)

ChangeRead(r, i, role) ==
    /\ up
    /\ req[r] = Idle
    /\ \E tok \in tokens : tok.role = "SUPERUSER" /\ Accepted(tok)
    /\ i \in Known
    /\ \/ role = "ADMIN" /\ user[i].role = "USER" /\ user[i].tenant # NoTenant
       \/ role = "USER" /\ user[i].role = "ADMIN"
    /\ Goto(r, [pc |-> "role", id |-> i, role |-> role])
    /\ UNCHANGED <<user, tenants, tokens, up, conf, starts, home>>

\* Only the column that changed is written.
ChangeCommit(r) ==
    /\ req[r].pc = "role"
    /\ user' = [user EXCEPT ![req[r].id].role = req[r].role]
    /\ Goto(r, Idle)
    /\ UNCHANGED <<tenants, tokens, up, conf, starts, home>>

-----------------------------------------------------------------------------
(* init_db: seed_superuser, before the first request of a start.           *)

\* Mutant: a name the superuser has itself counts as taken.
FreeNameMut(n, e) == HasName(n) = {}

\* Mutant: SUPERUSER_NAME is free.
FreeNameAnyMut(n, e) == TRUE

FreeName(n, e) == HasName(n) \subseteq HasEmail(e)

\* _build_unique_username
SeedName(n, e) ==
    \E k \in DOMAIN Candidates :
        /\ n = Candidates[k]
        /\ FreeName(n, e)
        /\ \A j \in 1 .. k - 1 : ~FreeName(Candidates[j], e)

\* Mutant: a tenant's user keeps its tenant.
SeededMut(i, n, e) ==
    [name |-> n, email |-> e, role |-> "SUPERUSER",
     tenant |-> IF i \in Known THEN user[i].tenant ELSE NoTenant]

\* The row of that email, whose ever it was, or a new one.
Seeded(i, n, e) == [name |-> n, email |-> e, role |-> "SUPERUSER", tenant |-> NoTenant]

Start(i, n, e) ==
    /\ ~up
    /\ starts < MaxStarts
    /\ IF HasEmail(e) # {} THEN i \in HasEmail(e) ELSE i \notin Known
    /\ SeedName(n, e)
    /\ user' = [user EXCEPT ![i] = Seeded(i, n, e)]
    /\ up' = TRUE
    /\ conf' = e
    /\ starts' = starts + 1
    /\ UNCHANGED <<tenants, tokens, req, home>>

\* Mutant: the old process finishes its requests while the new one starts.
CrashMut ==
    /\ up
    /\ up' = FALSE
    /\ UNCHANGED <<user, tenants, tokens, req, conf, starts, home>>

\* Requests die with the process; tokens are in the browsers.
Crash ==
    /\ up
    /\ up' = FALSE
    /\ req' = [r \in Request |-> Idle]
    /\ UNCHANGED <<user, tenants, tokens, conf, starts, home>>

RequestStep(r) ==
    \/ \E n \in Name, e \in Email, t \in Tenant : RegisterCheck(r, n, e, t)
    \/ RegisterTenant(r)
    \/ \E i \in Id : RegisterCommit(r, i)
    \/ RegisterConflict(r)
    \/ RegisterToken(r)
    \/ \E i \in Id : LoginRead(r, i)
    \/ LoginToken(r)
    \/ \E i \in Id, role \in {"USER", "ADMIN"} : ChangeRead(r, i, role)
    \/ ChangeCommit(r)

Next ==
    \/ \E r \in Request : RequestStep(r)
    \/ \E i \in Id, n \in Name, e \in Email : Start(i, n, e)
    \/ Crash

Spec == Init /\ [][Next]_vars

-----------------------------------------------------------------------------
Pending ==
    {Idle}
    \cup [pc : {"tenant"}, name : Name, email : Email, tenant : Tenant]
    \cup [pc : {"insert"}, name : Name, email : Email, tenant : Tenant, join : BOOLEAN]
    \cup [pc : {"token"}, id : Id, tenant : Tenant]
    \cup [pc : {"verify"}, token : Token]
    \cup [pc : {"role"}, id : Id, role : {"USER", "ADMIN"}]

AccountsTypeOK ==
    /\ user \in [Id -> User \cup {NoUser}]
    /\ tenants \subseteq Tenant
    /\ tokens \subseteq Token
    /\ req \in [Request -> Pending]
    /\ up \in BOOLEAN
    /\ conf \in Email \cup {NoEmail}
    /\ starts \in 0 .. MaxStarts
    /\ home \in [Id -> Tenant \cup {NoTenant}]
    /\ \A i \in Known : user[i].tenant \in tenants \cup {NoTenant}

\* No two users share a name or an email, seeded ones included: no start of the
\* API fails on an index because of what users have registered.
KeysUnique ==
    \A i, j \in Known :
        user[i].name = user[j].name \/ user[i].email = user[j].email => i = j

\* The superusers are the users without a tenant, and one of them has the
\* configured email as long as the API is up.
SuperusersGlobal ==
    /\ \A i \in Known : user[i].role = "SUPERUSER" <=> user[i].tenant = NoTenant
    /\ up => \E i \in HasEmail(conf) : user[i].role = "SUPERUSER"

\* A token is refused only because its user has another role now: whatever ran
\* between the read and the token, its tenant is right when its role is.
CurrentTokenWorks ==
    \A tok \in tokens : user[tok.sub].role = tok.role => Accepted(tok)

\* Every tenant has a user who registered with it and still is in it, unless a
\* start of the API made that user a superuser.
TenantsPeopled ==
    \A t \in tenants : \E i \in Known :
        home[i] = t /\ (user[i].tenant = t \/ user[i].role = "SUPERUSER")

\* A start with the settings of the one before changes no user, its superuser's
\* name included.
RestartKeepsAccounts ==
    [][~up /\ up' /\ conf' = conf => UNCHANGED user]_vars
=============================================================================
