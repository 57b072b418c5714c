SPECIFICATION Spec
CONSTANTS
    root = root
    root1 = root1
    root2 = root2
    Id = {i1, i2, i3}
    Name = {root, root1, root2}
    Email = {e1, e2, e3}
    Tenant = {t1, t2}
    NoTenant = NoTenant
    NoEmail = NoEmail
    NoUser = NoUser
    Candidates <- MCCandidates
    Request = {r1, r2}
    MaxStarts = 3
INVARIANTS
    AccountsTypeOK
    KeysUnique
    SuperusersGlobal
    CurrentTokenWorks
    TenantsPeopled
PROPERTIES
    RestartKeepsAccounts
SYMMETRY MCSymmetry
CHECK_DEADLOCK FALSE
