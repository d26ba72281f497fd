SPECIFICATION PopulatedSpec
CONSTANTS
    acme = n1
    ann = u1
    bob = u2
    kAnn = k1
    TenantIds = {n1, n2}
    Slugs = {"acme", "ops"}
    NormalSlugs = {"acme", "ops"}
    UserIds = {u1, u2, u3, u4}
    Emails = {"ann", "bob"}
    NormalEmails = {"ann", "bob"}
    Passwords = {"pw"}
    TokenIds = {k1, k2}
    Threads = {t1, t2}
    Endpoints = {"bootstrap", "register", "login", "create_user", "update_role", "deactivate", "create_tenant", "update_tenant"}
    MaxFailed = 2
    LockoutTTL = 1
    AccessTTL = 1
    RefreshTTL = 1
    MaxTime = 1
    MaxAudit = 6
    MaxProvisioned = 5
SYMMETRY SymmetryOfIds
CONSTRAINT BoundedAudit
INVARIANTS TypeOK KeysAreUnique SysAdminsAreProvisioned RolesAreAudited SuspensionsAreRecorded
PROPERTIES TenantsAreIsolated SysAdminsAreProtected
CHECK_DEADLOCK FALSE
