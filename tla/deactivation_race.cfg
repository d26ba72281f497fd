SPECIFICATION SignedUpSpec
CONSTANTS
    acme = n1
    ann = u1
    bob = u2
    kAnn = k1
    TenantIds = {n1}
    Slugs = {"acme"}
    NormalSlugs = {"acme"}
    UserIds = {u1, u2}
    Emails = {"ann", "bob"}
    NormalEmails = {"ann", "bob"}
    Passwords = {"pw"}
    TokenIds = {k1, k2, k3}
    Threads = {t1, t2}
    Endpoints = {"login", "refresh", "deactivate"}
    MaxFailed = 2
    LockoutTTL = 1
    AccessTTL = 1
    RefreshTTL = 1
    MaxTime = 1
    MaxAudit = 6
    MaxProvisioned = 4
SYMMETRY SymmetryOfIds
CONSTRAINT BoundedAudit
INVARIANT DeactivatedHaveNoSession
CHECK_DEADLOCK FALSE
