SPECIFICATION SummarizedSpec
CONSTANTS
    acme = n1
    ann = u1
    bob = u2
    kAnn = k1
    TenantIds = {n1}
    Slugs = {"acme"}
    NormalSlugs = {"acme"}
    UserIds = {u1, u2}
    Emails = {"ann", "bob"}
    NormalEmails = {"ann", "bob"}
    Passwords = {"pw", "qw"}
    TokenIds = {k1, k2, k3}
    Threads = {t1, t2}
    Endpoints = {"login", "refresh", "logout", "deactivate", "create_user", "update_role"}
    MaxFailed = 2
    LockoutTTL = 1
    AccessTTL = 1
    RefreshTTL = 1
    MaxTime = 2
    MaxAudit = 6
    MaxProvisioned = 4
    Kinds = {"tenant", "system"}
    MaxDrift = 2
SYMMETRY SymmetryOfIds
CONSTRAINTS BoundedAudit BoundedReport
INVARIANT SummariesAddUp
PROPERTIES DeactivatedStayOut EndedSessionsStayEnded LockedStayOut
CHECK_DEADLOCK FALSE
