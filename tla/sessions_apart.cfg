SPECIFICATION PopulatedSpec
CONSTANTS
    acme = n1
    ann = u1
    bob = u2
    kAnn = k1
    TenantIds = {n1}
    Slugs = {"acme"}
    NormalSlugs = {"acme"}
    UserIds = {u1, u2}
    Emails = {"ann", "bob"}
    NormalEmails = {"ann", "bob"}
    Passwords = {"pw", "qw"}
    TokenIds = {k1, k2, k3}
    Threads = {t1, t2}
    Endpoints = {"login", "refresh", "logout", "deactivate", "bootstrap", "reset_password", "update_role", "update_tenant"}
    MaxFailed = 2
    LockoutTTL = 1
    AccessTTL = 1
    RefreshTTL = 1
    MaxTime = 2
    MaxAudit = 6
    MaxProvisioned = 4
SYMMETRY SymmetryOfIds
CONSTRAINTS BoundedAudit Apart
INVARIANTS OneLiveTokenPerSession LogoutEndsSession DeactivatedHaveNoSession EveryFailureCounts
PROPERTIES RotationEndsSessions ActorsAreEntitled KeepsLedger
CHECK_DEADLOCK FALSE
