---- MODULE MCIdentity ----
(***************************************************************************)
(* The service with a tenant in it, whose administrator, ann, has a        *)
(* session and an access token.  She has signed up and then created bob    *)
(* (SignedUp), or the operator's command made her a system administrator   *)
(* and she has logged in (Bootstrapped).                                   *)
(***************************************************************************)
EXTENDS IdentityProperties, FiniteSets, TLC

CONSTANTS acme, ann, bob, kAnn,
          MaxAudit,           \* bounds on the audit entries, for TLC: before and
          MaxProvisioned      \* after the command has made a system administrator

SymmetryOfIds ==
    Permutations(TenantIds \ {acme}) \cup Permutations(UserIds \ {ann, bob})
      \cup Permutations(TokenIds \ {kAnn}) \cup Permutations(Threads)

BoundedAudit ==
    Cardinality(audit) <= IF ProvisionedByOperator THEN MaxProvisioned ELSE MaxAudit

(* Only the requests that must not overlap are kept apart.                 *)
Apart == SessionsApart /\ LoginsApart /\ ActorsApart

SeedUser(email, role) ==
    [tenant |-> acme, email |-> email, password |-> "pw", role |-> role,
     active |-> TRUE, failed |-> 0, lockedUntil |-> 0]

Populated(role, accounts, entries) ==
    /\ now = 1
    /\ tenants = [n \in {acme} |-> [slug |-> "acme", active |-> TRUE]]
    /\ users = accounts
    /\ tokens = [k \in {kAnn} |-> NewToken(ann, kAnn)]
    /\ jwts = {[user |-> ann, tenant |-> acme, role |-> role, exp |-> 1 + AccessTTL]}
    /\ audit = entries
    /\ txn = [t \in Threads |-> Idle]
    /\ strikes = [u \in UserIds |-> 0]

SignedUp ==
    Populated("TENANT_ADMIN",
        [u \in {ann, bob} |-> IF u = ann THEN SeedUser("ann", "TENANT_ADMIN")
                              ELSE SeedUser("bob", "USER")],
        {Entry("TENANT_CREATED", Some(acme), Some(ann), acme, <<"self_signup">>),
         Entry("USER_CREATED", Some(acme), Some(ann), ann,
               <<"TENANT_ADMIN", "self_signup">>),
         Entry("USER_CREATED", Some(acme), Some(ann), bob, <<"USER", "admin_api">>)})

Bootstrapped ==
    Populated("SYS_ADMIN",
        [u \in {ann} |-> SeedUser("ann", "SYS_ADMIN")],
        {Entry("TENANT_CREATED", Some(acme), Some(ann), acme,
               <<"bootstrap_admin_cli">>),
         Entry("USER_CREATED", Some(acme), Some(ann), ann,
               <<"SYS_ADMIN", "bootstrap_admin_cli">>),
         Entry("LOGIN_SUCCESS", Some(acme), Some(ann), ann, << >>)})

SignedUpSpec == SignedUp /\ [][Next]_vars
PopulatedSpec == (SignedUp \/ Bootstrapped) /\ [][Next]_vars

====
