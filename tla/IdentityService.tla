---- MODULE IdentityService ----
(***************************************************************************)
(* The whole service: requests under way, one to an element of Threads,    *)
(* in any interleaving with each other and with the operator's command.    *)
(***************************************************************************)
EXTENDS AuthService, UserManagementService, TenantService, BootstrapService

Step(t) ==
    \/ AuthStep(t)
    \/ Authenticate(t)
    \/ UserManagementStep(t)
    \/ TenantStep(t)
    \/ BootstrapStep(t)
    \/ Rollback(t)

Next == Tick \/ \E t \in Threads : Step(t)

Spec == Init /\ [][Next]_vars

(* The statements of a request that acts for an authenticated principal.   *)
PrincipalPcs ==
    {"authenticated", "create_user", "update_role", "deactivate_user",
     "deactivate", "create_tenant", "update_tenant"}
ActsAsPrincipal(t) == txn[t].pc \in PrincipalPcs

(***************************************************************************)
(* Types.                                                                  *)
(***************************************************************************)
TablesOK ==
    /\ now \in 1 .. MaxTime
    /\ DOMAIN tenants \subseteq TenantIds
    /\ tenants \in [DOMAIN tenants -> TenantRow]
    /\ DOMAIN users \subseteq UserIds
    /\ users \in [DOMAIN users -> UserRow]
    /\ DOMAIN tokens \subseteq TokenIds
    /\ tokens \in [DOMAIN tokens -> TokenRow]
    /\ jwts \subseteq AccessToken
    /\ strikes \in [UserIds -> 0 .. MaxFailed]

(* Foreign keys: a row, an access token or a request's memory never names  *)
(* a row that does not exist.                                              *)
ForeignKeysOK ==
    /\ \A u \in DOMAIN users : users[u].tenant \in DOMAIN tenants
    /\ \A k \in DOMAIN tokens : /\ tokens[k].user \in DOMAIN users
                                /\ tokens[k].family \in DOMAIN tokens
    /\ \A j \in jwts : j.user \in DOMAIN users /\ j.tenant \in DOMAIN tenants

(* What a request remembers at each of its statements, against the tables  *)
(* tn, us and tk.                                                          *)
ActorOK(actor, tn, us) ==
    actor \in Principal /\ actor.user \in DOMAIN us /\ actor.tenant \in DOMAIN tn

TxnOK(x, tn, us, tk) ==
    /\ x.pc = "register" =>
        /\ x.slug \in Slugs /\ x.email \in Emails /\ x.password \in Passwords
    /\ x.pc = "login_tenant" => x.tenant \in DOMAIN tn
    /\ x.pc = "login_user" =>
        /\ x.user \in DOMAIN us
        /\ x.row \in UserRow /\ x.row.tenant = us[x.user].tenant
        /\ x.expired \in BOOLEAN
    /\ x.pc \in {"refresh", "logout"} =>
        /\ x.token \in DOMAIN tk /\ x.user = tk[x.token].user
        /\ x.user \in DOMAIN us /\ x.tenant = us[x.user].tenant
    /\ x.pc = "refresh" => x.role \in Roles
    /\ x.pc \in PrincipalPcs => ActorOK(x.actor, tn, us)
    /\ x.pc = "create_user" =>
        /\ x.tenant \in DOMAIN tn /\ x.email \in Emails
        /\ x.password \in Passwords /\ x.role \in Roles /\ x.active \in BOOLEAN
    /\ x.pc \in {"update_role", "deactivate_user", "deactivate"} =>
        /\ x.user \in DOMAIN us /\ x.tenant = us[x.user].tenant
    /\ x.pc = "update_role" => x.old \in Roles /\ x.new \in Roles
    /\ x.pc = "deactivate" => x.tokens \subseteq DOMAIN tk
    /\ x.pc = "create_tenant" => x.slug \in Slugs /\ x.active \in BOOLEAN
    /\ x.pc = "update_tenant" => x.tenant \in DOMAIN tn /\ x.loaded \in BOOLEAN
    /\ x.pc \in {"bootstrap_tenant", "bootstrap_create"} =>
        /\ x.slug \in Slugs /\ x.email \in Emails /\ x.password \in Passwords
        /\ x.tenant \subseteq DOMAIN tn /\ x.reactivate \in BOOLEAN
    /\ x.pc = "bootstrap_tenant" => x.rotate \in BOOLEAN
    /\ x.pc \in {"bootstrap_rotate", "bootstrap_update"} =>
        /\ x.user \in DOMAIN us
        /\ x.row \in UserRow /\ x.row.tenant = us[x.user].tenant
        /\ x.rotate \in BOOLEAN /\ x.password \in Passwords
        /\ x.tokens \subseteq DOMAIN tk /\ x.reactivate \in BOOLEAN

(* The type invariant: every table holds rows of its schema, and what a    *)
(* request kept from its reads still names rows that exist.                *)
TypeOK ==
    /\ TablesOK
    /\ ForeignKeysOK
    /\ DOMAIN txn = Threads
    /\ \A t \in Threads : TxnOK(txn[t], tenants, users, tokens)

====
