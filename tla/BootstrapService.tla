---- MODULE BootstrapService ----
(***************************************************************************)
(* services/bootstrap.py: the command that makes sure a system             *)
(* administrator exists, run by an operator while the service is up.       *)
(***************************************************************************)
EXTENDS Store

(* The tenant is looked up by slug, as typed: the command has no           *)
(* validators.  "rotate" is the --reset-password flag; "reactivate", that  *)
(* the tenant found was inactive when loaded.                              *)
BootstrapReadTenant(t) ==
    /\ "bootstrap" \in Endpoints
    /\ IsIdle(t)
    /\ \E slug \in Slugs, email \in Emails, password \in Passwords,
          rotate \in {r \in BOOLEAN : r => "reset_password" \in Endpoints} :
        LET found == TenantsBySlug(slug)
        IN  Hold(t, [pc |-> "bootstrap_tenant", slug |-> slug, email |-> email,
                     password |-> password, rotate |-> rotate, tenant |-> found,
                     reactivate |-> \E n \in found : ~tenants[n].active])

(* The user is looked up in the tenant found; one that is not a system     *)
(* administrator ends the command.                                         *)
BootstrapReadUser(t) ==
    /\ txn[t].pc = "bootstrap_tenant"
    /\ LET x == txn[t]
           found == UNION {UsersByEmail(n, x.email) : n \in x.tenant}
       IN  \/ /\ found = {}
              /\ Hold(t, [pc |-> "bootstrap_create", slug |-> x.slug,
                          email |-> x.email, password |-> x.password,
                          tenant |-> x.tenant, reactivate |-> x.reactivate])
           \/ \E u \in found :
              /\ users[u].role = "SYS_ADMIN"
              /\ Hold(t, [pc |-> IF x.rotate THEN "bootstrap_rotate"
                                 ELSE "bootstrap_update",
                          user |-> u, row |-> users[u],
                          rotate |-> x.rotate, password |-> x.password,
                          tokens |-> {}, reactivate |-> x.reactivate])

(* _revoke_active_refresh_tokens selects the tokens to revoke.             *)
BootstrapReadTokens(t) ==
    /\ txn[t].pc = "bootstrap_rotate"
    /\ LET x == txn[t]
       IN  Hold(t, [pc |-> "bootstrap_update", user |-> x.user, row |-> x.row,
                    rotate |-> x.rotate, password |-> x.password,
                    tokens |-> UnrevokedTokens(x.user), reactivate |-> x.reactivate])

(* tenant.is_active = True, net of what was loaded.                        *)
Reactivate(table, ids) ==
    [n \in DOMAIN table |->
        IF n \in ids THEN [table[n] EXCEPT !.active = TRUE] ELSE table[n]]

(* The administrator is created, in a new tenant if there was none; the    *)
(* unique constraints let only one of two commands through.                *)
BootstrapCreateCommit(t) ==
    /\ txn[t].pc = "bootstrap_create"
    /\ LET x == txn[t]
       IN  \E n \in TenantIds, u \in UserIds \ DOMAIN users :
            /\ IF x.tenant = None
               THEN /\ n \notin DOMAIN tenants
                    /\ SlugFree(x.slug)
                    /\ tenants' = Insert(tenants, n, [slug |-> x.slug, active |-> TRUE])
               ELSE /\ n \in x.tenant
                    /\ tenants' = IF x.reactivate THEN Reactivate(tenants, {n})
                                  ELSE tenants
            /\ EmailFree(n, x.email)
            /\ users' = Insert(users, u,
                    [tenant |-> n, email |-> x.email, password |-> x.password,
                     role |-> "SYS_ADMIN", active |-> TRUE, failed |-> 0,
                     lockedUntil |-> 0])
            /\ audit' = audit \cup
                    {Entry("USER_CREATED", Some(n), Some(u), u,
                           <<"SYS_ADMIN", "bootstrap_admin_cli">>)}
                    \cup {Entry("TENANT_CREATED", Some(m), Some(u), m,
                                <<"bootstrap_admin_cli">>) :
                            m \in {n} \ x.tenant}
    /\ Finish(t)
    /\ UNCHANGED <<now, tokens, jwts, strikes>>

(* The administrator found is activated and unlocked, and with the flag    *)
(* gets the new password and loses its sessions.  No entry is recorded.    *)
BootstrapUpdateCommit(t) ==
    /\ txn[t].pc = "bootstrap_update"
    /\ LET x == txn[t]
           u == x.user
       IN  /\ tenants' = IF x.reactivate THEN Reactivate(tenants, {x.row.tenant})
                         ELSE tenants
           /\ users' = [users EXCEPT
                ![u].active = Write(x.row.active, TRUE, @),
                ![u].failed = Write(x.row.failed, 0, @),
                ![u].lockedUntil = Write(x.row.lockedUntil, 0, @),
                ![u].password = IF x.rotate THEN x.password ELSE @]
           /\ tokens' = Revoke(tokens, x.tokens)
           /\ strikes' = [strikes EXCEPT ![u] = 0]
    /\ Finish(t)
    /\ UNCHANGED <<now, audit, jwts>>

BootstrapStep(t) ==
    \/ BootstrapReadTenant(t) \/ BootstrapReadUser(t) \/ BootstrapReadTokens(t)
    \/ BootstrapCreateCommit(t) \/ BootstrapUpdateCommit(t)

====
