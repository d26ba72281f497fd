---- MODULE Principals ----
(***************************************************************************)
(* Who sends a request and what it may touch: api/dependencies/auth.py and *)
(* TenantService.resolve_visible_tenant.                                   *)
(***************************************************************************)
EXTENDS Store

AuthenticatedEndpoints ==
    {"create_user", "update_role", "deactivate", "create_tenant", "update_tenant"}

(* get_current_principal: the access token's claims are compared with the  *)
(* user and tenant rows.  ClaimsTrusted goes by the token alone.           *)
ClaimsTrusted(j) == j.exp > now
ClaimsHold(j) ==
    /\ j.exp > now
    /\ j.user \in DOMAIN users
    /\ users[j.user].active
    /\ tenants[users[j.user].tenant].active
    /\ users[j.user].tenant = j.tenant
    /\ users[j.user].role = j.role

(* What passes is copied into the principal, and the rest of the request   *)
(* goes by that copy.                                                      *)
Authenticate(t) ==
    /\ Endpoints \cap AuthenticatedEndpoints # {}
    /\ IsIdle(t)
    /\ \E j \in jwts :
        /\ ClaimsHold(j)
        /\ Hold(t, [pc |-> "authenticated",
                    actor |-> [user |-> j.user, tenant |-> j.tenant,
                               role |-> j.role]])

(* resolve_visible_tenant: a system administrator sees every tenant, any   *)
(* other principal its own, and only with one of the roles allowed there.  *)
(* ReachByRole forgets whose tenant it is.                                 *)
ReachByRole(actor, tenant, allowedRoles) ==
    tenant \in DOMAIN tenants /\ actor.role \in allowedRoles
MayReach(actor, tenant, allowedRoles) ==
    /\ tenant \in DOMAIN tenants
    /\ \/ actor.role = "SYS_ADMIN"
       \/ actor.tenant = tenant /\ actor.role \in allowedRoles

====
