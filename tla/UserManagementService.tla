---- MODULE UserManagementService ----
(***************************************************************************)
(* services/users.py: an administrator creates users, changes their role   *)
(* and deactivates them.                                                   *)
(***************************************************************************)
EXTENDS Principals

MayManageUsers(actor, tenant) ==
    MayReach(actor, tenant, {"TENANT_ADMIN", "SYS_ADMIN"})

(* _ensure_manageable_target and _ensure_role_assignment_allowed: only a   *)
(* system administrator touches a system administrator, or makes one.      *)
(* MayHandleAnyRole is the check left out.                                 *)
MayHandleAnyRole(actor, role) == TRUE
MayHandleRole(actor, role) == actor.role = "SYS_ADMIN" \/ role # "SYS_ADMIN"

(* _get_visible_user, after resolve_visible_tenant has let the actor in.   *)
VisibleUsers(actor, tenant) ==
    {u \in DOMAIN users :
        /\ users[u].tenant = tenant
        /\ actor.role = "SYS_ADMIN" \/ actor.tenant = users[u].tenant}

(***************************************************************************)
(* POST /tenants/{id}/users                                                *)
(***************************************************************************)
CreateUserRead(t) ==
    /\ "create_user" \in Endpoints
    /\ txn[t].pc = "authenticated"
    /\ \E n \in DOMAIN tenants, email \in BodyEmails, password \in Passwords,
          role \in Roles, active \in BOOLEAN :
        /\ MayManageUsers(txn[t].actor, n)
        /\ MayHandleRole(txn[t].actor, role)
        /\ UsersByEmail(n, email) = {}
        /\ Hold(t, [pc |-> "create_user", actor |-> txn[t].actor,
                    tenant |-> n, email |-> email, password |-> password,
                    role |-> role, active |-> active])

(* uq_users_tenant_email lets only one of two requests through.            *)
CreateUserCommit(t) ==
    /\ txn[t].pc = "create_user"
    /\ EmailFree(txn[t].tenant, txn[t].email)
    /\ \E u \in UserIds \ DOMAIN users :
        /\ users' = Insert(users, u,
                [tenant |-> txn[t].tenant, email |-> txn[t].email,
                 password |-> txn[t].password, role |-> txn[t].role,
                 active |-> txn[t].active, failed |-> 0, lockedUntil |-> 0])
        /\ audit' = audit \cup
                {Entry("USER_CREATED", Some(txn[t].tenant),
                       Some(txn[t].actor.user), u, <<txn[t].role, "admin_api">>)}
    /\ Finish(t)
    /\ UNCHANGED <<now, tenants, tokens, jwts, strikes>>

(***************************************************************************)
(* PATCH /tenants/{id}/users/{id}/role                                     *)
(***************************************************************************)
UpdateRoleRead(t) ==
    /\ "update_role" \in Endpoints
    /\ txn[t].pc = "authenticated"
    /\ \E n \in DOMAIN tenants, role \in Roles :
        /\ MayManageUsers(txn[t].actor, n)
        /\ \E u \in VisibleUsers(txn[t].actor, n) :
            /\ MayHandleRole(txn[t].actor, users[u].role)
            /\ MayHandleRole(txn[t].actor, role)
            /\ Hold(t, [pc |-> "update_role", actor |-> txn[t].actor,
                        user |-> u, tenant |-> n,
                        old |-> users[u].role, new |-> role])

(* The ROLE_CHANGED entry; RoleSwapEntry has the two roles the wrong way.  *)
RoleSwapEntry(x) ==
    Entry("ROLE_CHANGED", Some(x.tenant), Some(x.actor.user), x.user, <<x.new, x.old>>)
RoleChangeEntry(x) ==
    Entry("ROLE_CHANGED", Some(x.tenant), Some(x.actor.user), x.user, <<x.old, x.new>>)

UpdateRoleCommit(t) ==
    /\ txn[t].pc = "update_role"
    /\ users' = [users EXCEPT ![txn[t].user].role =
                    Write(txn[t].old, txn[t].new, @)]
    /\ audit' = IF txn[t].old = txn[t].new THEN audit
                ELSE audit \cup {RoleChangeEntry(txn[t])}
    /\ Finish(t)
    /\ UNCHANGED <<now, tenants, tokens, jwts, strikes>>

(***************************************************************************)
(* DELETE /tenants/{id}/users/{id}                                         *)
(***************************************************************************)

(* The target is looked up and checked; an inactive one is answered 204.   *)
DeactivateReadUser(t) ==
    /\ "deactivate" \in Endpoints
    /\ txn[t].pc = "authenticated"
    /\ \E n \in DOMAIN tenants :
        /\ MayManageUsers(txn[t].actor, n)
        /\ \E u \in VisibleUsers(txn[t].actor, n) :
            /\ MayHandleRole(txn[t].actor, users[u].role)
            /\ u # txn[t].actor.user
            /\ users[u].active
            /\ Hold(t, [pc |-> "deactivate_user", actor |-> txn[t].actor,
                        user |-> u, tenant |-> n])

(* _revoke_user_refresh_tokens selects the tokens to revoke.               *)
DeactivateReadTokens(t) ==
    /\ txn[t].pc = "deactivate_user"
    /\ Hold(t, [pc |-> "deactivate", actor |-> txn[t].actor,
                user |-> txn[t].user, tenant |-> txn[t].tenant,
                tokens |-> UnrevokedTokens(txn[t].user)])

DeactivateCommit(t) ==
    /\ txn[t].pc = "deactivate"
    /\ users' = [users EXCEPT ![txn[t].user].active = FALSE]
    /\ tokens' = Revoke(tokens, txn[t].tokens)
    /\ audit' = audit \cup
            {Entry("USER_DEACTIVATED", Some(txn[t].tenant),
                   Some(txn[t].actor.user), txn[t].user, << >>)}
    /\ Finish(t)
    /\ UNCHANGED <<now, tenants, jwts, strikes>>

UserManagementStep(t) ==
    \/ CreateUserRead(t) \/ CreateUserCommit(t)
    \/ UpdateRoleRead(t) \/ UpdateRoleCommit(t)
    \/ DeactivateReadUser(t) \/ DeactivateReadTokens(t) \/ DeactivateCommit(t)

====
