---- MODULE TenantService ----
(***************************************************************************)
(* services/tenants.py: a system administrator creates and updates         *)
(* tenants.                                                                *)
(***************************************************************************)
EXTENDS Principals

(***************************************************************************)
(* POST /tenants                                                           *)
(***************************************************************************)

(* The endpoint requires the role SYS_ADMIN; a taken slug is answered 409. *)
CreateTenantRead(t) ==
    /\ "create_tenant" \in Endpoints
    /\ txn[t].pc = "authenticated"
    /\ txn[t].actor.role = "SYS_ADMIN"
    /\ \E slug \in BodySlugs, active \in BOOLEAN :
        /\ TenantsBySlug(slug) = {}
        /\ Hold(t, [pc |-> "create_tenant", actor |-> txn[t].actor,
                    slug |-> slug, active |-> active])

CreateTenantCommit(t) ==
    /\ txn[t].pc = "create_tenant"
    /\ SlugFree(txn[t].slug)
    /\ \E n \in TenantIds \ DOMAIN tenants :
        /\ tenants' = Insert(tenants, n,
                [slug |-> txn[t].slug, active |-> txn[t].active])
        /\ audit' = audit \cup
                {Entry("TENANT_CREATED", Some(n), Some(txn[t].actor.user), n,
                       <<"system_admin">>)}
    /\ Finish(t)
    /\ UNCHANGED <<now, users, tokens, jwts, strikes>>

(***************************************************************************)
(* PATCH /tenants/{id}                                                     *)
(***************************************************************************)

(* The body sets the name, the active flag, both or neither; "active" is   *)
(* the flag it sets, if any.  (The name is in no column of the model; a    *)
(* null in either field violates NOT NULL at the flush: Rollback.)         *)
UpdateTenantRead(t) ==
    /\ "update_tenant" \in Endpoints
    /\ txn[t].pc = "authenticated"
    /\ \E n \in DOMAIN tenants, named \in BOOLEAN,
          active \in {None, Some(TRUE), Some(FALSE)} :
        /\ MayReach(txn[t].actor, n, {"SYS_ADMIN"})
        /\ Hold(t, [pc |-> "update_tenant", actor |-> txn[t].actor, tenant |-> n,
                    loaded |-> tenants[n].active, named |-> named,
                    active |-> active])

(* The TENANT_UPDATED entry says what the body asks for; the variant, what *)
(* the tenant was before the body was applied.                             *)
FlagDetail(active) ==
    IF active = None THEN << >>
    ELSE IF active = Some(TRUE) THEN <<"active">> ELSE <<"inactive">>
EntryBeforeUpdate(x) ==
    Entry("TENANT_UPDATED", Some(x.tenant), Some(x.actor.user), x.tenant,
          IF x.active = None THEN << >> ELSE FlagDetail(Some(x.loaded)))
TenantUpdateEntry(x) ==
    Entry("TENANT_UPDATED", Some(x.tenant), Some(x.actor.user), x.tenant,
          FlagDetail(x.active))

(* An entry is recorded when the body sets anything, changed or not.       *)
UpdateTenantCommit(t) ==
    /\ txn[t].pc = "update_tenant"
    /\ LET wanted == txn[t].active
       IN  /\ tenants' = [tenants EXCEPT ![txn[t].tenant].active =
                IF wanted = None THEN @ ELSE Write(txn[t].loaded, TRUE \in wanted, @)]
           /\ audit' = IF wanted = None /\ ~txn[t].named THEN audit
                ELSE audit \cup {TenantUpdateEntry(txn[t])}
    /\ Finish(t)
    /\ UNCHANGED <<now, users, tokens, jwts, strikes>>

TenantStep(t) ==
    \/ CreateTenantRead(t) \/ CreateTenantCommit(t)
    \/ UpdateTenantRead(t) \/ UpdateTenantCommit(t)

====
