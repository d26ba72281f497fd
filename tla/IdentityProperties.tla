---- MODULE IdentityProperties ----
(***************************************************************************)
(* What the service promises about its data, whatever the interleaving of  *)
(* requests, and what it promises only when certain ones do not overlap.   *)
(***************************************************************************)
EXTENDS IdentityService

Live(k) == ~tokens[k].revoked /\ tokens[k].expiresAt > now

(* A session is the family of refresh tokens that one login started.       *)
LiveTokens(f) == {k \in DOMAIN tokens : tokens[k].family = f /\ Live(k)}
Sessions == {k \in DOMAIN tokens : tokens[k].family = k}

(* Requests that have passed the checks that lead to a session of u.       *)
LoggingIn(u) == {t \in Threads : txn[t].pc = "login_user" /\ txn[t].user = u}
Refreshing(u) == {t \in Threads : txn[t].pc = "refresh" /\ txn[t].user = u}

(***************************************************************************)
(* Whatever the interleaving.                                              *)
(***************************************************************************)

(* Sign-ups, tenant creations, user creations and bootstraps check for a   *)
(* taken slug or e-mail long before they commit; even so no two tenants    *)
(* share a slug and no two users of a tenant an e-mail address.            *)
KeysAreUnique ==
    /\ \A m, n \in DOMAIN tenants : tenants[m].slug = tenants[n].slug => m = n
    /\ \A u, v \in DOMAIN users :
        users[u].tenant = users[v].tenant /\ users[u].email = users[v].email
            => u = v

(* Only the operator's command makes a first system administrator: the     *)
(* role is in no user row, access token or principal before the command    *)
(* has left its USER_CREATED entry.                                        *)
ProvisionedByOperator ==
    \E e \in audit : /\ e.action = "USER_CREATED"
                     /\ e.detail = <<"SYS_ADMIN", "bootstrap_admin_cli">>
SysAdminsAreProvisioned ==
    \/ \E u \in DOMAIN users : users[u].role = "SYS_ADMIN"
    \/ \E j \in jwts : j.role = "SYS_ADMIN"
    \/ \E t \in Threads : ActsAsPrincipal(t) /\ txn[t].actor.role = "SYS_ADMIN"
    => ProvisionedByOperator

(* A request of a principal that is not a system administrator changes     *)
(* nothing outside the principal's tenant, and its audit entries say so.   *)
StaysInTenant(t) ==
    LET own == txn[t].actor.tenant
    IN  /\ tenants' = tenants
        /\ \A u \in DOMAIN users' :
            \/ users'[u].tenant = own
            \/ u \in DOMAIN users /\ users'[u] = users[u]
        /\ \A k \in DOMAIN tokens' :
            \/ users'[tokens'[k].user].tenant = own
            \/ k \in DOMAIN tokens /\ tokens'[k] = tokens[k]
        /\ \A e \in audit' \ audit : e.tenant = Some(own)
TenantsAreIsolated ==
    [][\A t \in Threads :
        ActsAsPrincipal(t) /\ txn[t].actor.role # "SYS_ADMIN" /\ txn'[t] # txn[t]
            => StaysInTenant(t)]_vars

(* The role every user has now is the one an audit entry gave it, at its   *)
(* creation or by a change of role, however changes of role overlap.       *)
RolesAreAudited ==
    \A u \in DOMAIN users : \E e \in audit :
        /\ e.resource = u
        /\ \/ e.action = "USER_CREATED" /\ e.detail[1] = users[u].role
           \/ e.action = "ROLE_CHANGED" /\ e.detail[2] = users[u].role

(* A tenant is out of service only if an entry asked for it: an update     *)
(* that names the flag, or the system administrator that created it.       *)
SuspensionsAreRecorded ==
    \A n \in DOMAIN tenants : ~tenants[n].active => \E e \in audit :
        /\ e.resource = n
        /\ \/ e.action = "TENANT_UPDATED" /\ e.detail = <<"inactive">>
           \/ e.action = "TENANT_CREATED" /\ e.detail = <<"system_admin">>

(* A session has ended when none of its tokens is live and no refresh that *)
(* read one of them is under way.  An ended session never gets a live      *)
(* token again, nor can a refresh of one of its old tokens start.          *)
Ended(f) ==
    /\ LiveTokens(f) = {}
    /\ \A t \in Threads : txn[t].pc = "refresh" => tokens[txn[t].token].family # f
EndedSessionsStayEnded == [][\A f \in Sessions : Ended(f) => Ended(f)']_vars

(* Once a user is deactivated and the logins and refreshes that had read   *)
(* it active have ended, it gets no session and no access token, and none  *)
(* of its logins or refreshes passes the checks until it is reactivated.   *)
Out(u) == ~users[u].active /\ LoggingIn(u) = {} /\ Refreshing(u) = {}
DeactivatedStayOut ==
    [][\A u \in DOMAIN users : Out(u) =>
        /\ users'[u].active \/ Out(u)'
        /\ \A k \in DOMAIN tokens' \ DOMAIN tokens : tokens'[k].user # u
        /\ \A j \in jwts' \ jwts : j.user # u]_vars

(* While a user is locked and no login that read it before is under way,   *)
(* no login passes the checks and none starts a session for it.            *)
Barred(u) == users[u].lockedUntil > now /\ LoggingIn(u) = {}
LockedStayOut ==
    [][\A u \in DOMAIN users : Barred(u) =>
        /\ LoggingIn(u)' = {}
        /\ \A f \in Sessions' \ Sessions : tokens'[f].user # u]_vars

(* Requests of principals below system administrator whose check of the    *)
(* target u is done.                                                       *)
Managing(u) ==
    {t \in Threads :
        /\ txn[t].pc \in {"update_role", "deactivate_user", "deactivate"}
        /\ txn[t].user = u
        /\ txn[t].actor.role # "SYS_ADMIN"}

(* Once the requests that had checked a user before it was made a system   *)
(* administrator are over, nobody below one changes its row: it stays one, *)
(* and no such request passes the check, until a system administrator      *)
(* takes the role away.  (Before they are over, one may still demote or    *)
(* deactivate it: nothing is checked again at the commit.)                 *)
Shielded(u) == users[u].role = "SYS_ADMIN" /\ Managing(u) = {}
SysAdminsAreProtected ==
    [][\A u \in DOMAIN users : Shielded(u) =>
        /\ users'[u].role # "SYS_ADMIN" \/ Shielded(u)'
        /\ \A t \in Threads :
            ActsAsPrincipal(t) /\ txn[t].actor.role # "SYS_ADMIN" /\ txn'[t] # txn[t]
                => users'[u] = users[u]]_vars

(***************************************************************************)
(* What the documents promise and the code does not keep.                  *)
(***************************************************************************)

(* The operator's command has announced an administrator as ready: there   *)
(* is a body that a login may hold, which finds it.                        *)
BootstrappedCanLogIn ==
    \A e \in audit :
        e.action = "USER_CREATED" /\ e.detail = <<"SYS_ADMIN", "bootstrap_admin_cli">>
            => \E slug \in BodySlugs, email \in BodyEmails :
                \E n \in TenantsBySlug(slug) : e.resource \in UsersByEmail(n, email)

(* Every revocation of a refresh token is in the audit log.                *)
RevocationsAreAudited ==
    \A k \in DOMAIN tokens : tokens[k].revoked =>
        \E e \in audit : e.action = "TOKEN_REVOKED" /\ e.resource = k

(* MaxFailed wrong passwords since the last reset lock the user.           *)
RepeatedFailuresLock ==
    \A u \in DOMAIN users :
        strikes[u] >= MaxFailed => users[u].lockedUntil # 0

(***************************************************************************)
(* Requests that must not overlap, between their last read and their       *)
(* commit, for the promises below.  Nothing in the service keeps them      *)
(* apart: there is no row lock, version column or conditional UPDATE.      *)
(***************************************************************************)
EntersAs(t, u) == txn[t].pc \in {"login_user", "refresh"} /\ txn[t].user = u

(* Two refreshes of one token.                                             *)
RefreshesApart ==
    \A s, t \in Threads :
        s # t /\ txn[s].pc = "refresh" /\ txn[t].pc = "refresh"
            => txn[s].token # txn[t].token

(* A logout and a refresh of one token.                                    *)
LogoutsApart ==
    \A s, t \in Threads :
        txn[s].pc = "logout" /\ txn[t].pc = "refresh"
            => txn[s].token # txn[t].token

(* A deactivation and a login or refresh of its user.                      *)
DeactivationsApart ==
    \A s, t \in Threads : txn[s].pc = "deactivate" => ~EntersAs(t, txn[s].user)

(* A rotation of a password and a login or refresh of its user.            *)
Rotates(t) == txn[t].pc = "bootstrap_update" /\ txn[t].rotate
RotationsApart ==
    \A s, t \in Threads : Rotates(s) => ~EntersAs(t, txn[s].user)

(* The requests that concern sessions.                                     *)
SessionsApart == RefreshesApart /\ LogoutsApart /\ DeactivationsApart /\ RotationsApart

(* Two logins of one user, or a login and the command's reset of its lock. *)
LoginsApart ==
    \A s, t \in Threads :
        /\ s # t
        /\ txn[s].pc = "login_user"
        /\ txn[t].pc \in {"login_user", "bootstrap_rotate", "bootstrap_update"}
        => txn[s].user # txn[t].user

(* A principal's request and another that takes its role, its account or   *)
(* its tenant away.                                                        *)
Unseats(t, actor) ==
    \/ /\ txn[t].pc = "update_role" /\ txn[t].user = actor.user
       /\ txn[t].new # actor.role
    \/ txn[t].pc = "deactivate" /\ txn[t].user = actor.user
    \/ /\ txn[t].pc = "update_tenant" /\ txn[t].tenant = actor.tenant
       /\ txn[t].active = Some(FALSE)
ActorsApart ==
    \A s, t \in Threads : s # t /\ ActsAsPrincipal(s) => ~Unseats(t, txn[s].actor)

(***************************************************************************)
(* What holds as long as they do not: KeepsLedger as long as SessionsApart *)
(* does, OneLiveTokenPerSession with RefreshesApart, LogoutEndsSession     *)
(* with LogoutsApart too, DeactivatedHaveNoSession with DeactivationsApart,*)
(* EveryFailureCounts with LoginsApart, RotationEndsSessions with          *)
(* RotationsApart, ActorsAreEntitled with ActorsApart.                     *)
(***************************************************************************)

(* The service keeps the ledger of sessions: a session is open while one   *)
(* of its tokens is not revoked, and every step of the service opens,      *)
(* rotates or closes sessions as the ledger does, or leaves it alone.      *)
Ledger == INSTANCE SessionLedger WITH
    Users <- UserIds,
    Ids <- TokenIds,
    issued <- DOMAIN tokens,
    owner <- [f \in Sessions |-> tokens[f].user],
    current <- [f \in Sessions |->
        {k \in DOMAIN tokens : tokens[k].family = f /\ ~tokens[k].revoked}],
    out <- {u \in DOMAIN users : ~users[u].active}
KeepsLedger == [][Ledger!Next]_Ledger!vars

(* Rotation replaces: a session has at most one live refresh token.        *)
OneLiveTokenPerSession ==
    \A f \in Sessions : \A k, l \in LiveTokens(f) : k = l

(* A logout ends the session its token belongs to.                         *)
LogoutEndsSession ==
    \A e \in audit : e.action = "TOKEN_REVOKED" /\ e.detail = <<"logout">>
        => LiveTokens(tokens[e.resource].family) = {}

(* A deactivated user has no live refresh token.                           *)
DeactivatedHaveNoSession ==
    \A k \in DOMAIN tokens : Live(k) => users[tokens[k].user].active

(* No wrong password is lost: the counter is the number of them since the  *)
(* last reset, and MaxFailed of them, not fewer, lock the user.            *)
EveryFailureCounts ==
    \A u \in DOMAIN users :
        /\ users[u].failed = strikes[u]
        /\ strikes[u] >= MaxFailed <=> users[u].lockedUntil # 0

(* A password is changed only by the command's rotation, and no session    *)
(* opened with the old one outlives it.                                    *)
RotationEndsSessions ==
    [][\A u \in DOMAIN users : users'[u].password # users[u].password =>
        \A k \in DOMAIN tokens' : tokens'[k].user = u => tokens'[k].revoked]_vars

(* What a principal's request does, it does while the principal is active, *)
(* in an active tenant and still has the role of its access token: access  *)
(* tokens outlive deactivation and changes of role but are of no use then. *)
ActorsAreEntitled ==
    [][\A t \in Threads :
        ActsAsPrincipal(t) /\ txn'[t] # txn[t] =>
            LET actor == txn[t].actor
            IN  /\ users[actor.user].active
                /\ users[actor.user].role = actor.role
                /\ tenants[actor.tenant].active]_vars

====
