---- MODULE AuthService ----
(***************************************************************************)
(* services/auth.py: sign-up, login with lockout, rotation of refresh      *)
(* tokens, logout.  None of these requests is authenticated.               *)
(***************************************************************************)
EXTENDS Store

(* _issue_tokens_for_user: the row of a new refresh token and the access   *)
(* token for a user as the session has loaded it.  NewLongJwt is NewJwt    *)
(* with minutes taken for seconds.                                         *)
NewToken(u, family) ==
    [user |-> u, expiresAt |-> now + RefreshTTL, revoked |-> FALSE,
     family |-> family]
NewLongJwt(u, tenant, role) ==
    [user |-> u, tenant |-> tenant, role |-> role, exp |-> now + 60 * AccessTTL]
NewJwt(u, tenant, role) ==
    [user |-> u, tenant |-> tenant, role |-> role, exp |-> now + AccessTTL]

(***************************************************************************)
(* POST /auth/register                                                     *)
(***************************************************************************)

(* The slug is looked up; a taken one is answered 409.                     *)
RegisterRead(t) ==
    /\ "register" \in Endpoints
    /\ IsIdle(t)
    /\ \E slug \in BodySlugs, email \in BodyEmails, password \in Passwords :
        /\ TenantsBySlug(slug) = {}
        /\ Hold(t, [pc |-> "register", slug |-> slug, email |-> email,
                    password |-> password])

(* The tenant, its first user, a session and two audit entries; the unique *)
(* index on the slug lets only one of two sign-ups through.                *)
RegisterCommit(t) ==
    /\ txn[t].pc = "register"
    /\ SlugFree(txn[t].slug)
    /\ \E n \in TenantIds \ DOMAIN tenants, u \in UserIds \ DOMAIN users,
          k \in TokenIds \ DOMAIN tokens :
        /\ tenants' = Insert(tenants, n, [slug |-> txn[t].slug, active |-> TRUE])
        /\ users' = Insert(users, u,
                [tenant |-> n, email |-> txn[t].email,
                 password |-> txn[t].password, role |-> "TENANT_ADMIN",
                 active |-> TRUE, failed |-> 0, lockedUntil |-> 0])
        /\ tokens' = Insert(tokens, k, NewToken(u, k))
        /\ jwts' = jwts \cup {NewJwt(u, n, "TENANT_ADMIN")}
        /\ audit' = audit \cup
                {Entry("TENANT_CREATED", Some(n), Some(u), n, <<"self_signup">>),
                 Entry("USER_CREATED", Some(n), Some(u), u,
                       <<"TENANT_ADMIN", "self_signup">>)}
    /\ Finish(t)
    /\ UNCHANGED <<now, strikes>>

(***************************************************************************)
(* POST /auth/login                                                        *)
(***************************************************************************)

(* _record_login_failure, the entry a refused login leaves.                *)
LoginFailure(tenant, actor, reason) ==
    Entry("LOGIN_FAILURE", tenant, actor, "login", <<reason>>)

LoginRefused(t, entry) ==
    Hold(t, [pc |-> "login_refused", entry |-> entry])

(* The tenant is looked up; it may be missing or inactive.                 *)
LoginReadTenant(t) ==
    /\ "login" \in Endpoints
    /\ IsIdle(t)
    /\ \E slug \in BodySlugs :
        \/ \E n \in TenantsBySlug(slug) :
            /\ tenants[n].active
            /\ Hold(t, [pc |-> "login_tenant", tenant |-> n])
        \/ LoginRefused(t, LoginFailure(TenantsBySlug(slug), None,
                                        "tenant_unavailable"))
           /\ \A n \in TenantsBySlug(slug) : ~tenants[n].active

(* _is_user_locked, evaluated on the row just read.  In the variants the   *)
(* last permitted failure does not lock, and an expired lock is not reset. *)
LockedPastLimit(row) == row.lockedUntil > now /\ row.failed > MaxFailed
NeverExpires(row) == FALSE
IsLocked(row) == row.lockedUntil > now
LockExpired(row) == row.lockedUntil # 0 /\ row.lockedUntil <= now

(* The user is looked up and its lock examined.  An expired lock resets    *)
(* the counter in the session, so a user that passes has no lock there.    *)
LoginReadUser(t) ==
    /\ txn[t].pc = "login_tenant"
    /\ \E email \in BodyEmails :
        LET n == txn[t].tenant
            found == UsersByEmail(n, email)
        IN  \/ /\ \A u \in found : ~users[u].active
               /\ LoginRefused(t, LoginFailure(Some(n), found, "invalid_credentials"))
            \/ \E u \in found :
                /\ users[u].active
                /\ IsLocked(users[u])
                /\ LoginRefused(t, LoginFailure(Some(n), Some(u), "account_locked"))
            \/ \E u \in found :
                /\ users[u].active
                /\ ~IsLocked(users[u])
                /\ Hold(t, [pc |-> "login_user", user |-> u, row |-> users[u],
                            expired |-> LockExpired(users[u])])

(* The audit entry of a refused login is committed.                        *)
LoginRefusedCommit(t) ==
    /\ txn[t].pc = "login_refused"
    /\ audit' = audit \cup {txn[t].entry}
    /\ Finish(t)
    /\ UNCHANGED <<now, tenants, users, tokens, jwts, strikes>>

(* UPDATE users of the lock columns, net of what the login loaded.         *)
WriteLock(u, row, failed, lock) ==
    [users EXCEPT ![u].failed = Write(row.failed, failed, users[u].failed),
                  ![u].lockedUntil =
                      Write(row.lockedUntil, lock, users[u].lockedUntil)]

(* The password is wrong: _register_failed_login_attempt on the counter    *)
(* read, which an expired lock has reset to 0.                             *)
LoginWrongCommit(t) ==
    /\ txn[t].pc = "login_user"
    /\ \E password \in Passwords : password # txn[t].row.password
    /\ LET u == txn[t].user
           row == txn[t].row
           failed == IF txn[t].expired THEN 1 ELSE row.failed + 1
           lock == IF failed >= MaxFailed THEN now + LockoutTTL ELSE 0
       IN  /\ users' = WriteLock(u, row, failed, lock)
           /\ audit' = audit \cup
                {LoginFailure(Some(row.tenant), Some(u), "invalid_credentials")}
           /\ strikes' = [strikes EXCEPT ![u] =
                IF txn[t].expired THEN 1
                ELSE IF @ < MaxFailed THEN @ + 1 ELSE @]
    /\ Finish(t)
    /\ UNCHANGED <<now, tenants, tokens, jwts>>

(* The password is right: the counter is reset and a session issued for    *)
(* the user as loaded.                                                     *)
LoginOkCommit(t) ==
    /\ txn[t].pc = "login_user"
    /\ LET u == txn[t].user
           row == txn[t].row
       IN  /\ users' = WriteLock(u, row, 0, 0)
           /\ \E k \in TokenIds \ DOMAIN tokens :
                tokens' = Insert(tokens, k, NewToken(u, k))
           /\ jwts' = jwts \cup {NewJwt(u, row.tenant, row.role)}
           /\ audit' = audit \cup
                {Entry("LOGIN_SUCCESS", Some(row.tenant), Some(u), u, << >>)}
           /\ strikes' = [strikes EXCEPT ![u] = 0]
    /\ Finish(t)
    /\ UNCHANGED <<now, tenants>>

(***************************************************************************)
(* POST /auth/refresh                                                      *)
(***************************************************************************)

(* _get_valid_refresh_token: one SELECT reads the token, its user and the  *)
(* user's tenant.  The variants forget the owner, or that the token has    *)
(* been revoked.                                                           *)
ValidIfOwnerIgnored(k) == ~tokens[k].revoked /\ tokens[k].expiresAt > now
ValidIfReplayed(k) == tokens[k].expiresAt > now /\ users[tokens[k].user].active
ValidRefreshToken(k) ==
    /\ ~tokens[k].revoked
    /\ tokens[k].expiresAt > now
    /\ users[tokens[k].user].active
    /\ tenants[users[tokens[k].user].tenant].active

RefreshRead(t) ==
    /\ "refresh" \in Endpoints
    /\ IsIdle(t)
    /\ \E k \in DOMAIN tokens :
        LET u == tokens[k].user
        IN  /\ ValidRefreshToken(k)
            /\ Hold(t, [pc |-> "refresh", token |-> k, user |-> u,
                        tenant |-> users[u].tenant, role |-> users[u].role])

(* The presented token is revoked and another one issued in its place.     *)
RefreshCommit(t) ==
    /\ txn[t].pc = "refresh"
    /\ LET k == txn[t].token
           u == txn[t].user
       IN  /\ \E new \in TokenIds \ DOMAIN tokens :
                tokens' = Insert(Revoke(tokens, {k}), new,
                                 NewToken(u, tokens[k].family))
           /\ jwts' = jwts \cup {NewJwt(u, txn[t].tenant, txn[t].role)}
           /\ audit' = audit \cup
                {Entry("TOKEN_REVOKED", Some(txn[t].tenant), Some(u), k,
                       <<"rotation">>)}
    /\ Finish(t)
    /\ UNCHANGED <<now, tenants, users, strikes>>

(***************************************************************************)
(* POST /auth/logout                                                       *)
(***************************************************************************)

(* Neither the expiry of the token nor the state of its user matters; an   *)
(* unknown or already revoked token is answered 204 as well.               *)
LogoutRead(t) ==
    /\ "logout" \in Endpoints
    /\ IsIdle(t)
    /\ \E k \in DOMAIN tokens :
        /\ ~tokens[k].revoked
        /\ Hold(t, [pc |-> "logout", token |-> k, user |-> tokens[k].user,
                    tenant |-> users[tokens[k].user].tenant])

LogoutCommit(t) ==
    /\ txn[t].pc = "logout"
    /\ tokens' = Revoke(tokens, {txn[t].token})
    /\ audit' = audit \cup
            {Entry("TOKEN_REVOKED", Some(txn[t].tenant), Some(txn[t].user),
                   txn[t].token, <<"logout">>)}
    /\ Finish(t)
    /\ UNCHANGED <<now, tenants, users, jwts, strikes>>

(***************************************************************************)
(* The steps of a request on /auth.                                        *)
(***************************************************************************)
AuthStep(t) ==
    \/ RegisterRead(t) \/ RegisterCommit(t)
    \/ LoginReadTenant(t) \/ LoginReadUser(t)
    \/ LoginRefusedCommit(t) \/ LoginWrongCommit(t) \/ LoginOkCommit(t)
    \/ RefreshRead(t) \/ RefreshCommit(t)
    \/ LogoutRead(t) \/ LogoutCommit(t)

====
