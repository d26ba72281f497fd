---- MODULE Store ----
(***************************************************************************)
(* The PostgreSQL database behind the service and the requests that run    *)
(* against it.  A table is a function from the primary keys in use to its  *)
(* rows.  A request is one database transaction: under READ COMMITTED      *)
(* every SELECT sees what is committed at that moment, so a handler is a   *)
(* sequence of read actions, which keep what they read in txn[t], and one  *)
(* commit action, which applies the ORM's flush.                           *)
(*                                                                         *)
(* A "thread" here is a place for one request under way, which keeps it    *)
(* from its first statement to its end.  It is not a thread of the server: *)
(* between authentication and handler a request holds none, and another    *)
(* may be served (RequestPool), so that even a server with one worker      *)
(* thread has several requests under way.                                  *)
(***************************************************************************)
EXTENDS Integers

CONSTANTS
    TenantIds,      \* primary keys of table tenants (uuid4 in the code)
    Slugs,          \* tenant slugs, as anybody may type them
    NormalSlugs,    \* those of them that strip().lower() leaves as they are
    UserIds,        \* primary keys of table users
    Emails,         \* e-mail addresses, as anybody may type them
    NormalEmails,   \* those of them that strip().lower() leaves as they are
    Passwords,      \* passwords; a hash stands for the password it verifies
    TokenIds,       \* primary keys of table refresh_tokens
    Threads,        \* as many requests as may be under way at once
    Endpoints,      \* the requests the clients send, a subset of AllEndpoints
    MaxFailed,      \* settings.max_failed_login_attempts
    LockoutTTL,     \* settings.login_lockout_minutes, in ticks
    AccessTTL,      \* settings.access_token_ttl_minutes, in ticks
    RefreshTTL,     \* settings.refresh_token_ttl_days, in ticks
    MaxTime         \* bound on the clock

Roles == {"USER", "TENANT_ADMIN", "SYS_ADMIN"}

AllEndpoints ==
    {"register", "login", "refresh", "logout", "create_user", "update_role",
     "deactivate", "create_tenant", "update_tenant", "bootstrap", "reset_password"}

ASSUME LimitsAssumption ==
    /\ MaxFailed \in Nat \ {0}
    /\ LockoutTTL \in Nat \ {0}
    /\ AccessTTL \in Nat
    /\ RefreshTTL \in Nat
    /\ MaxTime \in Nat \ {0}

ASSUME SpellingAssumption ==
    NormalSlugs \subseteq Slugs /\ NormalEmails \subseteq Emails

ASSUME EndpointsAssumption == Endpoints \subseteq AllEndpoints

VARIABLES
    now,        \* the clock every host and the database agree on; starts at 1
    tenants,    \* table tenants
    users,      \* table users
    tokens,     \* table refresh_tokens
    audit,      \* table audit_logs, an append-only set of entries
    jwts,       \* the access tokens handed out so far, kept by no table
    txn,        \* what each request under way has read and decided so far
    strikes     \* ghost: wrong passwords answered since the counter's reset

tables == <<tenants, users, tokens, audit>>
vars == <<now, tenants, users, tokens, audit, jwts, txn, strikes>>

(***************************************************************************)
(* Rows.  A nullable column is a set of at most one value, except          *)
(* lockedUntil, whose NULL is time 0.  "family" is a ghost column: the     *)
(* refresh token of the login (or sign-up) that a rotated token goes back  *)
(* to.  revoked is revoked_at IS NOT NULL.                                 *)
(***************************************************************************)
Times == 0 .. MaxTime + LockoutTTL + AccessTTL + RefreshTTL

TenantRow == [slug : Slugs, active : BOOLEAN]

UserRow ==
    [tenant : TenantIds, email : Emails, password : Passwords, role : Roles,
     active : BOOLEAN, failed : Nat, lockedUntil : Times]

TokenRow ==
    [user : UserIds, expiresAt : Times, revoked : BOOLEAN, family : TokenIds]

AccessToken == [user : UserIds, tenant : TenantIds, role : Roles, exp : Times]

Principal == [user : UserIds, tenant : TenantIds, role : Roles]

None == {}
Some(x) == {x}

(* Where no request is under way.                                          *)
Idle == [pc |-> "idle"]

EmptyTable == [id \in {} |-> {}]

Init ==
    /\ now = 1
    /\ tenants = EmptyTable
    /\ users = EmptyTable
    /\ tokens = EmptyTable
    /\ audit = {}
    /\ jwts = {}
    /\ txn = [t \in Threads |-> Idle]
    /\ strikes = [u \in UserIds |-> 0]

(***************************************************************************)
(* What the ORM does at flush.                                             *)
(***************************************************************************)

(* INSERT of a row under a new primary key.                                *)
Insert(table, id, row) ==
    [k \in DOMAIN table \cup {id} |-> IF k = id THEN row ELSE table[k]]

(* UPDATE writes a column only when the session's value differs from the   *)
(* one it loaded; every other column keeps what is committed meanwhile.    *)
Write(loaded, wanted, current) == IF wanted = loaded THEN current ELSE wanted

(* The unique constraints: the index on tenants.slug and                   *)
(* uq_users_tenant_email (EmailUnconstrained is EmailFree without it).     *)
SlugFree(slug) == \A n \in DOMAIN tenants : tenants[n].slug # slug
EmailUnconstrained(tenant, email) == TRUE
EmailFree(tenant, email) ==
    \A u \in DOMAIN users :
        ~(users[u].tenant = tenant /\ users[u].email = email)

(* SELECT of a tenant by slug, of a user by tenant and e-mail: at most one *)
(* row each, by the unique constraints.                                    *)
TenantsBySlug(slug) == {n \in DOMAIN tenants : tenants[n].slug = slug}
UsersByEmail(tenant, email) ==
    {u \in DOMAIN users : users[u].tenant = tenant /\ users[u].email = email}

(* SELECT of a user's refresh tokens that are not revoked.  The variants   *)
(* forget the user, or see only the tokens that sessions were opened with. *)
AnyonesTokens(u) == {k \in DOMAIN tokens : ~tokens[k].revoked}
LoginTokens(u) ==
    {k \in DOMAIN tokens :
        tokens[k].user = u /\ ~tokens[k].revoked /\ tokens[k].family = k}
UnrevokedTokens(u) ==
    {k \in DOMAIN tokens : tokens[k].user = u /\ ~tokens[k].revoked}

(* UPDATE refresh_tokens SET revoked_at for the rows loaded unrevoked.     *)
(* The variant stops at the first of them.                                 *)
RevokeFirst(table, ids) ==
    [k \in DOMAIN table |->
        IF k \in ids /\ k = CHOOSE i \in ids : TRUE
        THEN [table[k] EXCEPT !.revoked = TRUE] ELSE table[k]]
Revoke(table, ids) ==
    [k \in DOMAIN table |->
        IF k \in ids THEN [table[k] EXCEPT !.revoked = TRUE] ELSE table[k]]

(* record_audit_event.  The address and agent of the client are left out.  *)
Entry(action, tenant, actor, resource, detail) ==
    [action |-> action, tenant |-> tenant, actor |-> actor,
     resource |-> resource, detail |-> detail]

(* normalize_tenant_slug and normalize_email: what the validators of a     *)
(* request's body make of what a client has typed.                         *)
BodySlugs == NormalSlugs
BodyEmails == NormalEmails

(***************************************************************************)
(* Requests.                                                               *)
(***************************************************************************)
IsIdle(t) == txn[t].pc = "idle"

(* A handler read, and keeps r until its next statement.                   *)
Hold(t, r) ==
    /\ txn' = [txn EXCEPT ![t] = r]
    /\ UNCHANGED <<now, tables, jwts, strikes>>

(* A handler answers; another request may take its place.                  *)
Finish(t) == txn' = [txn EXCEPT ![t] = Idle]

(* The request ends with no effect: a refusal (4xx), an integrity error    *)
(* that no handler catches (500), a crash of the process or the loss of    *)
(* the connection.  Everything a request does is one transaction.          *)
Rollback(t) ==
    /\ ~IsIdle(t)
    /\ Hold(t, Idle)

Tick ==
    /\ now < MaxTime
    /\ now' = now + 1
    /\ UNCHANGED <<tables, jwts, txn, strikes>>

====
