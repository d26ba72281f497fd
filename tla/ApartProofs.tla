---- MODULE ApartProofs ----
(***************************************************************************)
(* What the service promises as long as certain requests do not overlap:   *)
(* for each promise, the overlaps that IdentityProperties names for it are *)
(* the only ones that can break it.  And two promises that rest on the     *)
(* same facts about what requests read, whatever overlaps.  For every      *)
(* number of tenants, users, tokens and threads.                           *)
(***************************************************************************)
EXTENDS AccessProofs

(***************************************************************************)
(* What a request finds when it reads r, after what it has read as x.      *)
(***************************************************************************)
Entitled(actor) ==
    /\ users[actor.user].active
    /\ users[actor.user].role = actor.role
    /\ tenants[actor.tenant].active

Flags == {None, Some(TRUE), Some(FALSE)}

Finds(x, r) ==
    /\ r.pc = "login_refused" => r.entry.action = "LOGIN_FAILURE"
    /\ r.pc = "login_user" =>
        /\ r.row = users[r.user] /\ r.row.active
        /\ r.expired <=> r.row.lockedUntil # 0
    /\ r.pc \in {"refresh", "logout"} => ~tokens[r.token].revoked
    /\ r.pc = "refresh" => users[r.user].active
    /\ r.pc = "authenticated" => Entitled(r.actor)
    /\ r.pc \in PrincipalPcs /\ r.pc # "authenticated" =>
        x.pc \in PrincipalPcs /\ r.actor = x.actor
    /\ r.pc \in {"update_role", "deactivate_user"} =>
        MayHandleRole(r.actor, users[r.user].role)
    /\ r.pc = "update_role" => MayHandleRole(r.actor, r.new)
    /\ r.pc = "deactivate" =>
        /\ x.pc = "deactivate_user" /\ r.user = x.user
        /\ r.tokens = UnrevokedTokens(r.user)
    /\ r.pc = "update_tenant" => r.active \in Flags
    /\ r.pc = "bootstrap_rotate" => r.rotate /\ r.row = users[r.user]
    /\ r.pc = "bootstrap_update" =>
        \/ ~r.rotate /\ r.tokens = {} /\ r.row = users[r.user]
        \/ /\ x.pc = "bootstrap_rotate" /\ r.user = x.user /\ r.row = x.row
           /\ r.rotate = x.rotate /\ r.tokens = UnrevokedTokens(r.user)

Reads(t) == \E r : Hold(t, r) /\ Finds(txn[t], r)

(* The statements that leave nothing in memory that these facts are about. *)
FreePcs ==
    {"idle", "register", "login_tenant", "bootstrap_tenant", "bootstrap_create"}

LEMMA FreeReads ==
    ASSUME NEW t, NEW r, r.pc \in FreePcs, Hold(t, r) PROVE Reads(t)
  BY DEF FreePcs, Reads, Finds, PrincipalPcs

LEMMA LoginReads ==
    ASSUME TypeOK, NEW t \in Threads, LoginReadTenant(t) \/ LoginReadUser(t)
    PROVE  Reads(t)
  <1>1. ASSUME NEW tenant, NEW actor, NEW reason,
               LoginRefused(t, LoginFailure(tenant, actor, reason))
        PROVE  Reads(t)
    <2> DEFINE r == [pc |-> "login_refused",
                     entry |-> LoginFailure(tenant, actor, reason)]
    <2>1. Finds(txn[t], r) BY DEF Finds, LoginFailure, Entry, PrincipalPcs
    <2>2. Hold(t, r) BY <1>1 DEF LoginRefused
    <2> QED BY <2>1, <2>2 DEF Reads
  <1>2. CASE LoginReadTenant(t)
    <2>1. CASE \E n \in DOMAIN tenants : Hold(t, [pc |-> "login_tenant", tenant |-> n])
      BY <2>1, FreeReads DEF FreePcs
    <2> QED BY <1>1, <1>2, <2>1 DEF LoginReadTenant, TenantsBySlug
  <1>3. CASE LoginReadUser(t)
    <2> DEFINE r(u) == [pc |-> "login_user", user |-> u, row |-> users[u],
                        expired |-> LockExpired(users[u])]
    <2>1. ASSUME NEW u \in DOMAIN users, users[u].active, ~IsLocked(users[u]),
                 Hold(t, r(u))
          PROVE  Reads(t)
      <3>1. users[u].lockedUntil \in Int /\ now \in Int BY RowFacts DEF UserRow, Times
      <3>2. LockExpired(users[u]) <=> users[u].lockedUntil # 0
        BY <2>1, <3>1 DEF LockExpired, IsLocked
      <3>3. Finds(txn[t], r(u)) BY <2>1, <3>2 DEF Finds, PrincipalPcs
      <3> HIDE DEF r
      <3> QED BY <2>1, <3>3 DEF Reads
    <2> QED BY <1>1, <1>3, <2>1 DEF LoginReadUser, UsersByEmail
  <1> QED BY <1>2, <1>3

LEMMA TokenReads ==
    ASSUME NEW t \in Threads, RefreshRead(t) \/ LogoutRead(t)
    PROVE  Reads(t)
  <1>1. CASE RefreshRead(t)
    <2> DEFINE r(k) == [pc |-> "refresh", token |-> k, user |-> tokens[k].user,
                        tenant |-> users[tokens[k].user].tenant,
                        role |-> users[tokens[k].user].role]
    <2>1. PICK k \in DOMAIN tokens : ValidRefreshToken(k) /\ Hold(t, r(k))
      BY <1>1 DEF RefreshRead
    <2>2. Finds(txn[t], r(k)) BY <2>1 DEF Finds, PrincipalPcs, ValidRefreshToken
    <2> HIDE DEF r
    <2> QED BY <2>1, <2>2 DEF Reads
  <1>2. CASE LogoutRead(t)
    <2> DEFINE r(k) == [pc |-> "logout", token |-> k, user |-> tokens[k].user,
                        tenant |-> users[tokens[k].user].tenant]
    <2>1. PICK k \in DOMAIN tokens : ~tokens[k].revoked /\ Hold(t, r(k))
      BY <1>2 DEF LogoutRead
    <2>2. Finds(txn[t], r(k)) BY <2>1 DEF Finds, PrincipalPcs
    <2> HIDE DEF r
    <2> QED BY <2>1, <2>2 DEF Reads
  <1> QED BY <1>1, <1>2

LEMMA AuthenticateReads ==
    ASSUME NEW t \in Threads, Authenticate(t)
    PROVE  Reads(t)
  <1> DEFINE r(j) == [pc |-> "authenticated",
                      actor |-> [user |-> j.user, tenant |-> j.tenant,
                                 role |-> j.role]]
  <1>1. PICK j \in jwts : ClaimsHold(j) /\ Hold(t, r(j)) BY DEF Authenticate
  <1>2. Finds(txn[t], r(j)) BY <1>1 DEF ClaimsHold, Finds, Entitled, PrincipalPcs
  <1> HIDE DEF r
  <1> QED BY <1>1, <1>2 DEF Reads

LEMMA UserManagementReads ==
    ASSUME NEW t \in Threads,
           \/ CreateUserRead(t) \/ UpdateRoleRead(t)
           \/ DeactivateReadUser(t) \/ DeactivateReadTokens(t)
    PROVE  Reads(t)
  <1> DEFINE x == txn[t]
  <1>1. x.pc \in PrincipalPcs
    BY DEF CreateUserRead, UpdateRoleRead, DeactivateReadUser, DeactivateReadTokens,
           PrincipalPcs
  <1>2. CASE CreateUserRead(t)
    <2> DEFINE r(n, email, password, role, active) ==
                [pc |-> "create_user", actor |-> x.actor, tenant |-> n,
                 email |-> email, password |-> password, role |-> role,
                 active |-> active]
    <2>1. PICK n \in DOMAIN tenants, email \in Emails, password \in Passwords,
               role \in Roles, active \in BOOLEAN :
            Hold(t, r(n, email, password, role, active))
      BY <1>2, SpellingAssumption DEF CreateUserRead, BodyEmails
    <2>2. Finds(x, r(n, email, password, role, active)) BY <1>1 DEF Finds
    <2> HIDE DEF r
    <2> QED BY <2>1, <2>2 DEF Reads
  <1>3. CASE UpdateRoleRead(t)
    <2> DEFINE r(n, u, role) ==
                [pc |-> "update_role", actor |-> x.actor, user |-> u,
                 tenant |-> n, old |-> users[u].role, new |-> role]
    <2>1. PICK n \in DOMAIN tenants, role \in Roles, u \in DOMAIN users :
            /\ MayHandleRole(x.actor, users[u].role) /\ MayHandleRole(x.actor, role)
            /\ Hold(t, r(n, u, role))
      BY <1>3 DEF UpdateRoleRead, VisibleUsers
    <2>2. Finds(x, r(n, u, role)) BY <1>1, <2>1 DEF Finds
    <2> HIDE DEF r
    <2> QED BY <2>1, <2>2 DEF Reads
  <1>4. CASE DeactivateReadUser(t)
    <2> DEFINE r(n, u) == [pc |-> "deactivate_user", actor |-> x.actor,
                           user |-> u, tenant |-> n]
    <2>1. PICK n \in DOMAIN tenants, u \in DOMAIN users :
            MayHandleRole(x.actor, users[u].role) /\ Hold(t, r(n, u))
      BY <1>4 DEF DeactivateReadUser, VisibleUsers
    <2>2. Finds(x, r(n, u)) BY <1>1, <2>1 DEF Finds
    <2> HIDE DEF r
    <2> QED BY <2>1, <2>2 DEF Reads
  <1>5. CASE DeactivateReadTokens(t)
    <2> DEFINE r == [pc |-> "deactivate", actor |-> x.actor, user |-> x.user,
                     tenant |-> x.tenant, tokens |-> UnrevokedTokens(x.user)]
    <2>1. x.pc = "deactivate_user" /\ Hold(t, r)
      BY <1>5 DEF DeactivateReadTokens
    <2>2. Finds(x, r) BY <1>1, <2>1 DEF Finds
    <2> HIDE DEF r
    <2> QED BY <2>1, <2>2 DEF Reads
  <1> QED BY <1>2, <1>3, <1>4, <1>5

LEMMA TenantReads ==
    ASSUME NEW t \in Threads, CreateTenantRead(t) \/ UpdateTenantRead(t)
    PROVE  Reads(t)
  <1> DEFINE x == txn[t]
  <1>1. x.pc \in PrincipalPcs
    BY DEF CreateTenantRead, UpdateTenantRead, PrincipalPcs
  <1>2. CASE CreateTenantRead(t)
    <2> DEFINE r(slug, active) == [pc |-> "create_tenant", actor |-> x.actor,
                                   slug |-> slug, active |-> active]
    <2>1. PICK slug \in Slugs, active \in BOOLEAN : Hold(t, r(slug, active))
      BY <1>2, SpellingAssumption DEF CreateTenantRead, BodySlugs
    <2>2. Finds(x, r(slug, active)) BY <1>1 DEF Finds
    <2> HIDE DEF r
    <2> QED BY <2>1, <2>2 DEF Reads
  <1>3. CASE UpdateTenantRead(t)
    <2> DEFINE r(n, named, active) ==
                [pc |-> "update_tenant", actor |-> x.actor, tenant |-> n,
                 loaded |-> tenants[n].active, named |-> named, active |-> active]
    <2>1. PICK n \in DOMAIN tenants, named \in BOOLEAN, active \in Flags :
            Hold(t, r(n, named, active))
      BY <1>3 DEF UpdateTenantRead, Flags
    <2>2. Finds(x, r(n, named, active)) BY <1>1, <2>1 DEF Finds
    <2> HIDE DEF r
    <2> QED BY <2>1, <2>2 DEF Reads
  <1> QED BY <1>2, <1>3

LEMMA BootstrapReads ==
    ASSUME NEW t \in Threads,
           \/ BootstrapReadTenant(t) \/ BootstrapReadUser(t)
           \/ BootstrapReadTokens(t)
    PROVE  Reads(t)
  <1> DEFINE x == txn[t]
  <1>1. CASE BootstrapReadTenant(t)
    BY <1>1, FreeReads DEF BootstrapReadTenant, FreePcs
  <1>2. CASE BootstrapReadUser(t)
    <2> DEFINE r(u) == [pc |-> IF x.rotate THEN "bootstrap_rotate"
                               ELSE "bootstrap_update",
                        user |-> u, row |-> users[u],
                        rotate |-> x.rotate, password |-> x.password,
                        tokens |-> {}, reactivate |-> x.reactivate]
    <2>1. CASE Hold(t, [pc |-> "bootstrap_create", slug |-> x.slug,
                        email |-> x.email, password |-> x.password,
                        tenant |-> x.tenant, reactivate |-> x.reactivate])
      BY <2>1, FreeReads DEF FreePcs
    <2>2. ASSUME NEW u, Hold(t, r(u)) PROVE Reads(t)
      <3>1. Finds(x, r(u))
        <4>1. CASE x.rotate BY <4>1 DEF Finds, PrincipalPcs
        <4>2. CASE ~x.rotate BY <4>2 DEF Finds, PrincipalPcs
        <4> QED BY <4>1, <4>2
      <3> HIDE DEF r
      <3> QED BY <2>2, <3>1 DEF Reads
    <2> QED BY <1>2, <2>1, <2>2 DEF BootstrapReadUser
  <1>3. CASE BootstrapReadTokens(t)
    <2> DEFINE r == [pc |-> "bootstrap_update", user |-> x.user, row |-> x.row,
                     rotate |-> x.rotate, password |-> x.password,
                     tokens |-> UnrevokedTokens(x.user), reactivate |-> x.reactivate]
    <2>1. x.pc = "bootstrap_rotate" /\ Hold(t, r)
      BY <1>3 DEF BootstrapReadTokens
    <2>2. Finds(x, r) BY <2>1 DEF Finds, PrincipalPcs
    <2> HIDE DEF r
    <2> QED BY <2>1, <2>2 DEF Reads
  <1> QED BY <1>1, <1>2, <1>3

(* A request's step commits and ends it, or reads what is in the tables.   *)
LEMMA StepReads ==
    ASSUME TypeOK, NEW t \in Threads, Step(t)
    PROVE  (Commit(t) /\ Finish(t)) \/ Reads(t)
  <1>1. Commit(t) => Finish(t)
    BY DEF Commit, AuthCommit, AdminCommit, BootstrapCommit, RegisterCommit,
        LoginRefusedCommit, LoginWrongCommit, LoginOkCommit, RefreshCommit,
        LogoutCommit, CreateUserCommit, UpdateRoleCommit, DeactivateCommit,
        CreateTenantCommit, UpdateTenantCommit, BootstrapCreateCommit,
        BootstrapUpdateCommit
  <1>2. CASE AuthStep(t)
    <2>1. CASE RegisterRead(t) BY <2>1, FreeReads DEF RegisterRead, FreePcs
    <2> QED
      BY <1>1, <1>2, <2>1, LoginReads, TokenReads DEF AuthStep, Commit, AuthCommit
  <1>3. CASE Authenticate(t) BY <1>3, AuthenticateReads
  <1>4. CASE UserManagementStep(t)
    BY <1>1, <1>4, UserManagementReads DEF UserManagementStep, Commit, AdminCommit
  <1>5. CASE TenantStep(t)
    BY <1>1, <1>5, TenantReads DEF TenantStep, Commit, AdminCommit
  <1>6. CASE BootstrapStep(t)
    BY <1>1, <1>6, BootstrapReads DEF BootstrapStep, Commit, BootstrapCommit
  <1>7. CASE Rollback(t) BY <1>7, FreeReads DEF Rollback, FreePcs, Idle
  <1> QED BY <1>2, <1>3, <1>4, <1>5, <1>6, <1>7 DEF Step

(* The memories after a step: that of t is r, the others are as they were. *)
LEMMA MemoryAfter ==
    ASSUME TypeOK, NEW t \in Threads, Step(t)
    PROVE  /\ \A s \in Threads : s # t => txn'[s] = txn[s]
           /\ \/ /\ Commit(t) /\ txn'[t] = Idle
              \/ /\ Finds(txn[t], txn'[t])
                 /\ UNCHANGED <<now, tenants, users, tokens, audit, jwts, strikes>>
  <1>1. CASE Commit(t) /\ Finish(t)
    BY <1>1 DEF Finish, TypeOK
  <1>2. CASE Reads(t)
    <2>1. PICK r : Hold(t, r) /\ Finds(txn[t], r) BY <1>2 DEF Reads
    <2>2. txn'[t] = r /\ \A s \in Threads : s # t => txn'[s] = txn[s]
      BY <2>1 DEF Hold, TypeOK
    <2> QED BY <2>1, <2>2, HoldKeeps
  <1> QED BY <1>1, <1>2, StepReads

LEMMA CommitEnds ==
    ASSUME TypeOK, NEW t \in Threads, Step(t), Commit(t)
    PROVE  /\ txn'[t] = Idle
           /\ \A s \in Threads : s # t => txn'[s] = txn[s]
  <1>1. Finish(t)
    BY DEF Commit, AuthCommit, AdminCommit, BootstrapCommit, RegisterCommit,
        LoginRefusedCommit, LoginWrongCommit, LoginOkCommit, RefreshCommit,
        LogoutCommit, CreateUserCommit, UpdateRoleCommit, DeactivateCommit,
        CreateTenantCommit, UpdateTenantCommit, BootstrapCreateCommit,
        BootstrapUpdateCommit
  <1> QED BY <1>1, MemoryAfter DEF Finish, TypeOK

(* Everything else leaves the tables and the memories alone.               *)
QuietTables == UNCHANGED <<tenants, users, tokens, audit, strikes, txn>>

LEMMA NextSteps ==
    ASSUME [Next]_vars PROVE QuietTables \/ \E t \in Threads : Step(t)
  BY DEF Next, Tick, vars, tables, QuietTables

(***************************************************************************)
(* What a request remembers for good.                                      *)
(***************************************************************************)
Shape(x) ==
    /\ x.pc = "login_refused" => x.entry.action = "LOGIN_FAILURE"
    /\ x.pc = "update_role" => MayHandleRole(x.actor, x.new)
    /\ x.pc = "update_tenant" => x.active \in Flags
    /\ x.pc = "bootstrap_rotate" => x.rotate
    /\ x.pc = "bootstrap_update" /\ ~x.rotate => x.tokens = {}
Shapes == \A t \in Threads : Shape(txn[t])

LEMMA IdleShape == Shape(Idle)
  BY DEF Shape, Idle

LEMMA ShapesInvariant == Spec => []Shapes
  <1>1. Init => Shapes BY IdleShape DEF Init, Shapes
  <1>2. TypeOK /\ Shapes /\ [Next]_vars => Shapes'
    <2>1. ASSUME TypeOK, Shapes, NEW t \in Threads, Step(t), NEW s \in Threads
          PROVE  Shape(txn[s])'
      <3>1. Shape(txn[s]) /\ Shape(txn[t]) BY <2>1 DEF Shapes
      <3>2. CASE s # t \/ txn'[s] = Idle
        <4>1. txn'[s] = txn[s] \/ txn'[s] = Idle BY <2>1, <3>2, MemoryAfter
        <4> QED BY <3>1, <4>1, IdleShape DEF Shape, MayHandleRole
      <3>3. CASE s = t /\ Finds(txn[t], txn'[t])
        BY <3>1, <3>3 DEF Finds, Shape, MayHandleRole
      <3> QED BY <2>1, <3>2, <3>3, MemoryAfter
    <2>2. ASSUME Shapes, QuietTables PROVE Shapes'
      BY <2>2 DEF Shapes, QuietTables, Shape, MayHandleRole
    <2> QED BY <2>1, <2>2, NextSteps DEF Shapes
  <1> QED BY <1>1, <1>2, Typing, PTL DEF Spec

(***************************************************************************)
(* The ways in which a step changes tokens.                                *)
(***************************************************************************)
Opened(k) ==
    /\ k \in TokenIds \ DOMAIN tokens
    /\ DOMAIN tokens' = DOMAIN tokens \cup {k}
    /\ \A l \in DOMAIN tokens : tokens'[l] = tokens[l]
    /\ tokens'[k].family = k /\ ~tokens'[k].revoked
Rotated(k, new) ==
    /\ k \in DOMAIN tokens
    /\ new \in TokenIds \ DOMAIN tokens
    /\ DOMAIN tokens' = DOMAIN tokens \cup {new}
    /\ \A l \in DOMAIN tokens :
        /\ tokens'[l].family = tokens[l].family /\ tokens'[l].user = tokens[l].user
        /\ tokens'[l].revoked <=> tokens[l].revoked \/ l = k
    /\ tokens'[new].family = tokens[k].family
    /\ tokens'[new].user = tokens[k].user
    /\ ~tokens'[new].revoked
Closed(ids) ==
    /\ DOMAIN tokens' = DOMAIN tokens
    /\ \A l \in DOMAIN tokens :
        /\ tokens'[l].family = tokens[l].family /\ tokens'[l].user = tokens[l].user
        /\ tokens'[l].revoked <=> tokens[l].revoked \/ l \in ids

(* Who opens, rotates and closes.                                          *)
SignsUp(t, k) ==
    /\ RegisterCommit(t) /\ Opened(k)
    /\ tokens'[k].user \notin DOMAIN users
    /\ tokens'[k].user \in DOMAIN users' /\ users'[tokens'[k].user].active
LogsIn(t, k) ==
    LoginOkCommit(t) /\ Opened(k) /\ tokens'[k].user = txn[t].user
Refreshes(t, new) == RefreshCommit(t) /\ Rotated(txn[t].token, new)

LEMMA RevokedCloses ==
    ASSUME TypeOK, NEW ids, tokens' = Revoke(tokens, ids)
    PROVE  Closed(ids)
  BY RowFacts DEF Revoke, Closed, TokenRow

LEMMA SameCloses == ASSUME tokens' = tokens PROVE Closed({})
  BY DEF Closed

LEMMA RegisterOpens ==
    ASSUME TypeOK, NEW t \in Threads, RegisterCommit(t)
    PROVE  \E k : SignsUp(t, k)
  <1> DEFINE row(n) == [tenant |-> n, email |-> txn[t].email,
                        password |-> txn[t].password, role |-> "TENANT_ADMIN",
                        active |-> TRUE, failed |-> 0, lockedUntil |-> 0]
  <1>1. PICK n \in TenantIds, u \in UserIds \ DOMAIN users,
             k \in TokenIds \ DOMAIN tokens :
            /\ users' = Insert(users, u, row(n))
            /\ tokens' = Insert(tokens, k, NewToken(u, k))
    BY DEF RegisterCommit
  <1>2. /\ DOMAIN tokens' = DOMAIN tokens \cup {k} /\ tokens'[k] = NewToken(u, k)
        /\ \A l \in DOMAIN tokens : tokens'[l] = tokens[l]
        /\ DOMAIN users' = DOMAIN users \cup {u} /\ users'[u] = row(n)
    BY <1>1 DEF Insert
  <1>3. /\ tokens'[k].family = k /\ tokens'[k].user = u /\ ~tokens'[k].revoked
        /\ users'[u].active
    BY <1>2 DEF NewToken
  <1> HIDE DEF row
  <1>4. SignsUp(t, k) BY <1>2, <1>3 DEF SignsUp, Opened
  <1> QED BY <1>4

LEMMA LoginOpens ==
    ASSUME NEW t \in Threads, LoginOkCommit(t)
    PROVE  \E k : LogsIn(t, k)
  <1> DEFINE u == txn[t].user
  <1>1. PICK k \in TokenIds \ DOMAIN tokens :
            tokens' = Insert(tokens, k, NewToken(u, k))
    BY DEF LoginOkCommit
  <1>2. /\ DOMAIN tokens' = DOMAIN tokens \cup {k} /\ tokens'[k] = NewToken(u, k)
        /\ \A l \in DOMAIN tokens : tokens'[l] = tokens[l]
    BY <1>1 DEF Insert
  <1>3. tokens'[k].family = k /\ tokens'[k].user = u /\ ~tokens'[k].revoked
    BY <1>2 DEF NewToken
  <1>4. LogsIn(t, k) BY <1>2, <1>3 DEF LogsIn, Opened
  <1> QED BY <1>4

LEMMA RefreshRotates ==
    ASSUME TypeOK, NEW t \in Threads, RefreshCommit(t)
    PROVE  \E new : Refreshes(t, new)
  <1> DEFINE k == txn[t].token
             u == txn[t].user
             revoked == Revoke(tokens, {k})
  <1>1. k \in DOMAIN tokens /\ u = tokens[k].user
    BY DEF RefreshCommit, TypeOK, TxnOK
  <1>2. PICK new \in TokenIds \ DOMAIN tokens :
            tokens' = Insert(revoked, new, NewToken(u, tokens[k].family))
    BY DEF RefreshCommit
  <1>3. /\ DOMAIN revoked = DOMAIN tokens
        /\ \A l \in DOMAIN tokens :
            /\ revoked[l].user = tokens[l].user
            /\ revoked[l].family = tokens[l].family
            /\ revoked[l].revoked <=> tokens[l].revoked \/ l = k
    BY RowFacts DEF Revoke, TokenRow
  <1> HIDE DEF revoked
  <1>4. /\ DOMAIN tokens' = DOMAIN tokens \cup {new}
        /\ tokens'[new] = NewToken(u, tokens[k].family)
        /\ \A l \in DOMAIN tokens : tokens'[l] = revoked[l]
    BY <1>2, <1>3 DEF Insert
  <1>5. /\ tokens'[new].family = tokens[k].family /\ tokens'[new].user = u
        /\ ~tokens'[new].revoked
    BY <1>4 DEF NewToken
  <1>6. Refreshes(t, new) BY <1>1, <1>3, <1>4, <1>5 DEF Refreshes, Rotated
  <1> QED BY <1>6

LEMMA TokensMove ==
    ASSUME TypeOK, NEW t \in Threads, Step(t)
    PROVE  \/ \E k : SignsUp(t, k) \/ LogsIn(t, k)
           \/ \E new : Refreshes(t, new)
           \/ \E ids : Closed(ids)
  <1>1. CASE tokens' = tokens BY <1>1, SameCloses
  <1>2. CASE AuthCommit(t)
    BY <1>1, <1>2, RegisterOpens, LoginOpens, RefreshRotates, RevokedCloses
    DEF AuthCommit, LoginRefusedCommit, LoginWrongCommit, LogoutCommit
  <1>3. CASE AdminCommit(t)
    BY <1>1, <1>3, RevokedCloses
    DEF AdminCommit, CreateUserCommit, UpdateRoleCommit, DeactivateCommit,
        CreateTenantCommit, UpdateTenantCommit
  <1>4. CASE BootstrapCommit(t)
    BY <1>1, <1>4, RevokedCloses
    DEF BootstrapCommit, BootstrapCreateCommit, BootstrapUpdateCommit
  <1>5. CASE \E r : Hold(t, r) BY <1>1, <1>5, HoldKeeps
  <1> QED BY <1>2, <1>3, <1>4, <1>5, StepKinds DEF Commit

(* A family is the token that opened it, and one user's.                   *)
FamiliesOwned ==
    \A k \in DOMAIN tokens :
        LET f == tokens[k].family
        IN  f \in DOMAIN tokens /\ tokens[f].family = f /\ tokens[f].user = tokens[k].user

LEMMA FamiliesInvariant == Spec => []FamiliesOwned
  <1>1. Init => FamiliesOwned BY DEF Init, EmptyTable, FamiliesOwned
  <1>2. TypeOK /\ FamiliesOwned /\ [Next]_vars => FamiliesOwned'
    <2>1. ASSUME NEW k, Opened(k), FamiliesOwned PROVE FamiliesOwned'
      BY <2>1 DEF Opened, FamiliesOwned
    <2>2. ASSUME NEW k, NEW new, Rotated(k, new), FamiliesOwned PROVE FamiliesOwned'
      BY <2>2 DEF Rotated, FamiliesOwned
    <2>3. ASSUME NEW ids, Closed(ids), FamiliesOwned PROVE FamiliesOwned'
      BY <2>3 DEF Closed, FamiliesOwned
    <2>4. FamiliesOwned /\ QuietTables => FamiliesOwned'
      BY DEF FamiliesOwned, QuietTables
    <2> QED
      BY <2>1, <2>2, <2>3, <2>4, NextSteps, TokensMove
      DEF SignsUp, LogsIn, Refreshes
  <1> QED BY <1>1, <1>2, Typing, PTL DEF Spec

(***************************************************************************)
(* One good token in a session, as long as no two refreshes of one token   *)
(* overlap: then a pending refresh has the only good token of its session, *)
(* if there is any, and no other refresh is pending there.                 *)
(***************************************************************************)
OneUnrevoked ==
    \A k, l \in DOMAIN tokens :
        tokens[k].family = tokens[l].family
            /\ ~tokens[k].revoked /\ ~tokens[l].revoked => k = l
Alone(k) ==
    \A l \in DOMAIN tokens :
        tokens[l].family = tokens[k].family /\ ~tokens[l].revoked => l = k
SameFamily(s, t) == tokens[txn[s].token].family = tokens[txn[t].token].family

RefreshInv ==
    /\ OneUnrevoked
    /\ \A t \in Threads : txn[t].pc = "refresh" => Alone(txn[t].token)
    /\ \A s, t \in Threads :
        txn[s].pc = "refresh" /\ txn[t].pc = "refresh" /\ SameFamily(s, t)
            => txn[s].token = txn[t].token

LEMMA RefreshInvReads ==
    ASSUME TypeOK, RefreshInv, NEW t \in Threads, Step(t), ~Commit(t)
    PROVE  RefreshInv'
  <1>1. /\ Finds(txn[t], txn'[t]) /\ tokens' = tokens
        /\ \A s \in Threads : s # t => txn'[s] = txn[s]
    BY MemoryAfter
  <1>2. TypeOK' BY TypesStep DEF Next
  <1>3. txn'[t].pc = "refresh" =>
            txn'[t].token \in DOMAIN tokens /\ ~tokens[txn'[t].token].revoked
    BY <1>1, <1>2 DEF Finds, TypeOK, TxnOK
  <1>4. \A s \in Threads : txn[s].pc = "refresh" => txn[s].token \in DOMAIN tokens
    BY DEF TypeOK, TxnOK
  <1>5. OneUnrevoked' BY <1>1 DEF RefreshInv, OneUnrevoked
  <1>6. ASSUME NEW s \in Threads, txn'[s].pc = "refresh" PROVE Alone(txn[s].token)'
    <2>1. CASE s = t BY <1>1, <1>3, <1>6, <2>1 DEF RefreshInv, OneUnrevoked, Alone
    <2>2. CASE s # t BY <1>1, <1>6, <2>2 DEF RefreshInv, Alone
    <2> QED BY <2>1, <2>2
  <1>7. ASSUME NEW s \in Threads, NEW r \in Threads, txn'[s].pc = "refresh",
               txn'[r].pc = "refresh", SameFamily(s, r)'
        PROVE  txn'[s].token = txn'[r].token
    BY <1>1, <1>3, <1>4, <1>7 DEF RefreshInv, Alone, SameFamily
  <1> QED BY <1>5, <1>6, <1>7 DEF RefreshInv

LEMMA RefreshInvCommits ==
    ASSUME TypeOK, FamiliesOwned, RefreshesApart, RefreshInv,
           NEW t \in Threads, Step(t), Commit(t)
    PROVE  RefreshInv'
  <1>1. /\ txn'[t] = Idle
        /\ \A s \in Threads : s # t => txn'[s] = txn[s]
    BY CommitEnds
  <1>2. \A s \in Threads : txn'[s].pc = "refresh" =>
            s # t /\ txn'[s] = txn[s] /\ txn[s].token \in DOMAIN tokens
    BY <1>1 DEF Idle, TypeOK, TxnOK
  <1>3. ASSUME NEW k, Opened(k) PROVE RefreshInv'
    <2>1. OneUnrevoked' BY <1>3 DEF RefreshInv, OneUnrevoked, Opened, FamiliesOwned
    <2>2. \A l \in DOMAIN tokens : tokens'[l] = tokens[l] BY <1>3 DEF Opened
    <2>3. \A l \in DOMAIN tokens : Alone(l) => Alone(l)'
      BY <1>3 DEF Alone, Opened, FamiliesOwned
    <2> QED BY <1>2, <2>1, <2>2, <2>3 DEF RefreshInv, SameFamily
  <1>4. ASSUME NEW new, Refreshes(t, new) PROVE RefreshInv'
    <2> DEFINE k == txn[t].token
    <2>1. Rotated(k, new) /\ txn[t].pc = "refresh" /\ Alone(k)
      BY <1>4 DEF Refreshes, RefreshCommit, RefreshInv
    <2>2. \A s \in Threads : txn'[s].pc = "refresh" =>
            tokens[txn[s].token].family # tokens[k].family
      BY <1>2, <2>1 DEF RefreshInv, RefreshesApart, SameFamily
    <2> HIDE DEF k
    <2>3. OneUnrevoked' BY <2>1 DEF Rotated, RefreshInv, OneUnrevoked, Alone
    <2>4. \A l \in DOMAIN tokens :
            Alone(l) /\ tokens[l].family # tokens[k].family => Alone(l)'
      BY <2>1 DEF Rotated, Alone
    <2>5. \A l \in DOMAIN tokens : tokens'[l].family = tokens[l].family
      BY <2>1 DEF Rotated
    <2> QED BY <1>2, <2>2, <2>3, <2>4, <2>5 DEF RefreshInv, SameFamily
  <1>5. ASSUME NEW ids, Closed(ids) PROVE RefreshInv'
    <2>1. OneUnrevoked' BY <1>5 DEF Closed, RefreshInv, OneUnrevoked
    <2>2. \A l \in DOMAIN tokens :
            (Alone(l) => Alone(l)') /\ tokens'[l].family = tokens[l].family
      BY <1>5 DEF Closed, Alone
    <2> QED BY <1>2, <2>1, <2>2 DEF RefreshInv, SameFamily
  <1> QED BY <1>3, <1>4, <1>5, TokensMove DEF SignsUp, LogsIn

LEMMA RefreshInvAlways == Spec /\ []RefreshesApart => []RefreshInv
  <1>1. Init => RefreshInv
    BY DEF Init, EmptyTable, Idle, RefreshInv, OneUnrevoked
  <1>2. TypeOK /\ FamiliesOwned /\ RefreshesApart /\ RefreshInv /\ [Next]_vars
            => RefreshInv'
    <2>1. QuietTables /\ RefreshInv => RefreshInv'
      BY DEF QuietTables, RefreshInv, OneUnrevoked, Alone, SameFamily
    <2> QED BY <2>1, NextSteps, RefreshInvReads, RefreshInvCommits
  <1> QED BY <1>1, <1>2, Typing, FamiliesInvariant, PTL DEF Spec

(* A refresh token is replaced, never copied: as long as no two refreshes  *)
(* of one token overlap, no session has two live refresh tokens, whatever  *)
(* else overlaps.                                                          *)
THEOREM SingleToken == Spec /\ []RefreshesApart => []OneLiveTokenPerSession
  <1>1. RefreshInv => OneLiveTokenPerSession
    BY DEF RefreshInv, OneUnrevoked, OneLiveTokenPerSession, LiveTokens, Live
  <1> QED BY <1>1, RefreshInvAlways, PTL

(***************************************************************************)
(* Logouts end sessions, as long as none overlaps a refresh of its token   *)
(* and no two refreshes of one token overlap.                              *)
(***************************************************************************)
LoggedOut(e) == e.action = "TOKEN_REVOKED" /\ e.detail = <<"logout">>
Over(f) == \A k \in DOMAIN tokens : tokens[k].family = f => tokens[k].revoked

LogoutInv ==
    /\ \A e \in audit : LoggedOut(e) =>
        e.resource \in DOMAIN tokens /\ Over(tokens[e.resource].family)
    /\ \A t \in Threads : txn[t].pc = "logout" => Alone(txn[t].token)
    /\ \A s, t \in Threads :
        txn[s].pc = "logout" /\ txn[t].pc = "refresh" /\ SameFamily(s, t)
            => txn[s].token = txn[t].token
    /\ \A t \in Threads : txn[t].pc = "refresh" =>
        \A e \in audit : LoggedOut(e) =>
            tokens[txn[t].token].family # tokens[e.resource].family

(* Only a logout records a logout.                                         *)
LEMMA LogoutsRecorded ==
    ASSUME NEW t \in Threads, Step(t), Shape(txn[t]),
           NEW e \in audit' \ audit, LoggedOut(e)
    PROVE  LogoutCommit(t) /\ e.resource = txn[t].token
  <1>1. CASE AuthCommit(t)
    <2>1. CASE LoginRefusedCommit(t)
      BY <2>1 DEF LoginRefusedCommit, Shape, LoggedOut
    <2>2. CASE RegisterCommit(t) BY <2>2 DEF RegisterCommit, Entry, LoggedOut
    <2>3. CASE LoginWrongCommit(t)
      BY <2>3 DEF LoginWrongCommit, LoginFailure, Entry, LoggedOut
    <2>4. CASE LoginOkCommit(t) BY <2>4 DEF LoginOkCommit, Entry, LoggedOut
    <2>5. CASE RefreshCommit(t) BY <2>5 DEF RefreshCommit, Entry, LoggedOut
    <2>6. CASE LogoutCommit(t) BY <2>6 DEF LogoutCommit, Entry
    <2> QED BY <1>1, <2>1, <2>2, <2>3, <2>4, <2>5, <2>6 DEF AuthCommit
  <1>2. CASE AdminCommit(t)
    BY <1>2
    DEF AdminCommit, CreateUserCommit, UpdateRoleCommit, RoleChangeEntry,
        DeactivateCommit, CreateTenantCommit, UpdateTenantCommit,
        TenantUpdateEntry, Entry, LoggedOut
  <1>3. CASE BootstrapCommit(t)
    <2>1. CASE BootstrapCreateCommit(t)
      <3>1. e.action \in {"USER_CREATED", "TENANT_CREATED"}
        BY <2>1 DEF BootstrapCreateCommit, Entry
      <3> QED BY <3>1 DEF LoggedOut
    <2>2. CASE BootstrapUpdateCommit(t) BY <2>2 DEF BootstrapUpdateCommit
    <2> QED BY <1>3, <2>1, <2>2 DEF BootstrapCommit
  <1>4. CASE \E r : Hold(t, r) BY <1>4, HoldKeeps
  <1> QED BY <1>1, <1>2, <1>3, <1>4, StepKinds DEF Commit

(* The tokens that pending logouts and refreshes have read.                *)
LEMMA HeldTokens ==
    ASSUME TypeOK, NEW t \in Threads, txn[t].pc \in {"refresh", "logout"}
    PROVE  /\ txn[t].token \in DOMAIN tokens
           /\ tokens[txn[t].token].user = txn[t].user
           /\ txn[t].user \in DOMAIN users
  BY DEF TypeOK, TxnOK

LEMMA LogoutInvReads ==
    ASSUME TypeOK, RefreshInv, LogoutInv, NEW t \in Threads, Step(t), ~Commit(t)
    PROVE  LogoutInv'
  <1>1. /\ Finds(txn[t], txn'[t]) /\ tokens' = tokens /\ audit' = audit
        /\ \A s \in Threads : s # t => txn'[s] = txn[s]
    BY MemoryAfter
  <1>2. TypeOK' BY TypesStep DEF Next
  <1>3. txn'[t].pc \in {"refresh", "logout"} =>
            txn'[t].token \in DOMAIN tokens /\ ~tokens[txn'[t].token].revoked
    BY <1>1, <1>2 DEF Finds, TypeOK, TxnOK
  <1>4. \A e \in audit : LoggedOut(e)' <=> LoggedOut(e) BY DEF LoggedOut
  <1>5. ASSUME NEW e \in audit', LoggedOut(e)
        PROVE  e.resource \in DOMAIN tokens' /\ Over(tokens[e.resource].family)'
    BY <1>1, <1>5 DEF LogoutInv, Over
  <1>6. ASSUME NEW s \in Threads, txn'[s].pc = "logout" PROVE Alone(txn[s].token)'
    <2>1. CASE s = t BY <1>1, <1>3, <1>6, <2>1 DEF RefreshInv, OneUnrevoked, Alone
    <2>2. CASE s # t BY <1>1, <1>6, <2>2 DEF LogoutInv, Alone
    <2> QED BY <2>1, <2>2
  <1>7. ASSUME NEW s \in Threads, NEW r \in Threads, txn'[s].pc = "logout",
               txn'[r].pc = "refresh", SameFamily(s, r)'
        PROVE  txn'[s].token = txn'[r].token
    <2>1. CASE s = t
      <3>1. r # t BY <1>7, <2>1
      <3> QED BY <1>1, <1>3, <1>7, <2>1, <3>1 DEF RefreshInv, Alone, SameFamily
    <2>2. CASE s # t /\ r = t
      BY <1>1, <1>3, <1>7, <2>2 DEF LogoutInv, Alone, SameFamily
    <2>3. CASE s # t /\ r # t BY <1>1, <1>7, <2>3 DEF LogoutInv, SameFamily
    <2> QED BY <2>1, <2>2, <2>3
  <1>8. ASSUME NEW s \in Threads, txn'[s].pc = "refresh", NEW e \in audit, LoggedOut(e)
        PROVE  tokens[txn'[s].token].family # tokens[e.resource].family
    BY <1>1, <1>3, <1>8 DEF LogoutInv, Over
  <1> QED BY <1>1, <1>4, <1>5, <1>6, <1>7, <1>8 DEF LogoutInv

LEMMA LogoutInvCommits ==
    ASSUME TypeOK, FamiliesOwned, Shapes, RefreshInv, LogoutInv,
           RefreshesApart, LogoutsApart, NEW t \in Threads, Step(t), Commit(t)
    PROVE  LogoutInv'
  <1>1. \A s \in Threads : txn'[s].pc \in {"refresh", "logout"} =>
            s # t /\ txn'[s] = txn[s] /\ txn[s].token \in DOMAIN tokens
    BY CommitEnds, HeldTokens DEF Idle
  <1>2. ASSUME ~LogoutCommit(t), NEW e \in audit', LoggedOut(e)
        PROVE  /\ e \in audit /\ e.resource \in DOMAIN tokens
               /\ tokens[e.resource].family \in DOMAIN tokens
               /\ Over(tokens[e.resource].family)
    BY <1>2, LogoutsRecorded DEF Shapes, LogoutInv, FamiliesOwned
  <1>3. ASSUME ~LogoutCommit(t), NEW F,
               \A k \in DOMAIN tokens :
                  k \in DOMAIN tokens' /\ tokens'[k].family = tokens[k].family,
               \A f \in DOMAIN tokens : Over(f) /\ f # F => Over(f)',
               \A k \in DOMAIN tokens :
                  Alone(k) /\ tokens[k].family # F => Alone(k)',
               \A e \in audit : LoggedOut(e) => tokens[e.resource].family # F,
               \A s \in Threads : s # t /\ txn[s].pc = "logout" =>
                  tokens[txn[s].token].family # F
        PROVE  LogoutInv'
    <2>1. ASSUME NEW e \in audit', LoggedOut(e)
          PROVE  e.resource \in DOMAIN tokens' /\ Over(tokens[e.resource].family)'
      <3>1. PICK f \in DOMAIN tokens : f = tokens[e.resource].family
        BY <1>2, <1>3, <2>1
      <3>2. f = tokens'[e.resource].family /\ Over(f)'
        BY <1>2, <1>3, <2>1, <3>1
      <3> QED BY <1>2, <1>3, <2>1, <3>2 DEF Over
    <2>2. ASSUME NEW s \in Threads, txn'[s].pc = "logout" PROVE Alone(txn[s].token)'
      <3>1. PICK k \in DOMAIN tokens : k = txn[s].token /\ k = txn'[s].token
        BY <1>1, <2>2
      <3>2. Alone(k)' BY <1>1, <1>3, <2>2, <3>1 DEF LogoutInv
      <3> QED BY <3>1, <3>2 DEF Alone
    <2>3. ASSUME NEW s \in Threads, NEW r \in Threads, txn'[s].pc = "logout",
                 txn'[r].pc = "refresh", SameFamily(s, r)'
          PROVE  txn'[s].token = txn'[r].token
      BY <1>1, <1>3, <2>3 DEF LogoutInv, SameFamily
    <2>4. ASSUME NEW s \in Threads, txn'[s].pc = "refresh",
                 NEW e \in audit', LoggedOut(e)
          PROVE  tokens'[txn'[s].token].family # tokens'[e.resource].family
      BY <1>1, <1>2, <1>3, <2>4 DEF LogoutInv
    <2> QED BY <2>1, <2>2, <2>3, <2>4 DEF LogoutInv, LoggedOut
  <1>4. ASSUME NEW k, Opened(k), ~LogoutCommit(t) PROVE LogoutInv'
    <2>1. \A l \in DOMAIN tokens : tokens[l].family \in DOMAIN tokens /\ k # l
      BY <1>4 DEF FamiliesOwned, Opened
    <2>2. /\ \A f \in DOMAIN tokens : Over(f) => Over(f)'
          /\ \A l \in DOMAIN tokens : Alone(l) => Alone(l)'
      BY <1>4, <2>1 DEF Opened, Over, Alone
    <2>3. \A l \in DOMAIN tokens :
            l \in DOMAIN tokens' /\ tokens'[l].family = tokens[l].family
      BY <1>4 DEF Opened
    <2>4. \A e \in audit : LoggedOut(e) => tokens[e.resource].family # k
      BY <2>1 DEF LogoutInv
    <2>5. \A s \in Threads : s # t /\ txn[s].pc = "logout" =>
            tokens[txn[s].token].family # k
      BY <2>1, HeldTokens
    <2> QED BY <1>3, <1>4, <2>2, <2>3, <2>4, <2>5
  <1>5. ASSUME NEW new, Refreshes(t, new) PROVE LogoutInv'
    <2>1. PICK k \in DOMAIN tokens : k = txn[t].token /\ Rotated(k, new)
      BY <1>5 DEF Refreshes, Rotated
    <2>2. txn[t].pc = "refresh" BY <1>5 DEF Refreshes, RefreshCommit
    <2>3. ~LogoutCommit(t) BY <2>2 DEF LogoutCommit
    <2>4. /\ \A f \in DOMAIN tokens : Over(f) /\ f # tokens[k].family => Over(f)'
          /\ \A l \in DOMAIN tokens :
                Alone(l) /\ tokens[l].family # tokens[k].family => Alone(l)'
      BY <2>1 DEF Rotated, Over, Alone
    <2>5. \A l \in DOMAIN tokens :
            l \in DOMAIN tokens' /\ tokens'[l].family = tokens[l].family
      BY <2>1 DEF Rotated
    <2>6. \A e \in audit : LoggedOut(e) => tokens[e.resource].family # tokens[k].family
      BY <2>1, <2>2 DEF LogoutInv
    <2>7. \A s \in Threads : s # t /\ txn[s].pc = "logout" =>
            tokens[txn[s].token].family # tokens[k].family
      BY <2>1, <2>2 DEF LogoutInv, LogoutsApart, SameFamily
    <2> QED BY <1>3, <2>3, <2>4, <2>5, <2>6, <2>7
  <1>6. ASSUME NEW ids, Closed(ids), ~LogoutCommit(t) PROVE LogoutInv'
    <2>1. /\ \A f \in DOMAIN tokens : Over(f) => Over(f)'
          /\ \A l \in DOMAIN tokens : Alone(l) => Alone(l)'
          /\ \A l \in DOMAIN tokens :
                l \in DOMAIN tokens' /\ tokens'[l].family = tokens[l].family
      BY <1>6 DEF Closed, Over, Alone
    <2>2. PICK F : F \notin {tokens[l].family : l \in DOMAIN tokens}
      BY NoSetContainsEverything
    <2>3. \A e \in audit : LoggedOut(e) => tokens[e.resource].family # F
      BY <2>2 DEF LogoutInv
    <2>4. \A s \in Threads : s # t /\ txn[s].pc = "logout" =>
            tokens[txn[s].token].family # F
      BY <2>2, HeldTokens
    <2> QED BY <1>3, <1>6, <2>1, <2>3, <2>4
  <1>7. CASE LogoutCommit(t)
    <2>1. PICK k \in DOMAIN tokens : k = txn[t].token
      BY <1>7, HeldTokens DEF LogoutCommit
    <2>2. txn[t].pc = "logout" /\ Closed({k}) /\ Alone(k)
      BY <1>7, <2>1, RevokedCloses DEF LogoutCommit, LogoutInv
    <2>3. /\ Over(tokens[k].family)'
          /\ \A f \in DOMAIN tokens : Over(f) => Over(f)'
          /\ \A l \in DOMAIN tokens : Alone(l) => Alone(l)'
          /\ \A l \in DOMAIN tokens :
                l \in DOMAIN tokens' /\ tokens'[l].family = tokens[l].family
      BY <2>2 DEF Closed, Over, Alone
    <2>4. ASSUME NEW e \in audit', LoggedOut(e)
          PROVE  \/ e.resource = k
                 \/ /\ e \in audit /\ e.resource \in DOMAIN tokens
                    /\ tokens[e.resource].family \in DOMAIN tokens
                    /\ Over(tokens[e.resource].family)
      BY <1>7, <2>1, <2>4, LogoutsRecorded DEF Shapes, LogoutInv, FamiliesOwned
    <2>5. ASSUME NEW e \in audit', LoggedOut(e)
          PROVE  e.resource \in DOMAIN tokens' /\ Over(tokens[e.resource].family)'
      <3>1. /\ e.resource \in DOMAIN tokens
            /\ tokens'[e.resource].family = tokens[e.resource].family
        BY <2>3, <2>4, <2>5
      <3>2. PICK f \in DOMAIN tokens : f = tokens[e.resource].family /\ Over(f)'
        BY <2>1, <2>3, <2>4, <2>5 DEF FamiliesOwned
      <3> QED BY <2>3, <3>1, <3>2 DEF Over
    <2>6. ASSUME NEW s \in Threads, txn'[s].pc = "logout" PROVE Alone(txn[s].token)'
      <3>1. PICK l \in DOMAIN tokens : l = txn[s].token /\ l = txn'[s].token
        BY <1>1, <2>6
      <3>2. Alone(l)' BY <1>1, <2>3, <2>6, <3>1 DEF LogoutInv
      <3> QED BY <3>1, <3>2 DEF Alone
    <2>7. ASSUME NEW s \in Threads, NEW r \in Threads, txn'[s].pc = "logout",
                 txn'[r].pc = "refresh", SameFamily(s, r)'
          PROVE  txn'[s].token = txn'[r].token
      BY <1>1, <2>3, <2>7 DEF LogoutInv, SameFamily
    <2>8. ASSUME NEW s \in Threads, txn'[s].pc = "refresh",
                 NEW e \in audit', LoggedOut(e)
          PROVE  tokens'[txn'[s].token].family # tokens'[e.resource].family
      <3>1. tokens[txn[s].token].family # tokens[k].family
        BY <1>1, <2>1, <2>2, <2>8 DEF LogoutInv, LogoutsApart, SameFamily
      <3>2. e.resource # k => tokens[txn[s].token].family # tokens[e.resource].family
        BY <1>1, <2>4, <2>8 DEF LogoutInv
      <3> QED BY <1>1, <2>1, <2>3, <2>4, <2>8, <3>1, <3>2
    <2> QED BY <2>5, <2>6, <2>7, <2>8 DEF LogoutInv, LoggedOut
  <1>8. \A k : SignsUp(t, k) \/ LogsIn(t, k) => ~LogoutCommit(t)
    BY DEF SignsUp, LogsIn, RegisterCommit, LoginOkCommit, LogoutCommit
  <1>9. (\E k : SignsUp(t, k) \/ LogsIn(t, k)) => LogoutInv'
    BY <1>4, <1>8 DEF SignsUp, LogsIn
  <1> QED BY <1>5, <1>6, <1>7, <1>9, TokensMove

LEMMA LogoutInvAlways == Spec /\ []RefreshesApart /\ []LogoutsApart => []LogoutInv
  <1>1. Init => LogoutInv BY DEF Init, Idle, LogoutInv
  <1>2. TypeOK /\ FamiliesOwned /\ Shapes /\ RefreshInv /\ LogoutInv
            /\ RefreshesApart /\ LogoutsApart /\ [Next]_vars => LogoutInv'
    <2>1. QuietTables /\ LogoutInv => LogoutInv'
      BY DEF QuietTables, LogoutInv, LoggedOut, Over, Alone, SameFamily
    <2> QED BY <2>1, NextSteps, LogoutInvReads, LogoutInvCommits
  <1> QED
    BY <1>1, <1>2, Typing, FamiliesInvariant, ShapesInvariant, RefreshInvAlways, PTL
    DEF Spec

(* A logout ends its session, however often it was rotated before and      *)
(* whatever is tried with its tokens later, as long as no logout overlaps  *)
(* a refresh of its token and no two refreshes of one token overlap.       *)
THEOREM LogoutEnds ==
    Spec /\ []RefreshesApart /\ []LogoutsApart => []LogoutEndsSession
  <1>1. LogoutInv => LogoutEndsSession
    BY DEF LogoutInv, LoggedOut, Over, LogoutEndsSession, LiveTokens, Live
  <1> QED BY <1>1, LogoutInvAlways, PTL

(***************************************************************************)
(* What every commit does to the users that were there.                    *)
(***************************************************************************)

(* The user v is left alone.                                               *)
Untouched(v) == v \in DOMAIN users' /\ users'[v] = users[v]

LEMMA RegisterTouches ==
    ASSUME NEW t \in Threads, RegisterCommit(t)
    PROVE  \A v \in DOMAIN users : Untouched(v)
  BY DEF RegisterCommit, Insert, Untouched

LEMMA CreateUserTouches ==
    ASSUME NEW t \in Threads, CreateUserCommit(t)
    PROVE  \A v \in DOMAIN users : Untouched(v)
  BY DEF CreateUserCommit, Insert, Untouched

LEMMA BootstrapCreateTouches ==
    ASSUME NEW t \in Threads, BootstrapCreateCommit(t)
    PROVE  \A v \in DOMAIN users : Untouched(v)
  BY DEF BootstrapCreateCommit, Insert, Untouched

LEMMA LoginTouches ==
    ASSUME TypeOK, NEW t \in Threads, LoginWrongCommit(t) \/ LoginOkCommit(t)
    PROVE  /\ DOMAIN users' = DOMAIN users
           /\ \A v \in DOMAIN users :
                /\ v # txn[t].user => users'[v] = users[v]
                /\ users'[v].active = users[v].active
                /\ users'[v].password = users[v].password
  BY RowFacts DEF LoginWrongCommit, LoginOkCommit, WriteLock, UserRow

LEMMA UpdateRoleTouches ==
    ASSUME TypeOK, NEW t \in Threads, UpdateRoleCommit(t)
    PROVE  /\ DOMAIN users' = DOMAIN users
           /\ \A v \in DOMAIN users :
                /\ v # txn[t].user => users'[v] = users[v]
                /\ users'[v].active = users[v].active
                /\ users'[v].password = users[v].password
                /\ users'[v].failed = users[v].failed
                /\ users'[v].lockedUntil = users[v].lockedUntil
  BY RowFacts DEF UpdateRoleCommit, UserRow

LEMMA DeactivateTouches ==
    ASSUME TypeOK, NEW t \in Threads, DeactivateCommit(t)
    PROVE  /\ DOMAIN users' = DOMAIN users
           /\ \A v \in DOMAIN users :
                /\ v # txn[t].user => users'[v] = users[v]
                /\ users'[v].active <=> users[v].active /\ v # txn[t].user
                /\ users'[v].password = users[v].password
                /\ users'[v].failed = users[v].failed
                /\ users'[v].lockedUntil = users[v].lockedUntil
  BY RowFacts DEF DeactivateCommit, UserRow

(* The command writes what it has not read to be so already.               *)
LEMMA BootstrapTouches ==
    ASSUME TypeOK, NEW t \in Threads, BootstrapUpdateCommit(t)
    PROVE  /\ DOMAIN users' = DOMAIN users
           /\ \A v \in DOMAIN users :
                /\ v # txn[t].user => users'[v] = users[v]
                /\ users'[v].active <=>
                    users[v].active \/ (v = txn[t].user /\ ~txn[t].row.active)
                /\ users'[v].password # users[v].password =>
                    v = txn[t].user /\ txn[t].rotate
           /\ users'[txn[t].user].failed =
                Write(txn[t].row.failed, 0, users[txn[t].user].failed)
           /\ users'[txn[t].user].lockedUntil =
                Write(txn[t].row.lockedUntil, 0, users[txn[t].user].lockedUntil)
  <1> DEFINE x == txn[t]
             u == x.user
  <1>1. u \in DOMAIN users /\ x.row \in UserRow
    BY DEF BootstrapUpdateCommit, TypeOK, TxnOK
  <1>2. users' = [users EXCEPT
                ![u].active = Write(x.row.active, TRUE, @),
                ![u].failed = Write(x.row.failed, 0, @),
                ![u].lockedUntil = Write(x.row.lockedUntil, 0, @),
                ![u].password = IF x.rotate THEN x.password ELSE @]
    BY DEF BootstrapUpdateCommit
  <1> DEFINE after == [tenant |-> users[u].tenant, email |-> users[u].email,
                       password |-> IF x.rotate THEN x.password
                                    ELSE users[u].password,
                       role |-> users[u].role,
                       active |-> Write(x.row.active, TRUE, users[u].active),
                       failed |-> Write(x.row.failed, 0, users[u].failed),
                       lockedUntil |-> Write(x.row.lockedUntil, 0,
                                             users[u].lockedUntil)]
  <1>3. users[u] \in UserRow BY <1>1, RowFacts
  <1>4. users'[u] = after BY <1>1, <1>2, <1>3 DEF UserRow
  <1>5. DOMAIN users' = DOMAIN users /\ \A v \in DOMAIN users : v # u => users'[v] = users[v]
    BY <1>2
  <1>6. /\ users'[u].active <=> users[u].active \/ ~x.row.active
        /\ users'[u].failed = Write(x.row.failed, 0, users[u].failed)
        /\ users'[u].lockedUntil = Write(x.row.lockedUntil, 0, users[u].lockedUntil)
        /\ users'[u].password # users[u].password => x.rotate
    <2>1. Write(x.row.active, TRUE, users[u].active) <=>
            users[u].active \/ ~x.row.active
      BY <1>1, <1>3 DEF Write, UserRow
    <2>2. users'[u].active = Write(x.row.active, TRUE, users[u].active)
      BY <1>4
    <2>3. users'[u].active <=> users[u].active \/ ~x.row.active
      BY <2>1, <2>2
    <2>4. /\ users'[u].failed = Write(x.row.failed, 0, users[u].failed)
          /\ users'[u].lockedUntil = Write(x.row.lockedUntil, 0, users[u].lockedUntil)
          /\ users'[u].password # users[u].password => x.rotate
      BY <1>4
    <2> QED BY <2>3, <2>4
  <1> HIDE DEF x, u, after
  <1> QED BY <1>1, <1>3, <1>5, <1>6 DEF x, u, UserRow

(* Only a deactivation makes an active user inactive.                      *)
ActiveStay == \A v \in DOMAIN users :
    v \in DOMAIN users' /\ (users[v].active => users'[v].active)

LEMMA UsersStayActive ==
    ASSUME TypeOK, NEW t \in Threads, Step(t)
    PROVE  DeactivateCommit(t) \/ ActiveStay
  <1>1. CASE users' = users BY <1>1 DEF ActiveStay
  <1>2. CASE \A v \in DOMAIN users : Untouched(v)
    BY <1>2 DEF ActiveStay, Untouched
  <1>3. CASE AuthCommit(t)
    <2>1. CASE LoginWrongCommit(t) \/ LoginOkCommit(t)
      BY <2>1, LoginTouches DEF ActiveStay
    <2> QED
      BY <1>1, <1>2, <1>3, <2>1, RegisterTouches
      DEF AuthCommit, LoginRefusedCommit, RefreshCommit, LogoutCommit
  <1>4. CASE AdminCommit(t)
    <2>1. CASE UpdateRoleCommit(t) BY <2>1, UpdateRoleTouches DEF ActiveStay
    <2> QED
      BY <1>1, <1>2, <1>4, <2>1, CreateUserTouches
      DEF AdminCommit, CreateTenantCommit, UpdateTenantCommit
  <1>5. CASE BootstrapCommit(t)
    <2>1. CASE BootstrapUpdateCommit(t) BY <2>1, BootstrapTouches DEF ActiveStay
    <2> QED BY <1>2, <1>5, <2>1, BootstrapCreateTouches DEF BootstrapCommit
  <1>6. CASE \E r : Hold(t, r) BY <1>1, <1>6, HoldKeeps
  <1> QED BY <1>3, <1>4, <1>5, <1>6, StepKinds DEF Commit

(* Only a login or a refresh of a user that was there gives it a token.    *)
LEMMA UnrevokedStay ==
    ASSUME TypeOK, NEW t \in Threads, Step(t), NEW u \in DOMAIN users,
           ~EntersAs(t, u)
    PROVE  UnrevokedTokens(u)' \subseteq UnrevokedTokens(u)
  BY StepIssues
  DEF Issues, IssuesToken, TokensAge, UnrevokedTokens, EntersAs

(***************************************************************************)
(* Deactivations end sessions, as long as none overlaps a login or refresh *)
(* of its user: then a pending one has read all good tokens of its user,   *)
(* and whoever logs in or refreshes is active.                             *)
(***************************************************************************)
OwnersActive ==
    \A k \in DOMAIN tokens : ~tokens[k].revoked => users[tokens[k].user].active

DeactivationInv ==
    /\ OwnersActive
    /\ \A t \in Threads : txn[t].pc \in {"login_user", "refresh"} =>
        users[txn[t].user].active
    /\ \A t \in Threads : txn[t].pc = "deactivate" =>
        UnrevokedTokens(txn[t].user) \subseteq txn[t].tokens

LEMMA HeldUsers ==
    ASSUME TypeOK, NEW t \in Threads,
           txn[t].pc \in {"login_user", "refresh", "update_role", "deactivate_user",
                          "deactivate", "bootstrap_rotate", "bootstrap_update"}
    PROVE  txn[t].user \in DOMAIN users
  BY DEF TypeOK, TxnOK

LEMMA OwnersFact ==
    ASSUME TypeOK PROVE \A k \in DOMAIN tokens : tokens[k].user \in DOMAIN users
  BY DEF TypeOK, ForeignKeysOK

LEMMA OwnersKept ==
    ASSUME TypeOK, DeactivationInv, NEW t \in Threads, Step(t)
    PROVE  OwnersActive'
  <1>1. CASE ActiveStay
    <2>1. ASSUME NEW k, Opened(k), tokens'[k].user \in DOMAIN users',
                 users'[tokens'[k].user].active
          PROVE  OwnersActive'
      BY <1>1, <2>1, OwnersFact DEF Opened, DeactivationInv, OwnersActive, ActiveStay
    <2>2. ASSUME NEW k, SignsUp(t, k) PROVE OwnersActive'
      BY <2>1, <2>2 DEF SignsUp
    <2>3. ASSUME NEW k, LogsIn(t, k) PROVE OwnersActive'
      <3>1. txn[t].user \in DOMAIN users /\ users[txn[t].user].active
        BY <2>3, HeldUsers DEF LogsIn, LoginOkCommit, DeactivationInv
      <3> QED BY <1>1, <2>1, <2>3, <3>1 DEF LogsIn, ActiveStay
    <2>4. ASSUME NEW new, Refreshes(t, new) PROVE OwnersActive'
      <3>1. PICK k \in DOMAIN tokens :
                /\ k = txn[t].token /\ Rotated(k, new)
                /\ users[tokens[k].user].active
        BY <2>4, HeldTokens DEF Refreshes, RefreshCommit, DeactivationInv
      <3> QED
        BY <1>1, <3>1, OwnersFact DEF Rotated, DeactivationInv, OwnersActive, ActiveStay
    <2>5. ASSUME NEW ids, Closed(ids) PROVE OwnersActive'
      BY <1>1, <2>5, OwnersFact DEF Closed, DeactivationInv, OwnersActive, ActiveStay
    <2> QED BY <2>2, <2>3, <2>4, <2>5, TokensMove
  <1>2. CASE DeactivateCommit(t)
    <2>1. Closed(txn[t].tokens) BY <1>2, RevokedCloses DEF DeactivateCommit
    <2>2. UnrevokedTokens(txn[t].user) \subseteq txn[t].tokens
      BY <1>2 DEF DeactivateCommit, DeactivationInv
    <2>3. \A v \in DOMAIN users :
            users'[v].active <=> users[v].active /\ v # txn[t].user
      BY <1>2, DeactivateTouches
    <2> QED
      BY <2>1, <2>2, <2>3, OwnersFact
      DEF Closed, DeactivationInv, OwnersActive, UnrevokedTokens
  <1> QED BY <1>1, <1>2, UsersStayActive

LEMMA DeactivationInvReads ==
    ASSUME TypeOK, DeactivationInv, NEW t \in Threads, Step(t), ~Commit(t)
    PROVE  DeactivationInv'
  <1>1. /\ Finds(txn[t], txn'[t]) /\ tokens' = tokens /\ users' = users
        /\ \A s \in Threads : s # t => txn'[s] = txn[s]
    BY MemoryAfter
  <1>2. \A u : UnrevokedTokens(u)' = UnrevokedTokens(u)
    BY <1>1 DEF UnrevokedTokens
  <1> QED BY <1>1, <1>2 DEF DeactivationInv, OwnersActive, Finds

LEMMA DeactivationInvCommits ==
    ASSUME TypeOK, DeactivationInv, DeactivationsApart,
           NEW t \in Threads, Step(t), Commit(t)
    PROVE  DeactivationInv'
  <1>1. \A s \in Threads : txn'[s].pc # "idle" => s # t /\ txn'[s] = txn[s]
    BY CommitEnds DEF Idle
  <1>2. ASSUME NEW s \in Threads, txn'[s].pc \in {"login_user", "refresh"}
        PROVE  users'[txn'[s].user].active
    <2>1. s # t /\ txn'[s] = txn[s] /\ EntersAs(s, txn[s].user)
      BY <1>1, <1>2 DEF EntersAs
    <2>2. PICK u \in DOMAIN users : u = txn[s].user /\ users[u].active
      BY <1>2, <2>1, HeldUsers DEF DeactivationInv
    <2>3. CASE DeactivateCommit(t)
      <3>1. txn[t].user # u
        BY <2>1, <2>2, <2>3 DEF DeactivateCommit, DeactivationsApart
      <3> QED BY <2>1, <2>2, <2>3, <3>1, DeactivateTouches
    <2>4. CASE ActiveStay BY <2>1, <2>2, <2>4 DEF ActiveStay
    <2> QED BY <2>3, <2>4, UsersStayActive
  <1>3. ASSUME NEW s \in Threads, txn'[s].pc = "deactivate"
        PROVE  UnrevokedTokens(txn[s].user)' \subseteq txn'[s].tokens
    <2>1. s # t /\ txn'[s] = txn[s] BY <1>1, <1>3
    <2>2. PICK u \in DOMAIN users : u = txn[s].user /\ u = txn'[s].user
      BY <1>3, <2>1, HeldUsers
    <2>3. UnrevokedTokens(u)' \subseteq UnrevokedTokens(u)
      BY <1>3, <2>1, <2>2, UnrevokedStay DEF DeactivationsApart
    <2>4. UnrevokedTokens(u) \subseteq txn[s].tokens
      BY <1>3, <2>1, <2>2 DEF DeactivationInv
    <2>5. UnrevokedTokens(txn[s].user)' = UnrevokedTokens(u)'
      BY <2>2 DEF UnrevokedTokens
    <2> QED BY <2>1, <2>3, <2>4, <2>5
  <1> QED BY <1>2, <1>3, OwnersKept DEF DeactivationInv

LEMMA DeactivationInvAlways == Spec /\ []DeactivationsApart => []DeactivationInv
  <1>1. Init => DeactivationInv
    BY DEF Init, EmptyTable, Idle, DeactivationInv, OwnersActive
  <1>2. TypeOK /\ DeactivationInv /\ DeactivationsApart /\ [Next]_vars
            => DeactivationInv'
    <2>1. QuietTables /\ DeactivationInv => DeactivationInv'
      BY DEF QuietTables, DeactivationInv, OwnersActive, UnrevokedTokens
    <2> QED BY <2>1, NextSteps, DeactivationInvReads, DeactivationInvCommits
  <1> QED BY <1>1, <1>2, Typing, PTL DEF Spec

(* No deactivated user holds a live refresh token, as long as no           *)
(* deactivation overlaps a login or a refresh of its user.                 *)
THEOREM DeactivationEnds ==
    Spec /\ []DeactivationsApart => []DeactivatedHaveNoSession
  <1>1. DeactivationInv => DeactivatedHaveNoSession
    BY DEF DeactivationInv, OwnersActive, DeactivatedHaveNoSession, Live
  <1> QED BY <1>1, DeactivationInvAlways, PTL

(***************************************************************************)
(* Rotations of a password end sessions, as long as none overlaps a login  *)
(* or refresh of its user: then a pending one has read all good tokens.    *)
(***************************************************************************)
RotationInv ==
    \A t \in Threads : Rotates(t) => UnrevokedTokens(txn[t].user) \subseteq txn[t].tokens

LEMMA RotationInvStep ==
    ASSUME TypeOK, RotationInv, RotationsApart, NEW t \in Threads, Step(t)
    PROVE  RotationInv'
  <1> SUFFICES ASSUME NEW s \in Threads, Rotates(s)'
               PROVE  UnrevokedTokens(txn[s].user)' \subseteq txn'[s].tokens
    BY DEF RotationInv
  <1>1. CASE txn'[s] = txn[s]
    <2>1. PICK u \in DOMAIN users : u = txn[s].user /\ u = txn'[s].user
      BY <1>1, HeldUsers DEF Rotates
    <2>2. UnrevokedTokens(u)' \subseteq UnrevokedTokens(u)
      BY <1>1, <2>1, UnrevokedStay DEF RotationsApart, Rotates
    <2>3. UnrevokedTokens(u) \subseteq txn[s].tokens
      BY <1>1, <2>1 DEF RotationInv, Rotates
    <2>4. UnrevokedTokens(txn[s].user)' = UnrevokedTokens(u)'
      BY <2>1 DEF UnrevokedTokens
    <2> QED BY <1>1, <2>2, <2>3, <2>4
  <1>2. CASE s = t /\ ~Commit(t)
    <2>1. Finds(txn[t], txn'[t]) /\ tokens' = tokens BY <1>2, MemoryAfter
    <2>2. \A u : UnrevokedTokens(u)' = UnrevokedTokens(u)
      BY <2>1 DEF UnrevokedTokens
    <2> QED BY <1>2, <2>1, <2>2 DEF Finds, Rotates
  <1>3. CASE s = t /\ Commit(t) BY <1>3, CommitEnds DEF Rotates, Idle
  <1> QED BY <1>1, <1>2, <1>3, MemoryAfter

LEMMA RotationInvAlways == Spec /\ []RotationsApart => []RotationInv
  <1>1. Init => RotationInv BY DEF Init, Idle, RotationInv, Rotates
  <1>2. TypeOK /\ RotationInv /\ RotationsApart /\ [Next]_vars => RotationInv'
    <2>1. QuietTables /\ RotationInv => RotationInv'
      BY DEF QuietTables, RotationInv, Rotates, UnrevokedTokens
    <2> QED BY <2>1, NextSteps, RotationInvStep
  <1> QED BY <1>1, <1>2, Typing, PTL DEF Spec

LEMMA PasswordStep ==
    ASSUME TypeOK, NEW t \in Threads, Step(t),
           NEW u \in DOMAIN users, users'[u].password # users[u].password
    PROVE  BootstrapUpdateCommit(t) /\ u = txn[t].user /\ txn[t].rotate
  <1>1. users' # users /\ ~Untouched(u) BY DEF Untouched
  <1>2. ~\E r : Hold(t, r) BY <1>1, HoldKeeps
  <1>3. ~AuthCommit(t)
    BY <1>1, RegisterTouches, LoginTouches
    DEF AuthCommit, LoginRefusedCommit, RefreshCommit, LogoutCommit
  <1>4. ~AdminCommit(t)
    BY <1>1, CreateUserTouches, UpdateRoleTouches, DeactivateTouches
    DEF AdminCommit, CreateTenantCommit, UpdateTenantCommit
  <1>5. BootstrapUpdateCommit(t)
    BY <1>1, <1>2, <1>3, <1>4, BootstrapCreateTouches, StepKinds
    DEF Commit, BootstrapCommit
  <1> QED BY <1>5, BootstrapTouches

LEMMA RotationStep ==
    ASSUME TypeOK, RotationInv, [Next]_vars,
           NEW u \in DOMAIN users, users'[u].password # users[u].password,
           NEW k \in DOMAIN tokens', tokens'[k].user = u
    PROVE  tokens'[k].revoked
  <1>1. PICK t \in Threads : Step(t) BY NextSteps DEF QuietTables
  <1>2. BootstrapUpdateCommit(t) /\ u = txn[t].user /\ txn[t].rotate
    BY <1>1, PasswordStep
  <1>3. UnrevokedTokens(u) \subseteq txn[t].tokens
    BY <1>2 DEF RotationInv, Rotates, BootstrapUpdateCommit
  <1>4. Closed(txn[t].tokens) BY <1>2, RevokedCloses DEF BootstrapUpdateCommit
  <1> QED BY <1>3, <1>4 DEF Closed, UnrevokedTokens

(* A rotation of the password by the command ends every session opened     *)
(* with the old one, as long as it overlaps no login or refresh of its     *)
(* user.                                                                   *)
THEOREM RotationEnds == Spec /\ []RotationsApart => RotationEndsSessions
  <1> DEFINE A == \A u \in DOMAIN users :
                    users'[u].password # users[u].password =>
                    \A k \in DOMAIN tokens' :
                        tokens'[k].user = u => tokens'[k].revoked
  <1>1. TypeOK /\ RotationInv /\ [Next]_vars => [A]_vars BY RotationStep
  <1> QED BY <1>1, Typing, RotationInvAlways, PTL DEF Spec, RotationEndsSessions

(***************************************************************************)
(* Wrong passwords count, as long as no login overlaps another of its user *)
(* or the command's reset of its lock: then a pending login has read the   *)
(* counter and the lock as they are, and where the command has read that   *)
(* there is nothing to reset there still is nothing.                       *)
(***************************************************************************)
StrikesCounted ==
    /\ \A u \in DOMAIN users :
        /\ users[u].failed = strikes[u]
        /\ strikes[u] >= MaxFailed <=> users[u].lockedUntil # 0
    /\ \A u \in UserIds \ DOMAIN users : strikes[u] = 0

LockKnown(x) ==
    /\ x.pc = "login_user" =>
        /\ x.row.failed = users[x.user].failed
        /\ x.row.lockedUntil = users[x.user].lockedUntil
        /\ x.expired <=> x.row.lockedUntil # 0
    /\ x.pc \in {"bootstrap_rotate", "bootstrap_update"} =>
        /\ x.row.failed = 0 => users[x.user].failed = 0
        /\ x.row.lockedUntil = 0 => users[x.user].lockedUntil = 0

StrikesInv == StrikesCounted /\ \A t \in Threads : LockKnown(txn[t])

LockSame(v) ==
    /\ users'[v].failed = users[v].failed
    /\ users'[v].lockedUntil = users[v].lockedUntil

(* Users come with no strikes and nobody's change.                         *)
LEMMA NewUsersUnstruck ==
    ASSUME StrikesCounted, strikes' = strikes,
           NEW u \in UserIds \ DOMAIN users, DOMAIN users' = DOMAIN users \cup {u},
           users'[u].failed = 0, users'[u].lockedUntil = 0,
           \A v \in DOMAIN users : users'[v] = users[v]
    PROVE  StrikesCounted'
  BY LimitsAssumption DEF StrikesCounted

LEMMA LocksSame ==
    ASSUME StrikesCounted, strikes' = strikes, DOMAIN users' = DOMAIN users,
           \A v \in DOMAIN users : LockSame(v)
    PROVE  StrikesCounted'
  BY DEF StrikesCounted, LockSame

LEMMA StruckOne ==
    ASSUME TypeOK, StrikesCounted, NEW u \in DOMAIN users,
           DOMAIN users' = DOMAIN users,
           \A v \in DOMAIN users : v # u => users'[v] = users[v],
           NEW n, strikes' = [strikes EXCEPT ![u] = n],
           users'[u].failed = n, n >= MaxFailed <=> users'[u].lockedUntil # 0
    PROVE  StrikesCounted'
  BY DEF StrikesCounted, TypeOK, TablesOK

LEMMA RegisterStrikes ==
    ASSUME StrikesCounted, NEW t \in Threads, RegisterCommit(t)
    PROVE  StrikesCounted'
  <1>1. PICK n \in TenantIds, u \in UserIds \ DOMAIN users :
            users' = Insert(users, u,
                [tenant |-> n, email |-> txn[t].email,
                 password |-> txn[t].password, role |-> "TENANT_ADMIN",
                 active |-> TRUE, failed |-> 0, lockedUntil |-> 0])
    BY DEF RegisterCommit
  <1>2. strikes' = strikes BY DEF RegisterCommit
  <1>3. /\ DOMAIN users' = DOMAIN users \cup {u}
        /\ users'[u].failed = 0 /\ users'[u].lockedUntil = 0
        /\ \A v \in DOMAIN users : users'[v] = users[v]
    BY <1>1 DEF Insert
  <1> QED BY <1>2, <1>3, NewUsersUnstruck

LEMMA CreateUserStrikes ==
    ASSUME StrikesCounted, NEW t \in Threads, CreateUserCommit(t)
    PROVE  StrikesCounted'
  <1>1. PICK u \in UserIds \ DOMAIN users :
            users' = Insert(users, u,
                [tenant |-> txn[t].tenant, email |-> txn[t].email,
                 password |-> txn[t].password, role |-> txn[t].role,
                 active |-> txn[t].active, failed |-> 0, lockedUntil |-> 0])
    BY DEF CreateUserCommit
  <1>2. strikes' = strikes BY DEF CreateUserCommit
  <1>3. /\ DOMAIN users' = DOMAIN users \cup {u}
        /\ users'[u].failed = 0 /\ users'[u].lockedUntil = 0
        /\ \A v \in DOMAIN users : users'[v] = users[v]
    BY <1>1 DEF Insert
  <1> QED BY <1>2, <1>3, NewUsersUnstruck

LEMMA BootstrapCreateStrikes ==
    ASSUME StrikesCounted, NEW t \in Threads, BootstrapCreateCommit(t)
    PROVE  StrikesCounted'
  <1>1. PICK n \in TenantIds, u \in UserIds \ DOMAIN users :
            users' = Insert(users, u,
                [tenant |-> n, email |-> txn[t].email,
                 password |-> txn[t].password, role |-> "SYS_ADMIN",
                 active |-> TRUE, failed |-> 0, lockedUntil |-> 0])
    BY DEF BootstrapCreateCommit
  <1>2. strikes' = strikes BY DEF BootstrapCreateCommit
  <1>3. /\ DOMAIN users' = DOMAIN users \cup {u}
        /\ users'[u].failed = 0 /\ users'[u].lockedUntil = 0
        /\ \A v \in DOMAIN users : users'[v] = users[v]
    BY <1>1 DEF Insert
  <1> QED BY <1>2, <1>3, NewUsersUnstruck

(* A wrong password counts on from the counter that was read, or from 0    *)
(* when the lock that was read had expired.                                *)
LEMMA LoginWrongStrikes ==
    ASSUME TypeOK, StrikesCounted, NEW t \in Threads, LoginWrongCommit(t),
           LockKnown(txn[t])
    PROVE  StrikesCounted'
  <1> DEFINE u == txn[t].user
             row == txn[t].row
             failed == IF txn[t].expired THEN 1 ELSE row.failed + 1
             lock == IF failed >= MaxFailed THEN now + LockoutTTL ELSE 0
             struck == IF txn[t].expired THEN 1
                       ELSE IF strikes[u] < MaxFailed THEN strikes[u] + 1
                       ELSE strikes[u]
  <1>1. /\ u \in DOMAIN users
        /\ row.failed = users[u].failed /\ row.lockedUntil = users[u].lockedUntil
        /\ txn[t].expired <=> row.lockedUntil # 0
    BY DEF LoginWrongCommit, LockKnown, TypeOK, TxnOK
  <1>2. /\ users' = WriteLock(u, row, failed, lock)
        /\ strikes' = [strikes EXCEPT ![u] = struck]
    BY <1>1 DEF LoginWrongCommit, TypeOK, TablesOK
  <1>3. users[u] \in UserRow BY <1>1, RowFacts
  <1>4. u \in UserIds /\ now \in Nat /\ now > 0 BY <1>1 DEF TypeOK, TablesOK
  <1>5. /\ DOMAIN users' = DOMAIN users
        /\ \A v \in DOMAIN users : v # u => users'[v] = users[v]
    BY <1>1, <1>2 DEF WriteLock
  <1>6. users'[u].failed = failed /\ users'[u].lockedUntil = lock
    BY <1>1, <1>2, <1>3 DEF WriteLock, Write, UserRow
  <1>7. strikes[u] = row.failed /\ strikes[u] \in 0 .. MaxFailed
        /\ (strikes[u] >= MaxFailed <=> row.lockedUntil # 0)
    BY <1>1, <1>4 DEF StrikesCounted, TypeOK, TablesOK
  <1>8. struck = failed
    BY <1>1, <1>7, LimitsAssumption
  <1>9. failed >= MaxFailed <=> lock # 0
    BY <1>4, <1>7, LimitsAssumption
  <1> HIDE DEF struck, failed, lock, u
  <1> QED BY <1>1, <1>2, <1>5, <1>6, <1>8, <1>9, StruckOne

LEMMA LoginOkStrikes ==
    ASSUME TypeOK, StrikesCounted, NEW t \in Threads, LoginOkCommit(t),
           LockKnown(txn[t])
    PROVE  StrikesCounted'
  <1> DEFINE u == txn[t].user
             row == txn[t].row
  <1>1. /\ u \in DOMAIN users
        /\ row.failed = users[u].failed /\ row.lockedUntil = users[u].lockedUntil
    BY DEF LoginOkCommit, LockKnown, TypeOK, TxnOK
  <1>2. users' = WriteLock(u, row, 0, 0) /\ strikes' = [strikes EXCEPT ![u] = 0]
    BY DEF LoginOkCommit
  <1>3. users[u] \in UserRow BY <1>1, RowFacts
  <1>4. /\ DOMAIN users' = DOMAIN users
        /\ \A v \in DOMAIN users : v # u => users'[v] = users[v]
    BY <1>1, <1>2 DEF WriteLock
  <1>5. users'[u].failed = 0 /\ users'[u].lockedUntil = 0
    BY <1>1, <1>2, <1>3 DEF WriteLock, Write, UserRow
  <1>6. 0 >= MaxFailed <=> users'[u].lockedUntil # 0
    BY <1>5, LimitsAssumption
  <1> HIDE DEF u
  <1> QED BY <1>1, <1>2, <1>4, <1>5, <1>6, StruckOne

(* The command's reset leaves no strikes and no lock.                      *)
LEMMA ResetFact ==
    ASSUME TypeOK, NEW t \in Threads, BootstrapUpdateCommit(t), LockKnown(txn[t])
    PROVE  users'[txn[t].user].failed = 0 /\ users'[txn[t].user].lockedUntil = 0
  <1>1. /\ txn[t].row.failed = 0 => users[txn[t].user].failed = 0
        /\ txn[t].row.lockedUntil = 0 => users[txn[t].user].lockedUntil = 0
    BY DEF BootstrapUpdateCommit, LockKnown
  <1>2. /\ users'[txn[t].user].failed =
                Write(txn[t].row.failed, 0, users[txn[t].user].failed)
        /\ users'[txn[t].user].lockedUntil =
                Write(txn[t].row.lockedUntil, 0, users[txn[t].user].lockedUntil)
    BY BootstrapTouches
  <1> QED BY <1>1, <1>2 DEF Write

LEMMA BootstrapUpdateStrikes ==
    ASSUME TypeOK, StrikesCounted, NEW t \in Threads, BootstrapUpdateCommit(t),
           LockKnown(txn[t])
    PROVE  StrikesCounted'
  <1> DEFINE u == txn[t].user
  <1>1. u \in DOMAIN users BY HeldUsers DEF BootstrapUpdateCommit
  <1>2. strikes' = [strikes EXCEPT ![u] = 0] BY DEF BootstrapUpdateCommit
  <1>3. users'[u].failed = 0 /\ (0 >= MaxFailed <=> users'[u].lockedUntil # 0)
    BY ResetFact, LimitsAssumption
  <1>4. /\ DOMAIN users' = DOMAIN users
        /\ \A v \in DOMAIN users : v # u => users'[v] = users[v]
    BY BootstrapTouches
  <1> HIDE DEF u
  <1> QED BY <1>1, <1>2, <1>3, <1>4, StruckOne

LEMMA StrikesKept ==
    ASSUME TypeOK, NEW t \in Threads, Step(t), LockKnown(txn[t]), StrikesCounted
    PROVE  StrikesCounted'
  <1>1. CASE users' = users /\ strikes' = strikes
    BY <1>1 DEF StrikesCounted
  <1>2. CASE AuthCommit(t)
    BY <1>1, <1>2, RegisterStrikes, LoginWrongStrikes, LoginOkStrikes
    DEF AuthCommit, LoginRefusedCommit, RefreshCommit, LogoutCommit
  <1>3. CASE AdminCommit(t)
    <2>1. CASE UpdateRoleCommit(t)
      <3>1. strikes' = strikes BY <2>1 DEF UpdateRoleCommit
      <3> QED BY <2>1, <3>1, UpdateRoleTouches, LocksSame DEF LockSame
    <2>2. CASE DeactivateCommit(t)
      <3>1. strikes' = strikes BY <2>2 DEF DeactivateCommit
      <3> QED BY <2>2, <3>1, DeactivateTouches, LocksSame DEF LockSame
    <2> QED
      BY <1>1, <1>3, <2>1, <2>2, CreateUserStrikes
      DEF AdminCommit, CreateTenantCommit, UpdateTenantCommit
  <1>4. CASE BootstrapCommit(t)
    BY <1>4, BootstrapCreateStrikes, BootstrapUpdateStrikes DEF BootstrapCommit
  <1>5. CASE \E r : Hold(t, r) BY <1>1, <1>5, HoldKeeps
  <1> QED BY <1>2, <1>3, <1>4, <1>5, StepKinds DEF Commit

(* Who changes the lock of a user that was there.                          *)
LEMMA LocksMove ==
    ASSUME TypeOK, NEW t \in Threads, Step(t), NEW u \in DOMAIN users
    PROVE  \/ LockSame(u)
           \/ txn[t].pc = "login_user" /\ txn[t].user = u
           \/ BootstrapUpdateCommit(t) /\ txn[t].user = u
  <1>1. CASE users' = users BY <1>1 DEF LockSame
  <1>2. CASE \A v \in DOMAIN users : Untouched(v)
    BY <1>2 DEF LockSame, Untouched
  <1>3. CASE AuthCommit(t)
    <2>1. CASE LoginWrongCommit(t) \/ LoginOkCommit(t)
      BY <2>1, LoginTouches DEF LockSame, LoginWrongCommit, LoginOkCommit
    <2> QED
      BY <1>1, <1>2, <1>3, <2>1, RegisterTouches
      DEF AuthCommit, LoginRefusedCommit, RefreshCommit, LogoutCommit
  <1>4. CASE AdminCommit(t)
    BY <1>1, <1>2, <1>4, CreateUserTouches, UpdateRoleTouches, DeactivateTouches
    DEF AdminCommit, CreateTenantCommit, UpdateTenantCommit, LockSame
  <1>5. CASE BootstrapCommit(t)
    BY <1>2, <1>5, BootstrapCreateTouches, BootstrapTouches
    DEF BootstrapCommit, LockSame
  <1>6. CASE \E r : Hold(t, r) BY <1>1, <1>6, HoldKeeps
  <1> QED BY <1>3, <1>4, <1>5, <1>6, StepKinds DEF Commit

LEMMA LocksKnown ==
    ASSUME TypeOK, StrikesInv, LoginsApart, NEW t \in Threads, Step(t),
           NEW s \in Threads
    PROVE  LockKnown(txn[s])'
  <1>0. LockKnown(txn[s]) /\ LockKnown(txn[t]) BY DEF StrikesInv
  <1>1. CASE s # t
    <2>1. txn'[s] = txn[s] BY <1>1, MemoryAfter
    <2>2. CASE txn[s].pc = "login_user"
      <3>1. PICK u \in DOMAIN users : u = txn[s].user BY <2>2, HeldUsers
      <3>2. LockSame(u)
        BY <1>1, <2>2, <3>1, LocksMove DEF LoginsApart, BootstrapUpdateCommit
      <3> QED BY <1>0, <2>1, <2>2, <3>1, <3>2 DEF LockKnown, LockSame
    <2>3. CASE txn[s].pc \in {"bootstrap_rotate", "bootstrap_update"}
      <3>1. PICK u \in DOMAIN users : u = txn[s].user BY <2>3, HeldUsers
      <3>2. LockSame(u) \/ (users'[u].failed = 0 /\ users'[u].lockedUntil = 0)
        BY <1>0, <1>1, <2>3, <3>1, LocksMove, ResetFact DEF LoginsApart
      <3> QED BY <1>0, <2>1, <2>3, <3>1, <3>2 DEF LockKnown, LockSame
    <2> QED BY <2>1, <2>2, <2>3 DEF LockKnown
  <1>2. CASE s = t /\ Commit(t) BY <1>2, CommitEnds DEF LockKnown, Idle
  <1>3. CASE s = t /\ ~Commit(t)
    <2>1. Finds(txn[t], txn'[t]) /\ users' = users BY <1>3, MemoryAfter
    <2>2. txn'[t].pc = "bootstrap_update" /\ txn'[t].row # users[txn'[t].user] =>
            /\ txn[t].pc = "bootstrap_rotate" /\ txn'[t].user = txn[t].user
            /\ txn'[t].row = txn[t].row
      BY <2>1 DEF Finds
    <2>3. txn'[t].pc = "bootstrap_rotate" => txn'[t].row = users[txn'[t].user]
      BY <2>1 DEF Finds
    <2>4. txn'[t].pc = "login_user" =>
            /\ txn'[t].row = users[txn'[t].user]
            /\ txn'[t].expired <=> txn'[t].row.lockedUntil # 0
      BY <2>1 DEF Finds
    <2> QED BY <1>0, <1>3, <2>1, <2>2, <2>3, <2>4 DEF LockKnown
  <1> QED BY <1>1, <1>2, <1>3

LEMMA StrikesInvAlways == Spec /\ []LoginsApart => []StrikesInv
  <1>1. Init => StrikesInv
    <2>1. Init => StrikesCounted
      BY LimitsAssumption DEF Init, EmptyTable, StrikesCounted
    <2> QED BY <2>1 DEF Init, Idle, StrikesInv, LockKnown
  <1>2. TypeOK /\ StrikesInv /\ LoginsApart /\ [Next]_vars => StrikesInv'
    <2>1. QuietTables /\ StrikesInv => StrikesInv'
      BY DEF QuietTables, StrikesInv, StrikesCounted, LockKnown
    <2>2. ASSUME TypeOK, StrikesInv, LoginsApart, NEW t \in Threads, Step(t)
          PROVE  StrikesInv'
      <3>1. \A s \in Threads : LockKnown(txn[s])' BY <2>2, LocksKnown
      <3>2. StrikesCounted' BY <2>2, StrikesKept DEF StrikesInv
      <3> QED BY <3>1, <3>2 DEF StrikesInv
    <2> QED BY <2>1, <2>2, NextSteps
  <1> QED BY <1>1, <1>2, Typing, PTL DEF Spec

(* Every wrong password counts towards the lock, across expired locks,     *)
(* right passwords and the command's resets, as long as no login overlaps  *)
(* another of its user or the command's reset.                             *)
THEOREM FailuresCount == Spec /\ []LoginsApart => []EveryFailureCounts
  <1>1. StrikesInv => EveryFailureCounts
    BY DEF StrikesInv, StrikesCounted, EveryFailureCounts
  <1> QED BY <1>1, StrikesInvAlways, PTL

(***************************************************************************)
(* What every commit does to the roles and tenants that were there.        *)
(***************************************************************************)
LEMMA RolesMove ==
    ASSUME TypeOK, NEW t \in Threads, Step(t), NEW u \in DOMAIN users
    PROVE  \/ users'[u].role = users[u].role
           \/ /\ UpdateRoleCommit(t) /\ txn[t].user = u
              /\ users'[u].role = txn[t].new
  <1>1. CASE users' = users BY <1>1
  <1>2. CASE \A v \in DOMAIN users : Untouched(v) BY <1>2 DEF Untouched
  <1>3. CASE AuthCommit(t)
    BY <1>1, <1>2, <1>3, RegisterTouches, WriteLockKeeps
    DEF AuthCommit, LoginRefusedCommit, LoginWrongCommit, LoginOkCommit,
        RefreshCommit, LogoutCommit
  <1>4. CASE AdminCommit(t)
    <2>1. CASE UpdateRoleCommit(t)
      <3>1. /\ txn[t].user \in DOMAIN users
            /\ users' = [users EXCEPT
                    ![txn[t].user].role = Write(txn[t].old, txn[t].new, @)]
        BY <2>1, HeldUsers DEF UpdateRoleCommit
      <3>2. users[u] \in UserRow BY RowFacts
      <3>3. users'[txn[t].user].role =
                Write(txn[t].old, txn[t].new, users[txn[t].user].role)
        BY <3>1, RowFacts DEF UserRow
      <3> QED BY <2>1, <3>1, <3>3, UpdateRoleTouches DEF Write
    <2> QED
      BY <1>1, <1>2, <1>4, <2>1, CreateUserTouches, DeactivateKeeps
      DEF AdminCommit, CreateTenantCommit, UpdateTenantCommit
  <1>5. CASE BootstrapCommit(t)
    BY <1>2, <1>5, BootstrapCreateTouches, BootstrapUpdateKeeps DEF BootstrapCommit
  <1>6. CASE \E r : Hold(t, r) BY <1>1, <1>6, HoldKeeps
  <1> QED BY <1>3, <1>4, <1>5, <1>6, StepKinds DEF Commit

(* Every other step leaves the tenants in service that were.               *)
TenantsHold == \A n \in DOMAIN tenants : tenants[n].active => tenants'[n].active

LEMMA BootstrapHoldsTenants ==
    ASSUME TypeOK, NEW t \in Threads, BootstrapCommit(t)
    PROVE  TenantsHold
  <1>1. \A n \in DOMAIN tenants : tenants[n] \in TenantRow BY DEF TypeOK, TablesOK
  <1>2. ASSUME NEW ids PROVE \A n \in DOMAIN tenants :
            tenants[n].active => Reactivate(tenants, ids)[n].active
    BY <1>1 DEF Reactivate, TenantRow
  <1>3. CASE BootstrapUpdateCommit(t)
    BY <1>2, <1>3 DEF BootstrapUpdateCommit, TenantsHold
  <1>4. CASE BootstrapCreateCommit(t)
    <2>1. PICK n \in TenantIds :
            \/ /\ n \notin DOMAIN tenants
               /\ tenants' = Insert(tenants, n, [slug |-> txn[t].slug, active |-> TRUE])
            \/ tenants' = Reactivate(tenants, {n})
            \/ tenants' = tenants
      BY <1>4 DEF BootstrapCreateCommit
    <2> QED BY <1>2, <2>1 DEF Insert, TenantsHold
  <1> QED BY <1>3, <1>4 DEF BootstrapCommit

LEMMA OthersHoldTenants ==
    ASSUME TypeOK, NEW t \in Threads, Step(t), ~UpdateTenantCommit(t)
    PROVE  TenantsHold
  <1>1. CASE tenants' = tenants BY <1>1 DEF TenantsHold
  <1>2. CASE AuthCommit(t)
    BY <1>1, <1>2
    DEF AuthCommit, RegisterCommit, LoginRefusedCommit, LoginWrongCommit,
        LoginOkCommit, RefreshCommit, LogoutCommit, Insert, TenantsHold
  <1>3. CASE AdminCommit(t)
    BY <1>1, <1>3
    DEF AdminCommit, CreateUserCommit, UpdateRoleCommit, DeactivateCommit,
        CreateTenantCommit, Insert, TenantsHold
  <1>4. CASE \E r : Hold(t, r) BY <1>1, <1>4, HoldKeeps
  <1> QED BY <1>2, <1>3, <1>4, BootstrapHoldsTenants, StepKinds DEF Commit

(***************************************************************************)
(* Tenants go out of service only when an entry asks for it.               *)
(***************************************************************************)
AsksFor(e, n) ==
    /\ e.resource = n
    /\ \/ e.action = "TENANT_UPDATED" /\ e.detail = <<"inactive">>
       \/ e.action = "TENANT_CREATED" /\ e.detail = <<"system_admin">>
Asked(n) == \E e \in audit : AsksFor(e, n)

LEMMA NewTenantsAsk ==
    ASSUME TypeOK, NEW t \in Threads, Step(t),
           NEW n \in DOMAIN tenants' \ DOMAIN tenants, ~tenants'[n].active
    PROVE  Asked(n)'
  <1>1. CASE RegisterCommit(t) BY <1>1 DEF RegisterCommit, Insert
  <1>2. CASE CreateTenantCommit(t)
    <2> DEFINE e == Entry("TENANT_CREATED", Some(n), Some(txn[t].actor.user), n,
                          <<"system_admin">>)
    <2>1. e \in audit' BY <1>2 DEF CreateTenantCommit, Insert
    <2>2. AsksFor(e, n) BY DEF Entry, AsksFor
    <2> HIDE DEF e
    <2> QED BY <2>1, <2>2 DEF Asked
  <1>3. CASE BootstrapCreateCommit(t)
    BY <1>3 DEF BootstrapCreateCommit, Insert, Reactivate
  <1>4. DOMAIN tenants' # DOMAIN tenants OBVIOUS
  <1>5. CASE \E r : Hold(t, r) BY <1>4, <1>5, HoldKeeps
  <1> QED
    BY <1>1, <1>2, <1>3, <1>4, <1>5, StepKinds
    DEF Commit, AuthCommit, LoginRefusedCommit, LoginWrongCommit, LoginOkCommit,
        RefreshCommit, LogoutCommit, AdminCommit, CreateUserCommit,
        UpdateRoleCommit, DeactivateCommit, UpdateTenantCommit, BootstrapCommit,
        BootstrapUpdateCommit, Reactivate

(* An update that takes a tenant out of service names the flag.            *)
LEMMA UpdatesAsk ==
    ASSUME TypeOK, Shapes, NEW t \in Threads, UpdateTenantCommit(t),
           NEW n \in DOMAIN tenants, tenants[n].active, ~tenants'[n].active
    PROVE  Asked(n)'
  <1> DEFINE x == txn[t]
             e == TenantUpdateEntry(x)
  <1>1. /\ tenants' = [tenants EXCEPT ![x.tenant].active =
                IF x.active = None THEN @ ELSE Write(x.loaded, TRUE \in x.active, @)]
        /\ audit' = IF x.active = None /\ ~x.named THEN audit ELSE audit \cup {e}
        /\ x.active \in Flags
    BY DEF UpdateTenantCommit, Shapes, Shape
  <1>2. tenants[n] \in TenantRow BY DEF TypeOK, TablesOK
  <1>3. x.tenant = n BY <1>1
  <1>4. /\ Some(FALSE) # None /\ Some(FALSE) # Some(TRUE)
        /\ (TRUE \in Some(TRUE)) = TRUE
    <2>1. TRUE \in Some(TRUE) /\ ~(TRUE \in Some(FALSE)) BY DEF Some
    <2> QED BY <2>1 DEF Some, None
  <1>5. x.active = Some(FALSE)
    BY <1>1, <1>2, <1>3, <1>4 DEF Flags, Write, TenantRow
  <1>6. e \in audit' BY <1>1, <1>4, <1>5
  <1>7. FlagDetail(x.active) = <<"inactive">> BY <1>4, <1>5 DEF FlagDetail
  <1>8. AsksFor(e, n) BY <1>3, <1>7 DEF TenantUpdateEntry, Entry, AsksFor
  <1> HIDE DEF e
  <1> QED BY <1>6, <1>8 DEF Asked

LEMMA SuspensionsStep ==
    ASSUME TypeOK, Shapes, SuspensionsAreRecorded, [Next]_vars
    PROVE  SuspensionsAreRecorded'
  <1>1. CASE QuietTables BY <1>1 DEF QuietTables, SuspensionsAreRecorded
  <1>2. ASSUME NEW t \in Threads, Step(t) PROVE SuspensionsAreRecorded'
    <2>1. ASSUME NEW n \in DOMAIN tenants', ~tenants'[n].active PROVE Asked(n)'
      <3>1. CASE n \notin DOMAIN tenants BY <1>2, <2>1, <3>1, NewTenantsAsk
      <3>2. CASE n \in DOMAIN tenants /\ ~tenants[n].active
        <4>1. Asked(n) BY <3>2 DEF SuspensionsAreRecorded, Asked, AsksFor
        <4>2. audit \subseteq audit' BY <1>2, AuditGrows
        <4> QED BY <4>1, <4>2 DEF Asked
      <3>3. CASE n \in DOMAIN tenants /\ tenants[n].active
        BY <1>2, <2>1, <3>3, UpdatesAsk, OthersHoldTenants DEF TenantsHold
      <3> QED BY <3>1, <3>2, <3>3
    <2> QED BY <2>1 DEF SuspensionsAreRecorded, Asked, AsksFor
  <1> QED BY <1>1, <1>2, NextSteps

(* No tenant is out of service without an entry that asked for it, however *)
(* updates, creations and the operator's command overlap.                  *)
THEOREM SuspensionsRecorded == Spec => []SuspensionsAreRecorded
  <1>1. Init => SuspensionsAreRecorded
    BY DEF Init, EmptyTable, SuspensionsAreRecorded
  <1>2. TypeOK /\ Shapes /\ SuspensionsAreRecorded /\ [Next]_vars
            => SuspensionsAreRecorded'
    BY SuspensionsStep
  <1> QED BY <1>1, <1>2, Typing, ShapesInvariant, PTL DEF Spec

(***************************************************************************)
(* Principals are entitled to what their requests do, as long as no request *)
(* overlaps another that takes its principal's role, account or tenant.    *)
(***************************************************************************)
ActorsEntitled ==
    \A t \in Threads : ActsAsPrincipal(t) => Entitled(txn[t].actor)

LEMMA EntitledStays ==
    ASSUME TypeOK, Shapes, NEW t \in Threads, Step(t), NEW actor,
           actor.user \in DOMAIN users, actor.tenant \in DOMAIN tenants,
           Entitled(actor), ~Unseats(t, actor)
    PROVE  Entitled(actor)'
  <1>1. PICK u \in DOMAIN users :
            u = actor.user /\ users[u].active /\ users[u].role = actor.role
    BY DEF Entitled
  <1>2. users'[u].active
    <2>1. CASE DeactivateCommit(t)
      <3>1. txn[t].user # u BY <1>1, <2>1 DEF DeactivateCommit, Unseats
      <3> QED BY <1>1, <2>1, <3>1, DeactivateTouches
    <2>2. CASE ActiveStay BY <1>1, <2>2 DEF ActiveStay
    <2> QED BY <2>1, <2>2, UsersStayActive
  <1>3. users'[u].role = actor.role
    BY <1>1, RolesMove DEF Unseats, UpdateRoleCommit
  <1>4. PICK n \in DOMAIN tenants : n = actor.tenant /\ tenants[n].active
    BY DEF Entitled
  <1>5. tenants'[n].active
    <2>1. CASE UpdateTenantCommit(t)
      <3> DEFINE x == txn[t]
      <3>1. /\ tenants' = [tenants EXCEPT ![x.tenant].active =
                    IF x.active = None THEN @
                    ELSE Write(x.loaded, TRUE \in x.active, @)]
            /\ x.pc = "update_tenant" /\ x.active \in Flags
        BY <2>1 DEF UpdateTenantCommit, Shapes, Shape
      <3>2. x.tenant # n => tenants'[n] = tenants[n] BY <3>1
      <3>3. x.tenant = n => x.active \in {None, Some(TRUE)}
        BY <1>4, <3>1 DEF Unseats, Flags
      <3>4. tenants[n] \in TenantRow BY DEF TypeOK, TablesOK
      <3>5. x.active = Some(TRUE) => (TRUE \in x.active) = TRUE BY DEF Some
      <3> QED BY <1>4, <3>1, <3>2, <3>3, <3>4, <3>5 DEF Write, TenantRow
    <2>2. CASE ~UpdateTenantCommit(t)
      BY <1>4, <2>2, OthersHoldTenants DEF TenantsHold
    <2> QED BY <2>1, <2>2
  <1> QED BY <1>1, <1>2, <1>3, <1>4, <1>5 DEF Entitled

LEMMA ActorsEntitledStep ==
    ASSUME TypeOK, Shapes, ActorsEntitled, ActorsApart, NEW t \in Threads, Step(t)
    PROVE  ActorsEntitled'
  <1> SUFFICES ASSUME NEW s \in Threads, ActsAsPrincipal(s)'
               PROVE  Entitled(txn[s].actor)'
    BY DEF ActorsEntitled
  <1>1. CASE s # t
    <2>1. txn'[s] = txn[s] /\ ActsAsPrincipal(s)
      BY <1>1, MemoryAfter DEF ActsAsPrincipal
    <2>2. PICK actor : actor = txn[s].actor /\ actor = txn'[s].actor BY <2>1
    <2>3. actor.user \in DOMAIN users /\ actor.tenant \in DOMAIN tenants
      BY <2>1, <2>2 DEF ActsAsPrincipal, TypeOK, TxnOK, ActorOK
    <2>4. Entitled(actor) /\ ~Unseats(t, actor)
      BY <1>1, <2>1, <2>2 DEF ActorsEntitled, ActorsApart
    <2>5. Entitled(actor)' BY <2>3, <2>4, EntitledStays
    <2> QED BY <2>2, <2>5 DEF Entitled
  <1>2. CASE s = t /\ Commit(t)
    BY <1>2, CommitEnds DEF ActsAsPrincipal, PrincipalPcs, Idle
  <1>3. CASE s = t /\ ~Commit(t)
    <2>1. Finds(txn[t], txn'[t]) /\ users' = users /\ tenants' = tenants
      BY <1>3, MemoryAfter
    <2>2. Entitled(txn'[t].actor)
      BY <1>3, <2>1 DEF Finds, ActsAsPrincipal, ActorsEntitled
    <2> QED BY <1>3, <2>1, <2>2 DEF Entitled
  <1> QED BY <1>1, <1>2, <1>3

LEMMA ActorsEntitledAlways == Spec /\ []ActorsApart => []ActorsEntitled
  <1>1. Init => ActorsEntitled
    BY DEF Init, Idle, ActorsEntitled, ActsAsPrincipal, PrincipalPcs
  <1>2. TypeOK /\ Shapes /\ ActorsEntitled /\ ActorsApart /\ [Next]_vars
            => ActorsEntitled'
    <2>1. QuietTables /\ ActorsEntitled => ActorsEntitled'
      BY DEF QuietTables, ActorsEntitled, ActsAsPrincipal, Entitled
    <2> QED BY <2>1, NextSteps, ActorsEntitledStep
  <1> QED BY <1>1, <1>2, Typing, ShapesInvariant, PTL DEF Spec

(* A request acts only for a principal that still is what its access token *)
(* says, however long ago the token was issued, as long as it overlaps no  *)
(* other request that takes the principal's role, account or tenant.       *)
THEOREM ActorsStayEntitled == Spec /\ []ActorsApart => ActorsAreEntitled
  <1> DEFINE A == \A t \in Threads :
                    ActsAsPrincipal(t) /\ txn'[t] # txn[t] =>
                        LET actor == txn[t].actor
                        IN  /\ users[actor.user].active
                            /\ users[actor.user].role = actor.role
                            /\ tenants[actor.tenant].active
  <1>1. ActorsEntitled /\ [Next]_vars => [A]_vars
    BY DEF ActorsEntitled, Entitled
  <1> QED BY <1>1, ActorsEntitledAlways, PTL DEF Spec, ActorsAreEntitled

(***************************************************************************)
(* System administrators are protected.                                    *)
(***************************************************************************)

(* No check of a system administrator lets a request in.                   *)
LEMMA ShieldStays ==
    ASSUME TypeOK, [Next]_vars, NEW u \in DOMAIN users, Shielded(u),
           users'[u].role = "SYS_ADMIN"
    PROVE  Managing(u)' = {}
  <1> SUFFICES ASSUME NEW s \in Threads, s \in Managing(u)' PROVE FALSE
    BY DEF Managing
  <1>1. CASE QuietTables BY <1>1 DEF QuietTables, Shielded, Managing
  <1>2. ASSUME NEW t \in Threads, Step(t) PROVE FALSE
    <2>1. CASE s # t BY <1>2, <2>1, MemoryAfter DEF Shielded, Managing
    <2>2. CASE s = t /\ Commit(t) BY <1>2, <2>2, CommitEnds DEF Managing, Idle
    <2>3. CASE s = t /\ ~Commit(t)
      <3>1. Finds(txn[t], txn'[t]) BY <1>2, <2>3, MemoryAfter
      <3>2. CASE txn'[t].pc = "deactivate"
        <4>1. t \in Managing(u)
          BY <2>3, <3>1, <3>2 DEF Managing, Finds, PrincipalPcs
        <4> QED BY <4>1 DEF Shielded
      <3>3. CASE txn'[t].pc # "deactivate"
        BY <2>3, <3>1, <3>3 DEF Managing, Finds, MayHandleRole, Shielded
      <3> QED BY <3>2, <3>3
    <2> QED BY <2>1, <2>2, <2>3
  <1> QED BY <1>1, <1>2, NextSteps

LEMMA ShieldHolds ==
    ASSUME TypeOK, NEW t \in Threads, Step(t), ActsAsPrincipal(t),
           txn[t].actor.role # "SYS_ADMIN", NEW u \in DOMAIN users, Shielded(u)
    PROVE  users'[u] = users[u]
  <1>1. t \notin Managing(u) BY DEF Shielded
  <1>2. CASE \E r : Hold(t, r) BY <1>2, HoldKeeps
  <1>3. CASE CreateUserCommit(t) BY <1>3, CreateUserTouches DEF Untouched
  <1>4. CASE UpdateRoleCommit(t)
    <2>1. u # txn[t].user BY <1>1, <1>4 DEF UpdateRoleCommit, Managing
    <2> QED BY <1>4, <2>1, UpdateRoleTouches
  <1>5. CASE DeactivateCommit(t)
    <2>1. u # txn[t].user BY <1>1, <1>5 DEF DeactivateCommit, Managing
    <2> QED BY <1>5, <2>1, DeactivateTouches
  <1>6. CASE CreateTenantCommit(t) \/ UpdateTenantCommit(t)
    BY <1>6 DEF CreateTenantCommit, UpdateTenantCommit
  <1>7. ~AuthCommit(t)
    BY DEF ActsAsPrincipal, PrincipalPcs, AuthCommit, RegisterCommit,
        LoginRefusedCommit, LoginWrongCommit, LoginOkCommit, RefreshCommit,
        LogoutCommit
  <1>8. ~BootstrapCommit(t)
    BY DEF ActsAsPrincipal, PrincipalPcs, BootstrapCommit, BootstrapCreateCommit,
        BootstrapUpdateCommit
  <1> QED
    BY <1>2, <1>3, <1>4, <1>5, <1>6, <1>7, <1>8, StepKinds DEF Commit, AdminCommit

(* Once the requests that had checked a user before its promotion are      *)
(* over, nobody below a system administrator changes or deactivates it,    *)
(* nor passes the check, whatever else overlaps.                           *)
THEOREM SysAdminsProtected == Spec => SysAdminsAreProtected
  <1> DEFINE A == \A u \in DOMAIN users : Shielded(u) =>
                    /\ users'[u].role # "SYS_ADMIN" \/ Shielded(u)'
                    /\ \A t \in Threads :
                        ActsAsPrincipal(t) /\ txn[t].actor.role # "SYS_ADMIN"
                          /\ txn'[t] # txn[t]
                        => users'[u] = users[u]
  <1>1. TypeOK /\ [Next]_vars => [A]_vars
    <2> SUFFICES ASSUME TypeOK, [Next]_vars, NEW u \in DOMAIN users, Shielded(u)
                 PROVE  /\ users'[u].role # "SYS_ADMIN" \/ Shielded(u)'
                        /\ \A t \in Threads :
                            ActsAsPrincipal(t) /\ txn[t].actor.role # "SYS_ADMIN"
                              /\ txn'[t] # txn[t]
                            => users'[u] = users[u]
      OBVIOUS
    <2>1. users'[u].role # "SYS_ADMIN" \/ Shielded(u)'
      BY ShieldStays DEF Shielded
    <2>2. ASSUME NEW t \in Threads, ActsAsPrincipal(t),
                 txn[t].actor.role # "SYS_ADMIN", txn'[t] # txn[t]
          PROVE  users'[u] = users[u]
      BY <2>2, OwnStep, ShieldHolds
    <2> QED BY <2>1, <2>2
  <1> QED BY <1>1, Typing, PTL DEF Spec, SysAdminsAreProtected

(***************************************************************************)
(* The ledger of sessions, as long as none of the requests that concern    *)
(* sessions overlap: then the token of a pending refresh is still good.    *)
(***************************************************************************)
RefreshesGood ==
    \A t \in Threads : txn[t].pc = "refresh" => ~tokens[txn[t].token].revoked

(* Who revokes a token.                                                    *)
LEMMA WhoRevokes ==
    ASSUME TypeOK, NEW t \in Threads, Step(t), NEW k \in DOMAIN tokens,
           ~tokens[k].revoked, tokens'[k].revoked
    PROVE  \/ txn[t].pc \in {"refresh", "logout"} /\ txn[t].token = k
           \/ txn[t].pc \in {"deactivate", "bootstrap_update"} /\ k \in txn[t].tokens
  <1>1. tokens' # tokens OBVIOUS
  <1>2. CASE AuthCommit(t)
    <2>1. ~RegisterCommit(t) /\ ~LoginOkCommit(t)
      BY RegisterOpens, LoginOpens DEF SignsUp, LogsIn, Opened
    <2>2. CASE RefreshCommit(t)
      BY <2>2, RefreshRotates DEF RefreshCommit, Refreshes, Rotated
    <2>3. CASE LogoutCommit(t)
      <3>1. Closed({txn[t].token}) BY <2>3, RevokedCloses DEF LogoutCommit
      <3> QED BY <2>3, <3>1 DEF LogoutCommit, Closed
    <2> QED
      BY <1>1, <1>2, <2>1, <2>2, <2>3
      DEF AuthCommit, LoginRefusedCommit, LoginWrongCommit
  <1>3. CASE AdminCommit(t)
    <2>1. CASE DeactivateCommit(t)
      <3>1. Closed(txn[t].tokens) BY <2>1, RevokedCloses DEF DeactivateCommit
      <3> QED BY <2>1, <3>1 DEF DeactivateCommit, Closed
    <2> QED
      BY <1>1, <1>3, <2>1
      DEF AdminCommit, CreateUserCommit, UpdateRoleCommit, CreateTenantCommit,
          UpdateTenantCommit
  <1>4. CASE BootstrapCommit(t)
    <2>1. CASE BootstrapUpdateCommit(t)
      <3>1. Closed(txn[t].tokens) BY <2>1, RevokedCloses DEF BootstrapUpdateCommit
      <3> QED BY <2>1, <3>1 DEF BootstrapUpdateCommit, Closed
    <2> QED BY <1>1, <1>4, <2>1 DEF BootstrapCommit, BootstrapCreateCommit
  <1>5. CASE \E r : Hold(t, r) BY <1>1, <1>5, HoldKeeps
  <1> QED BY <1>2, <1>3, <1>4, <1>5, StepKinds DEF Commit

LEMMA RefreshesGoodStep ==
    ASSUME TypeOK, Shapes, MemoryInScope, RefreshesGood, SessionsApart,
           NEW t \in Threads, Step(t)
    PROVE  RefreshesGood'
  <1> SUFFICES ASSUME NEW s \in Threads, txn'[s].pc = "refresh"
               PROVE  ~tokens'[txn'[s].token].revoked
    BY DEF RefreshesGood
  <1>1. CASE s # t
    <2>1. txn'[s] = txn[s] BY <1>1, MemoryAfter
    <2>2. PICK k \in DOMAIN tokens :
            k = txn[s].token /\ tokens[k].user = txn[s].user /\ ~tokens[k].revoked
      BY <2>1, HeldTokens DEF RefreshesGood
    <2>3. ~(txn[t].pc \in {"refresh", "logout"} /\ txn[t].token = k)
      BY <1>1, <2>1, <2>2 DEF SessionsApart, RefreshesApart, LogoutsApart
    <2>4. ~(txn[t].pc = "deactivate" /\ k \in txn[t].tokens)
      BY <2>1, <2>2
      DEF SessionsApart, DeactivationsApart, EntersAs, MemoryInScope, InScope
    <2>5. ~(txn[t].pc = "bootstrap_update" /\ k \in txn[t].tokens)
      BY <2>1, <2>2
      DEF SessionsApart, RotationsApart, Rotates, EntersAs, MemoryInScope, InScope,
          Shapes, Shape
    <2> QED BY <2>1, <2>2, <2>3, <2>4, <2>5, WhoRevokes
  <1>2. CASE s = t /\ Commit(t) BY <1>2, CommitEnds DEF Idle
  <1>3. CASE s = t /\ ~Commit(t) BY <1>3, MemoryAfter DEF Finds
  <1> QED BY <1>1, <1>2, <1>3

(* All that a commit relies on.                                            *)
SessionInv ==
    /\ Shapes /\ MemoryInScope /\ FamiliesOwned
    /\ RefreshInv /\ LogoutInv /\ DeactivationInv /\ RotationInv /\ RefreshesGood

LEMMA SessionInvAlways == Spec /\ []SessionsApart => []SessionInv
  <1>1. Init => RefreshesGood BY DEF Init, Idle, RefreshesGood
  <1>2. TypeOK /\ Shapes /\ MemoryInScope /\ RefreshesGood /\ SessionsApart
            /\ [Next]_vars => RefreshesGood'
    <2>1. QuietTables /\ RefreshesGood => RefreshesGood'
      BY DEF QuietTables, RefreshesGood
    <2> QED BY <2>1, NextSteps, RefreshesGoodStep
  <1>3. SessionsApart =>
            RefreshesApart /\ LogoutsApart /\ DeactivationsApart /\ RotationsApart
    BY DEF SessionsApart
  <1>4. Shapes /\ MemoryInScope /\ FamiliesOwned /\ RefreshInv /\ LogoutInv
            /\ DeactivationInv /\ RotationInv /\ RefreshesGood => SessionInv
    BY DEF SessionInv
  <1> QED
    BY <1>1, <1>2, <1>3, <1>4, Typing, ShapesInvariant, MemoryInScopeInvariant,
       FamiliesInvariant, RefreshInvAlways, LogoutInvAlways,
       DeactivationInvAlways, RotationInvAlways, PTL
    DEF Spec

(* What the ledger sees of the tables.                                     *)
Owner == [f \in Sessions |-> tokens[f].user]
Good(f) == {k \in DOMAIN tokens : tokens[k].family = f /\ ~tokens[k].revoked}
Current == [f \in Sessions |-> Good(f)]
OutUsers == {u \in DOMAIN users : ~users[u].active}

LedgerSame ==
    /\ DOMAIN tokens' = DOMAIN tokens /\ Owner' = Owner /\ Current' = Current
    /\ OutUsers' = OutUsers

LEMMA LedgerStutters == ASSUME LedgerSame PROVE UNCHANGED Ledger!vars
  BY DEF LedgerSame, Ledger!vars, Owner, Current, Good, OutUsers

LEMMA OpenedInLedger ==
    ASSUME TypeOK, FamiliesOwned, NEW k, Opened(k),
           tokens'[k].user \in UserIds, tokens'[k].user \notin OutUsers,
           OutUsers' = OutUsers
    PROVE  Ledger!Next
  <1>0. PICK u \in UserIds : u = tokens'[k].user OBVIOUS
  <1>1. Sessions' = Sessions \cup {k} /\ k \notin Sessions
    BY DEF Opened, Sessions
  <1>2. \A f \in DOMAIN tokens : Good(f)' = Good(f)
    BY DEF Opened, Good
  <1>3. Good(k)' = {k}
    BY DEF Opened, Good, FamiliesOwned
  <1>4. Owner' = [f \in Sessions \cup {k} |-> IF f = k THEN u ELSE Owner[f]]
    BY <1>0, <1>1 DEF Owner, Opened, Sessions
  <1>5. Current' = [f \in Sessions \cup {k} |-> IF f = k THEN {k} ELSE Current[f]]
    BY <1>1, <1>2, <1>3 DEF Current, Sessions
  <1>6. Owner' = Ledger!Extend(Owner, k, u) /\ Current' = Ledger!Extend(Current, k, {k})
    BY <1>4, <1>5 DEF Ledger!Extend, Owner, Current
  <1>7. k \notin DOMAIN tokens /\ DOMAIN tokens' = DOMAIN tokens \cup {k}
    BY DEF Opened
  <1>8. Ledger!Open(k, u) /\ k \in TokenIds
    BY <1>0, <1>6, <1>7 DEF Opened, Ledger!Open, Owner, Current, Good, OutUsers
  <1> QED BY <1>8 DEF Ledger!Next

(* What a session and its tokens have in common.                           *)
LEMMA FamilyFacts ==
    ASSUME TypeOK, FamiliesOwned, NEW k \in DOMAIN tokens, NEW f,
           f = tokens[k].family
    PROVE  f \in Sessions /\ Owner[f] = tokens[k].user
  BY DEF FamiliesOwned, Sessions, Owner

(* Revocation leaves the sessions and their owners.                        *)
LEMMA ClosedInLedger ==
    ASSUME NEW ids, Closed(ids)
    PROVE  /\ DOMAIN tokens' = DOMAIN tokens /\ Sessions' = Sessions
           /\ Owner' = Owner
           /\ Current' = [f \in Sessions |-> Current[f] \ ids]
  <1>1. DOMAIN tokens' = DOMAIN tokens /\ Sessions' = Sessions
    BY DEF Closed, Sessions
  <1>2. Owner' = Owner BY <1>1 DEF Closed, Owner, Sessions
  <1>3. \A f : Good(f)' = Good(f) \ ids BY DEF Closed, Good
  <1> QED BY <1>1, <1>2, <1>3 DEF Current

LEMMA RotatedInLedger ==
    ASSUME TypeOK, FamiliesOwned, NEW k, NEW new, Rotated(k, new), Alone(k),
           ~tokens[k].revoked, users[tokens[k].user].active, users' = users
    PROVE  Ledger!Next
  <1>1. PICK f \in DOMAIN tokens : f = tokens[k].family
    BY DEF Rotated, TypeOK, ForeignKeysOK
  <1>2. /\ f \in Sessions /\ Owner[f] = tokens[k].user
        /\ Owner[f] \notin OutUsers
    BY <1>1, FamilyFacts DEF Rotated, OutUsers
  <1>3. Sessions' = Sessions
    BY DEF Rotated, Sessions, FamiliesOwned
  <1>4. Owner' = Owner BY <1>3 DEF Rotated, Owner, Sessions
  <1>5. Good(f)' = {new} BY <1>1 DEF Rotated, Good, Alone
  <1>6. \A g : g # f => Good(g)' = Good(g)
    BY <1>1 DEF Rotated, Good
  <1>7. k \in Good(f) BY <1>1 DEF Rotated, Good
  <1>8. /\ Current' = [Current EXCEPT ![f] = {new}]
        /\ f \in DOMAIN Current /\ Current[f] # {}
    BY <1>2, <1>3, <1>5, <1>6, <1>7 DEF Current
  <1>9. Ledger!Rotate(f, new) /\ new \in TokenIds
    BY <1>2, <1>4, <1>8
    DEF Rotated, Ledger!Rotate, Owner, Current, Good, OutUsers
  <1> QED BY <1>2, <1>9 DEF Ledger!Next

LEMMA LogoutInLedger ==
    ASSUME TypeOK, FamiliesOwned, NEW k \in DOMAIN tokens, Alone(k), Closed({k}),
           users' = users
    PROVE  Ledger!Next
  <1>1. PICK f \in DOMAIN tokens : f = tokens[k].family
    BY DEF TypeOK, ForeignKeysOK
  <1>2. f \in Sessions BY <1>1, FamilyFacts
  <1>3. Good(f) \ {k} = {} BY <1>1 DEF Good, Alone
  <1>4. \A g : g # f => Good(g) \ {k} = Good(g) BY <1>1 DEF Good
  <1>5. Current' = [Current EXCEPT ![f] = {}]
    <2>1. \A g \in Sessions : Current[g] \ {k} = IF g = f THEN {} ELSE Current[g]
      BY <1>3, <1>4 DEF Current
    <2>2. Current = [g \in Sessions |-> Current[g]] BY DEF Current
    <2>3. Current' = [g \in Sessions |-> Current[g] \ {k}] BY ClosedInLedger
    <2> QED BY <1>2, <2>1, <2>2, <2>3
  <1>6. Ledger!Close(f)
    BY <1>5, ClosedInLedger DEF Ledger!Close, Owner, Current, Good, OutUsers
  <1> QED BY <1>2, <1>6 DEF Ledger!Next

CloseAll(u) == [f \in DOMAIN Current |-> IF Owner[f] = u THEN {} ELSE Current[f]]

(* The user's good tokens are among those closed, and nobody else's are.   *)
LEMMA AllClosedInLedger ==
    ASSUME TypeOK, FamiliesOwned, NEW u, NEW ids, Closed(ids),
           UnrevokedTokens(u) \subseteq ids, \A k \in ids : tokens[k].user = u
    PROVE  Current' = CloseAll(u)
  <1>1. ASSUME NEW f \in Sessions
        PROVE  Good(f) \ ids = IF Owner[f] = u THEN {} ELSE Good(f)
    <2>1. \A k \in Good(f) : tokens[k].user = Owner[f]
      BY FamilyFacts DEF Good
    <2> QED BY <2>1 DEF Good, UnrevokedTokens
  <1> QED BY <1>1, ClosedInLedger DEF CloseAll, Current

LEMMA BarredInLedger ==
    ASSUME NEW u \in UserIds, OutUsers' = OutUsers \cup {u}, Current' = CloseAll(u),
           Owner' = Owner, DOMAIN tokens' = DOMAIN tokens
    PROVE  Ledger!Next
  <1>1. Ledger!Bar(u)
    BY DEF Ledger!Bar, Ledger!CloseAll, CloseAll, Owner, Current, Good, OutUsers
  <1> QED BY <1>1 DEF Ledger!Next

LEMMA ReadmittedInLedger ==
    ASSUME NEW u \in UserIds, OutUsers' = OutUsers \ {u},
           Current' = Current \/ Current' = CloseAll(u),
           Owner' = Owner, DOMAIN tokens' = DOMAIN tokens
    PROVE  Ledger!Next
  <1>1. Ledger!Readmit(u)
    BY DEF Ledger!Readmit, Ledger!CloseAll, CloseAll, Owner, Current, Good, OutUsers
  <1> QED BY <1>1 DEF Ledger!Next

(* The tokens are left alone and nobody is barred or readmitted.           *)
LEMMA QuietInLedger ==
    ASSUME tokens' = tokens, OutUsers' = OutUsers PROVE UNCHANGED Ledger!vars
  <1>1. LedgerSame BY DEF LedgerSame, Owner, Current, Good, Sessions
  <1> QED BY <1>1, LedgerStutters

LEMMA NewUserOut ==
    ASSUME NEW u, NEW row, u \notin DOMAIN users, users' = Insert(users, u, row),
           row.active \in BOOLEAN
    PROVE  OutUsers' = IF row.active THEN OutUsers ELSE OutUsers \cup {u}
  BY DEF Insert, OutUsers

LEMMA RegisterInLedger ==
    ASSUME TypeOK, FamiliesOwned, NEW t \in Threads, RegisterCommit(t)
    PROVE  Ledger!Next
  <1> DEFINE row(n) == [tenant |-> n, email |-> txn[t].email,
                        password |-> txn[t].password, role |-> "TENANT_ADMIN",
                        active |-> TRUE, failed |-> 0, lockedUntil |-> 0]
  <1>1. PICK n \in TenantIds, u \in UserIds \ DOMAIN users :
            users' = Insert(users, u, row(n))
    BY DEF RegisterCommit
  <1>2. row(n).active = TRUE OBVIOUS
  <1> HIDE DEF row
  <1>3. OutUsers' = OutUsers BY <1>1, <1>2, NewUserOut
  <1>4. PICK k : SignsUp(t, k) BY RegisterOpens
  <1>5. tokens'[k].user \in UserIds /\ tokens'[k].user \notin DOMAIN users
    BY <1>1, <1>4 DEF SignsUp, Insert
  <1> QED BY <1>3, <1>4, <1>5, OpenedInLedger DEF SignsUp, OutUsers

LEMMA LoginInLedger ==
    ASSUME TypeOK, SessionInv, NEW t \in Threads, LoginOkCommit(t)
    PROVE  Ledger!Next
  <1>1. PICK k : LogsIn(t, k) BY LoginOpens
  <1>2. txn[t].user \in DOMAIN users /\ users[txn[t].user].active
    BY HeldUsers DEF LoginOkCommit, SessionInv, DeactivationInv
  <1>3. txn[t].user \in UserIds BY <1>2 DEF TypeOK, TablesOK
  <1>4. OutUsers' = OutUsers BY LoginTouches DEF OutUsers
  <1> QED
    BY <1>1, <1>2, <1>3, <1>4, OpenedInLedger DEF LogsIn, OutUsers, SessionInv

LEMMA RefreshInLedger ==
    ASSUME TypeOK, SessionInv, NEW t \in Threads, RefreshCommit(t)
    PROVE  Ledger!Next
  <1>1. PICK new : Rotated(txn[t].token, new)
    BY RefreshRotates DEF Refreshes
  <1>2. txn[t].pc = "refresh" /\ users' = users BY DEF RefreshCommit
  <1>3. /\ Alone(txn[t].token) /\ ~tokens[txn[t].token].revoked
        /\ users[tokens[txn[t].token].user].active
    BY <1>2, HeldTokens DEF SessionInv, RefreshInv, RefreshesGood, DeactivationInv
  <1> QED BY <1>1, <1>2, <1>3, RotatedInLedger DEF SessionInv

LEMMA CreateUserInLedger ==
    ASSUME TypeOK, NEW t \in Threads, CreateUserCommit(t)
    PROVE  Ledger!Next \/ UNCHANGED Ledger!vars
  <1> DEFINE row == [tenant |-> txn[t].tenant, email |-> txn[t].email,
                     password |-> txn[t].password, role |-> txn[t].role,
                     active |-> txn[t].active, failed |-> 0, lockedUntil |-> 0]
  <1>1. PICK u \in UserIds \ DOMAIN users : users' = Insert(users, u, row)
    BY DEF CreateUserCommit
  <1>2. tokens' = tokens BY DEF CreateUserCommit
  <1>3. row.active = txn[t].active /\ row.active \in BOOLEAN
    BY DEF CreateUserCommit, TypeOK, TxnOK
  <1> HIDE DEF row
  <1>4. CASE row.active
    BY <1>1, <1>2, <1>3, <1>4, NewUserOut, QuietInLedger
  <1>5. CASE ~row.active
    <2>1. OutUsers' = OutUsers \cup {u} BY <1>1, <1>3, <1>5, NewUserOut
    <2>2. \A f \in Sessions : Owner[f] # u
      BY DEF Owner, Sessions, TypeOK, ForeignKeysOK
    <2>3. Current = CloseAll(u) BY <2>2 DEF CloseAll, Current
    <2>4. Owner' = Owner /\ Current' = Current /\ DOMAIN tokens' = DOMAIN tokens
      BY <1>2 DEF Owner, Current, Good, Sessions
    <2> QED BY <2>1, <2>3, <2>4, BarredInLedger
  <1> QED BY <1>4, <1>5

LEMMA DeactivateInLedger ==
    ASSUME TypeOK, SessionInv, NEW t \in Threads, DeactivateCommit(t)
    PROVE  Ledger!Next
  <1>1. PICK u \in DOMAIN users : u = txn[t].user
    BY HeldUsers DEF DeactivateCommit
  <1>2. u \in UserIds BY DEF TypeOK, TablesOK
  <1>3. OutUsers' = OutUsers \cup {u} BY <1>1, DeactivateTouches DEF OutUsers
  <1>4. Closed(txn[t].tokens) BY RevokedCloses DEF DeactivateCommit
  <1>5. /\ UnrevokedTokens(u) \subseteq txn[t].tokens
        /\ \A k \in txn[t].tokens : tokens[k].user = u
    BY <1>1
    DEF DeactivateCommit, SessionInv, DeactivationInv, MemoryInScope, InScope
  <1>6. Current' = CloseAll(u) BY <1>4, <1>5, AllClosedInLedger DEF SessionInv
  <1> QED BY <1>2, <1>3, <1>4, <1>6, ClosedInLedger, BarredInLedger

(* Closing tokens none of which is good.                                   *)
LEMMA NoneClosed ==
    ASSUME NEW ids, Closed(ids), \A k \in ids \cap DOMAIN tokens : tokens[k].revoked
    PROVE  Current' = Current
  <1>1. \A f \in Sessions : Current[f] \ ids = Current[f] BY DEF Current, Good
  <1>2. Current = [f \in Sessions |-> Current[f]] BY DEF Current
  <1> QED BY <1>1, <1>2, ClosedInLedger

LEMMA BootstrapUpdateInLedger ==
    ASSUME TypeOK, SessionInv, NEW t \in Threads, BootstrapUpdateCommit(t)
    PROVE  Ledger!Next \/ UNCHANGED Ledger!vars
  <1>1. PICK u \in DOMAIN users : u = txn[t].user
    BY HeldUsers DEF BootstrapUpdateCommit
  <1>2. u \in UserIds BY DEF TypeOK, TablesOK
  <1>3. Closed(txn[t].tokens) BY RevokedCloses DEF BootstrapUpdateCommit
  <1>4. \A k \in txn[t].tokens : tokens[k].user = u
    BY <1>1 DEF BootstrapUpdateCommit, SessionInv, MemoryInScope, InScope
  <1>5. txn[t].pc = "bootstrap_update" BY DEF BootstrapUpdateCommit
  <1>6. CASE ~users[u].active /\ txn[t].row.active
    <2>1. \A k \in txn[t].tokens \cap DOMAIN tokens : tokens[k].revoked
      BY <1>4, <1>6 DEF SessionInv, DeactivationInv, OwnersActive
    <2>2. OutUsers' = OutUsers BY <1>1, <1>6, BootstrapTouches DEF OutUsers
    <2>3. LedgerSame
      BY <1>3, <2>1, <2>2, NoneClosed, ClosedInLedger DEF LedgerSame
    <2> QED BY <2>3, LedgerStutters
  <1>7. CASE users[u].active \/ ~txn[t].row.active
    <2>1. OutUsers' = OutUsers \ {u} BY <1>1, <1>7, BootstrapTouches DEF OutUsers
    <2>2. Current' = Current \/ Current' = CloseAll(u)
      <3>1. CASE txn[t].rotate
        <4>1. UnrevokedTokens(u) \subseteq txn[t].tokens
          BY <1>1, <1>5, <3>1 DEF SessionInv, RotationInv, Rotates
        <4> QED BY <1>3, <1>4, <4>1, AllClosedInLedger DEF SessionInv
      <3>2. CASE ~txn[t].rotate
        <4>1. txn[t].tokens = {} BY <1>5, <3>2 DEF SessionInv, Shapes, Shape
        <4> QED BY <1>3, <4>1, NoneClosed
      <3> QED BY <3>1, <3>2
    <2> QED BY <1>2, <1>3, <2>1, <2>2, ClosedInLedger, ReadmittedInLedger
  <1> QED BY <1>6, <1>7

LEMMA LedgerStep ==
    ASSUME TypeOK, SessionInv, [Next]_vars
    PROVE  Ledger!Next \/ UNCHANGED Ledger!vars
  <1>1. CASE UNCHANGED <<users, tokens>>
    BY <1>1, QuietInLedger DEF OutUsers
  <1>2. ASSUME NEW t \in Threads, Step(t)
        PROVE  Ledger!Next \/ UNCHANGED Ledger!vars
    <2>1. FamiliesOwned BY DEF SessionInv
    <2>2. CASE \E r : Hold(t, r) BY <1>1, <2>2, HoldKeeps
    <2>3. CASE AuthCommit(t)
      <3>1. CASE LoginWrongCommit(t)
        <4>1. OutUsers' = OutUsers BY <3>1, LoginTouches DEF OutUsers
        <4> QED BY <3>1, <4>1, QuietInLedger DEF LoginWrongCommit
      <3>2. CASE LogoutCommit(t)
        <4>1. PICK k \in DOMAIN tokens : k = txn[t].token /\ Alone(k)
          BY <3>2, HeldTokens DEF LogoutCommit, SessionInv, LogoutInv
        <4>2. Closed({k}) /\ users' = users
          BY <3>2, <4>1, RevokedCloses DEF LogoutCommit
        <4> QED BY <2>1, <4>1, <4>2, LogoutInLedger
      <3>3. CASE LoginRefusedCommit(t) BY <1>1, <3>3 DEF LoginRefusedCommit
      <3> QED
        BY <2>1, <2>3, <3>1, <3>2, <3>3, RegisterInLedger, LoginInLedger,
           RefreshInLedger
        DEF AuthCommit
    <2>4. CASE AdminCommit(t)
      <3>1. CASE UpdateRoleCommit(t)
        <4>1. OutUsers' = OutUsers BY <3>1, UpdateRoleTouches DEF OutUsers
        <4> QED BY <3>1, <4>1, QuietInLedger DEF UpdateRoleCommit
      <3>2. CASE CreateTenantCommit(t) \/ UpdateTenantCommit(t)
        BY <1>1, <3>2 DEF CreateTenantCommit, UpdateTenantCommit
      <3> QED
        BY <2>1, <2>4, <3>1, <3>2, CreateUserInLedger, DeactivateInLedger
        DEF AdminCommit
    <2>5. CASE BootstrapCreateCommit(t)
      <3>1. tokens' = tokens BY <2>5 DEF BootstrapCreateCommit
      <3>2. OutUsers' = OutUsers
        <4> DEFINE row(n) == [tenant |-> n, email |-> txn[t].email,
                              password |-> txn[t].password, role |-> "SYS_ADMIN",
                              active |-> TRUE, failed |-> 0, lockedUntil |-> 0]
        <4>1. PICK n \in TenantIds, u \in UserIds \ DOMAIN users :
                users' = Insert(users, u, row(n))
          BY <2>5 DEF BootstrapCreateCommit
        <4>2. row(n).active = TRUE OBVIOUS
        <4> HIDE DEF row
        <4> QED BY <4>1, <4>2, NewUserOut
      <3> QED BY <3>1, <3>2, QuietInLedger
    <2> QED
      BY <1>2, <2>1, <2>2, <2>3, <2>4, <2>5, BootstrapUpdateInLedger, StepKinds
      DEF Commit, BootstrapCommit
  <1> QED BY <1>1, <1>2 DEF Next, Tick, vars, tables

LEMMA LedgerStart == ASSUME Init PROVE Ledger!Init
  BY DEF Init, EmptyTable, Ledger!Init, Sessions

(* The service implements the ledger of sessions as long as none of the    *)
(* requests that concern sessions overlap: from an empty ledger, every     *)
(* step of every request opens, rotates or closes sessions, bars or        *)
(* readmits a user as the ledger does, or leaves it.                       *)
THEOREM KeepsTheLedger == Spec /\ []SessionsApart => Ledger!Init /\ KeepsLedger
  <1>1. Init => Ledger!Init BY LedgerStart
  <1>2. TypeOK /\ SessionInv /\ [Next]_vars => [Ledger!Next]_(Ledger!vars)
    BY LedgerStep
  <1> QED BY <1>1, <1>2, Typing, SessionInvAlways, PTL DEF Spec, KeepsLedger

====
