---- MODULE AccessProofs ----
(***************************************************************************)
(* Who may do what, and what the audit log tells of it, for every number   *)
(* of tenants, users, tokens and threads.                                  *)
(***************************************************************************)
EXTENDS SessionProofs

LEMMA AuditGrows == ASSUME NEW t \in Threads, Step(t) PROVE audit \subseteq audit'
  <1>1. CASE Commit(t)
    BY <1>1
    DEF Commit, AuthCommit, AdminCommit, BootstrapCommit, RegisterCommit,
        LoginRefusedCommit, LoginWrongCommit, LoginOkCommit, RefreshCommit,
        LogoutCommit, CreateUserCommit, UpdateRoleCommit, DeactivateCommit,
        CreateTenantCommit, UpdateTenantCommit, BootstrapCreateCommit,
        BootstrapUpdateCommit
  <1>2. CASE \E r : Hold(t, r) BY <1>2, HoldKeeps
  <1> QED BY <1>1, <1>2, StepKinds

(***************************************************************************)
(* The audit log explains every role.                                      *)
(***************************************************************************)
GivesRole(e, u, role) ==
    /\ e.resource = u
    /\ \/ e.action = "USER_CREATED" /\ e.detail[1] = role
       \/ e.action = "ROLE_CHANGED" /\ e.detail[2] = role

(* How a step may touch the roles: new users, with an entry; a change of   *)
(* role of one user, with an entry; or no role at all.                     *)
NewUser(u) ==
    /\ u \notin DOMAIN users
    /\ DOMAIN users' = DOMAIN users \cup {u}
    /\ \A v \in DOMAIN users : users'[v] = users[v]
    /\ \E e \in audit' : GivesRole(e, u, users'[u].role)
NewRole(u) ==
    /\ DOMAIN users' = DOMAIN users
    /\ \A v \in DOMAIN users : v # u => users'[v].role = users[v].role
    /\ \E e \in audit' : GivesRole(e, u, users'[u].role)
SameRoles ==
    /\ DOMAIN users' = DOMAIN users
    /\ \A v \in DOMAIN users : users'[v].role = users[v].role

LEMMA CreationFact ==
    ASSUME NEW u, NEW row, NEW tenant, NEW actor, NEW how,
           u \notin DOMAIN users, users' = Insert(users, u, row),
           Entry("USER_CREATED", tenant, actor, u, <<row.role, how>>) \in audit'
    PROVE  NewUser(u)
  <1> DEFINE e == Entry("USER_CREATED", tenant, actor, u, <<row.role, how>>)
  <1>1. GivesRole(e, u, row.role) BY DEF Entry, GivesRole
  <1>2. /\ DOMAIN users' = DOMAIN users \cup {u}
        /\ users'[u] = row
        /\ \A v \in DOMAIN users : users'[v] = users[v]
    BY DEF Insert
  <1> HIDE DEF e
  <1>3. e \in audit' BY DEF e
  <1> QED BY <1>1, <1>2, <1>3 DEF NewUser

LEMMA RegisterCreates ==
    ASSUME NEW t \in Threads, RegisterCommit(t) PROVE \E u : NewUser(u)
  <1> DEFINE Row(n) == [tenant |-> n, email |-> txn[t].email,
                        password |-> txn[t].password, role |-> "TENANT_ADMIN",
                        active |-> TRUE, failed |-> 0, lockedUntil |-> 0]
  <1>1. PICK n \in TenantIds, u \in UserIds \ DOMAIN users :
            /\ users' = Insert(users, u, Row(n))
            /\ Entry("USER_CREATED", Some(n), Some(u), u,
                     <<"TENANT_ADMIN", "self_signup">>) \in audit'
    BY DEF RegisterCommit
  <1>2. Row(n).role = "TENANT_ADMIN" OBVIOUS
  <1> HIDE DEF Row
  <1> QED BY <1>1, <1>2, CreationFact

LEMMA CreateUserCreates ==
    ASSUME NEW t \in Threads, CreateUserCommit(t) PROVE \E u : NewUser(u)
  <1> DEFINE row == [tenant |-> txn[t].tenant, email |-> txn[t].email,
                     password |-> txn[t].password, role |-> txn[t].role,
                     active |-> txn[t].active, failed |-> 0, lockedUntil |-> 0]
  <1>1. PICK u \in UserIds \ DOMAIN users :
            /\ users' = Insert(users, u, row)
            /\ Entry("USER_CREATED", Some(txn[t].tenant), Some(txn[t].actor.user),
                     u, <<txn[t].role, "admin_api">>) \in audit'
    BY DEF CreateUserCommit
  <1>2. row.role = txn[t].role OBVIOUS
  <1> HIDE DEF row
  <1> QED BY <1>1, <1>2, CreationFact

LEMMA BootstrapCreates ==
    ASSUME NEW t \in Threads, BootstrapCreateCommit(t) PROVE \E u : NewUser(u)
  <1> DEFINE Row(n) == [tenant |-> n, email |-> txn[t].email,
                        password |-> txn[t].password, role |-> "SYS_ADMIN",
                        active |-> TRUE, failed |-> 0, lockedUntil |-> 0]
  <1>1. PICK n \in TenantIds, u \in UserIds \ DOMAIN users :
            /\ users' = Insert(users, u, Row(n))
            /\ Entry("USER_CREATED", Some(n), Some(u), u,
                     <<"SYS_ADMIN", "bootstrap_admin_cli">>) \in audit'
    BY DEF BootstrapCreateCommit
  <1>2. Row(n).role = "SYS_ADMIN" OBVIOUS
  <1> HIDE DEF Row
  <1> QED BY <1>1, <1>2, CreationFact

LEMMA UpdateRoleRecords ==
    ASSUME TypeOK, NEW t \in Threads, UpdateRoleCommit(t)
    PROVE  SameRoles \/ NewRole(txn[t].user)
  <1> DEFINE x == txn[t]
             u == x.user
  <1>1. u \in DOMAIN users /\ users[u] \in UserRow
    BY RowFacts DEF UpdateRoleCommit, TypeOK, TxnOK
  <1>2. /\ users' = [users EXCEPT ![u].role = Write(x.old, x.new, @)]
        /\ x.old # x.new => RoleChangeEntry(x) \in audit'
    BY DEF UpdateRoleCommit
  <1>3. /\ DOMAIN users' = DOMAIN users
        /\ \A v \in DOMAIN users : v # u => users'[v].role = users[v].role
        /\ users'[u].role = Write(x.old, x.new, users[u].role)
    BY <1>1, <1>2 DEF UserRow
  <1>4. CASE x.old = x.new BY <1>1, <1>3, <1>4 DEF Write, SameRoles
  <1>5. CASE x.old # x.new
    <2>1. GivesRole(RoleChangeEntry(x), u, x.new)
      BY DEF RoleChangeEntry, Entry, GivesRole
    <2>2. users'[u].role = x.new BY <1>3, <1>5 DEF Write
    <2> QED BY <1>2, <1>3, <1>5, <2>1, <2>2 DEF NewRole
  <1> QED BY <1>4, <1>5

LEMMA StepRoles ==
    ASSUME TypeOK, NEW t \in Threads, Step(t)
    PROVE  SameRoles \/ \E u : NewUser(u) \/ NewRole(u)
  <1>1. CASE users' = users BY <1>1 DEF SameRoles
  <1>2. CASE AuthCommit(t)
    BY <1>1, <1>2, RegisterCreates, WriteLockKeeps
    DEF AuthCommit, LoginRefusedCommit, LoginWrongCommit, LoginOkCommit,
        RefreshCommit, LogoutCommit, SameRoles, SameUserKeys
  <1>3. CASE AdminCommit(t)
    BY <1>1, <1>3, CreateUserCreates, UpdateRoleRecords, DeactivateKeeps
    DEF AdminCommit, CreateTenantCommit, UpdateTenantCommit, SameRoles, SameUserKeys
  <1>4. CASE BootstrapCommit(t)
    BY <1>4, BootstrapCreates, BootstrapUpdateKeeps
    DEF BootstrapCommit, SameRoles, SameUserKeys
  <1>5. CASE \E r : Hold(t, r) BY <1>1, <1>5, HoldKeeps
  <1> QED BY <1>2, <1>3, <1>4, <1>5, StepKinds DEF Commit

RoleGiven(u) == \E e \in audit : GivesRole(e, u, users[u].role)
RolesGiven == \A u \in DOMAIN users : RoleGiven(u)

LEMMA RolesGivenStep ==
    ASSUME TypeOK, RolesGiven, [Next]_vars PROVE RolesGiven'
  <1>1. CASE UNCHANGED <<users, audit>> BY <1>1 DEF RolesGiven, RoleGiven
  <1>2. ASSUME NEW t \in Threads, Step(t) PROVE RolesGiven'
    <2>1. audit \subseteq audit' BY <1>2, AuditGrows
    <2>2. ASSUME NEW u \in DOMAIN users, users'[u].role = users[u].role
          PROVE  RoleGiven(u)'
      <3>1. PICK e \in audit : GivesRole(e, u, users[u].role)
        BY DEF RolesGiven, RoleGiven
      <3> QED BY <2>1, <2>2, <3>1 DEF RoleGiven
    <2>3. CASE SameRoles BY <2>2, <2>3 DEF SameRoles, RolesGiven
    <2>4. ASSUME NEW u, NewUser(u) PROVE RolesGiven'
      BY <2>2, <2>4 DEF NewUser, RolesGiven, RoleGiven
    <2>5. ASSUME NEW u, NewRole(u) PROVE RolesGiven'
      BY <2>2, <2>5 DEF NewRole, RolesGiven, RoleGiven
    <2> QED BY <1>2, <2>3, <2>4, <2>5, StepRoles
  <1> QED BY <1>1, <1>2 DEF Next, Tick, vars, tables

LEMMA RolesGivenInvariant == Spec => []RolesGiven
  <1>1. Init => RolesGiven BY DEF Init, EmptyTable, RolesGiven
  <1>2. TypeOK /\ RolesGiven /\ [Next]_vars => RolesGiven' BY RolesGivenStep
  <1> QED BY <1>1, <1>2, Typing, PTL DEF Spec

(* Overlapping changes of one user's role leave the role of one of them,   *)
(* never one that no entry gave.                                           *)
THEOREM RolesExplained == Spec => []RolesAreAudited
  <1>1. RolesGiven => RolesAreAudited
    BY DEF RolesGiven, RoleGiven, GivesRole, RolesAreAudited
  <1> QED BY <1>1, RolesGivenInvariant, PTL

(***************************************************************************)
(* What a request remembers of whom it acts for and on.                    *)
(***************************************************************************)

(* The tokens a request is to revoke are those of its user; a principal    *)
(* that is not a system administrator works on its own tenant.             *)
InScope(x, tk) ==
    /\ x.pc \in {"deactivate", "bootstrap_rotate", "bootstrap_update"} =>
        \A k \in x.tokens : k \in DOMAIN tk /\ tk[k].user = x.user
    /\ x.pc \in PrincipalPcs /\ x.actor.role # "SYS_ADMIN" =>
        /\ x.pc \notin {"create_tenant", "update_tenant"}
        /\ x.pc # "authenticated" => x.tenant = x.actor.tenant
MemoryInScope == \A t \in Threads : InScope(txn[t], tokens)

LEMMA ScopeStable ==
    ASSUME NEW x, TokensAge, InScope(x, tokens)
    PROVE  InScope(x, tokens')
  BY DEF InScope, TokensAge

LEMMA HeldInScope ==
    ASSUME NEW t, NEW r, Hold(t, r), InScope(r, tokens)
    PROVE  \E x : txn' = [txn EXCEPT ![t] = x] /\ InScope(x, tokens)
  BY DEF Hold

LEMMA AuthReadsInScope ==
    ASSUME NEW t \in Threads, AuthStep(t)
    PROVE  \E r : txn' = [txn EXCEPT ![t] = r] /\ InScope(r, tokens)
  <1>1. ASSUME NEW r, Hold(t, r),
               r.pc \in {"register", "login_tenant", "login_refused", "login_user",
                         "refresh", "logout"}
        PROVE  \E x : txn' = [txn EXCEPT ![t] = x] /\ InScope(x, tokens)
    BY <1>1, HeldInScope DEF InScope, PrincipalPcs
  <1>2. CASE Finish(t)
    <2>1. InScope(Idle, tokens) BY DEF InScope, Idle, PrincipalPcs
    <2> QED BY <1>2, <2>1 DEF Finish
  <1>3. CASE RegisterRead(t) BY <1>1, <1>3 DEF RegisterRead
  <1>4. CASE LoginReadTenant(t)
    BY <1>1, <1>4 DEF LoginReadTenant, LoginRefused
  <1>5. CASE LoginReadUser(t)
    BY <1>1, <1>5 DEF LoginReadUser, LoginRefused
  <1>6. CASE RefreshRead(t) BY <1>1, <1>6 DEF RefreshRead
  <1>7. CASE LogoutRead(t) BY <1>1, <1>7 DEF LogoutRead
  <1> QED
    BY <1>2, <1>3, <1>4, <1>5, <1>6, <1>7
    DEF AuthStep, RegisterCommit, LoginRefusedCommit, LoginWrongCommit,
        LoginOkCommit, RefreshCommit, LogoutCommit

LEMMA AdminReadsInScope ==
    ASSUME TypeOK, MemoryInScope, NEW t \in Threads,
           UserManagementStep(t) \/ TenantStep(t)
    PROVE  \E r : txn' = [txn EXCEPT ![t] = r] /\ InScope(r, tokens)
  <1> DEFINE actor == txn[t].actor
             Goal == \E r : txn' = [txn EXCEPT ![t] = r] /\ InScope(r, tokens)
  <1>1. CASE Finish(t)
    <2>1. InScope(Idle, tokens) BY DEF InScope, Idle, PrincipalPcs
    <2> QED BY <1>1, <2>1 DEF Finish
  <1>2. ASSUME NEW r, Hold(t, r),
               r.pc \in {"create_user", "update_role", "deactivate_user"},
               r.actor = actor, MayManageUsers(actor, r.tenant)
        PROVE  Goal
    BY <1>2, HeldInScope DEF InScope, MayManageUsers, MayReach
  <1>3. ASSUME NEW r, Hold(t, r), r.pc \in {"create_tenant", "update_tenant"},
               r.actor.role = "SYS_ADMIN"
        PROVE  Goal
    BY <1>3, HeldInScope DEF InScope
  <1>4. CASE CreateUserRead(t) BY <1>2, <1>4 DEF CreateUserRead
  <1>5. CASE UpdateRoleRead(t) BY <1>2, <1>5 DEF UpdateRoleRead
  <1>6. CASE DeactivateReadUser(t) BY <1>2, <1>6 DEF DeactivateReadUser
  <1>7. CASE DeactivateReadTokens(t)
    <2> DEFINE r == [pc |-> "deactivate", actor |-> actor, user |-> txn[t].user,
                     tenant |-> txn[t].tenant, tokens |-> UnrevokedTokens(txn[t].user)]
    <2>1. InScope(txn[t], tokens) /\ txn[t].pc = "deactivate_user"
      BY <1>7 DEF MemoryInScope, DeactivateReadTokens
    <2>2. InScope(r, tokens)
      BY <2>1 DEF InScope, UnrevokedTokens, PrincipalPcs
    <2>3. Hold(t, r) BY <1>7 DEF DeactivateReadTokens
    <2> HIDE DEF r
    <2> QED BY <2>2, <2>3, HeldInScope
  <1>8. CASE CreateTenantRead(t) BY <1>3, <1>8 DEF CreateTenantRead
  <1>9. CASE UpdateTenantRead(t) BY <1>3, <1>9 DEF UpdateTenantRead, MayReach
  <1> QED
    BY <1>1, <1>4, <1>5, <1>6, <1>7, <1>8, <1>9
    DEF UserManagementStep, TenantStep, CreateUserCommit, UpdateRoleCommit,
        DeactivateCommit, CreateTenantCommit, UpdateTenantCommit

LEMMA BootstrapReadsInScope ==
    ASSUME TypeOK, MemoryInScope, NEW t \in Threads, BootstrapStep(t)
    PROVE  \E r : txn' = [txn EXCEPT ![t] = r] /\ InScope(r, tokens)
  <1> DEFINE Goal == \E r : txn' = [txn EXCEPT ![t] = r] /\ InScope(r, tokens)
  <1>1. CASE Finish(t)
    <2>1. InScope(Idle, tokens) BY DEF InScope, Idle, PrincipalPcs
    <2> QED BY <1>1, <2>1 DEF Finish
  <1>2. ASSUME NEW r, Hold(t, r), r.pc \in {"bootstrap_tenant", "bootstrap_create"}
        PROVE  Goal
    BY <1>2, HeldInScope DEF InScope, PrincipalPcs
  <1>3. ASSUME NEW r, Hold(t, r), r.pc \in {"bootstrap_rotate", "bootstrap_update"},
               r.tokens = {}
        PROVE  Goal
    BY <1>3, HeldInScope DEF InScope, PrincipalPcs
  <1>4. CASE BootstrapReadTenant(t) BY <1>2, <1>4 DEF BootstrapReadTenant
  <1>5. CASE BootstrapReadUser(t)
    <2> DEFINE x == txn[t]
               Row(u) == [pc |-> IF x.rotate THEN "bootstrap_rotate"
                                 ELSE "bootstrap_update",
                          user |-> u, row |-> users[u],
                          rotate |-> x.rotate, password |-> x.password,
                          tokens |-> {}, reactivate |-> x.reactivate]
               new == [pc |-> "bootstrap_create", slug |-> x.slug,
                       email |-> x.email, password |-> x.password,
                       tenant |-> x.tenant, reactivate |-> x.reactivate]
    <2>1. \/ Hold(t, new)
          \/ \E u \in DOMAIN users : Hold(t, Row(u))
      BY <1>5 DEF BootstrapReadUser, UsersByEmail
    <2>2. ASSUME NEW u \in DOMAIN users, Hold(t, Row(u)) PROVE Goal
      <3>1. /\ Row(u).pc \in {"bootstrap_rotate", "bootstrap_update"}
            /\ Row(u).tokens = {}
        OBVIOUS
      <3> HIDE DEF Row
      <3> QED BY <1>3, <2>2, <3>1
    <2>3. new.pc = "bootstrap_create" OBVIOUS
    <2> HIDE DEF new
    <2> QED BY <1>2, <2>1, <2>2, <2>3
  <1>6. CASE BootstrapReadTokens(t)
    <2> DEFINE x == txn[t]
               r == [pc |-> "bootstrap_update", user |-> x.user, row |-> x.row,
                     rotate |-> x.rotate, password |-> x.password,
                     tokens |-> UnrevokedTokens(x.user),
                     reactivate |-> x.reactivate]
    <2>1. /\ r.pc = "bootstrap_update" /\ r.user = txn[t].user
          /\ r.tokens = UnrevokedTokens(txn[t].user)
      OBVIOUS
    <2>2. Hold(t, r) BY <1>6 DEF BootstrapReadTokens
    <2> HIDE DEF r
    <2>3. InScope(r, tokens)
      BY <2>1 DEF InScope, UnrevokedTokens, PrincipalPcs
    <2> QED BY <2>2, <2>3, HeldInScope
  <1> QED
    BY <1>1, <1>4, <1>5, <1>6
    DEF BootstrapStep, BootstrapCreateCommit, BootstrapUpdateCommit

LEMMA MemoryInScopeStep ==
    ASSUME TypeOK, MemoryInScope, [Next]_vars PROVE MemoryInScope'
  <1>1. CASE UNCHANGED <<tokens, txn>> BY <1>1 DEF MemoryInScope
  <1>2. ASSUME NEW t \in Threads, Step(t) PROVE MemoryInScope'
    <2>1. TokensAge BY <1>2, StepIssues
    <2>2. \E r : txn' = [txn EXCEPT ![t] = r] /\ InScope(r, tokens)
      <3>1. CASE Authenticate(t)
        BY <3>1, HeldInScope DEF Authenticate, InScope
      <3>2. CASE Rollback(t)
        <4>1. InScope(Idle, tokens) BY DEF InScope, Idle, PrincipalPcs
        <4> QED BY <3>2, <4>1, HeldInScope DEF Rollback
      <3> QED
        BY <1>2, <3>1, <3>2, AuthReadsInScope, AdminReadsInScope,
           BootstrapReadsInScope
        DEF Step
    <2>3. \A s \in Threads : InScope(txn'[s], tokens)
      BY <2>2 DEF MemoryInScope, TypeOK
    <2> QED BY <2>1, <2>3, ScopeStable DEF MemoryInScope
  <1> QED BY <1>1, <1>2 DEF Next, Tick, vars, tables

LEMMA MemoryInScopeInvariant == Spec => []MemoryInScope
  <1>1. Init => MemoryInScope
    BY DEF Init, Idle, MemoryInScope, InScope, PrincipalPcs
  <1>2. TypeOK /\ MemoryInScope /\ [Next]_vars => MemoryInScope'
    BY MemoryInScopeStep
  <1> QED BY <1>1, <1>2, Typing, PTL DEF Spec

(***************************************************************************)
(* Tenants are isolated.                                                   *)
(***************************************************************************)
LEMMA PrincipalStays ==
    ASSUME TypeOK, MemoryInScope, NEW t \in Threads, Step(t),
           ActsAsPrincipal(t), txn[t].actor.role # "SYS_ADMIN"
    PROVE  StaysInTenant(t)
  <1> DEFINE x == txn[t]
             own == x.actor.tenant
  <1>1. /\ InScope(x, tokens) /\ TxnOK(x, tenants, users, tokens)
        /\ x.pc \in PrincipalPcs
    BY DEF MemoryInScope, TypeOK, ActsAsPrincipal
  <1>2. CASE \E r : Hold(t, r) BY <1>2, HoldKeeps DEF StaysInTenant
  <1>3. CASE CreateUserCommit(t)
    <2> DEFINE row == [tenant |-> x.tenant, email |-> x.email,
                       password |-> x.password, role |-> x.role,
                       active |-> x.active, failed |-> 0, lockedUntil |-> 0]
    <2>1. PICK u \in UserIds \ DOMAIN users :
            /\ users' = Insert(users, u, row)
            /\ audit' = audit \cup {Entry("USER_CREATED", Some(x.tenant),
                                          Some(x.actor.user), u, <<x.role, "admin_api">>)}
      BY <1>3 DEF CreateUserCommit
    <2>2. tenants' = tenants /\ tokens' = tokens /\ x.tenant = own
      BY <1>1, <1>3 DEF CreateUserCommit, InScope
    <2>3. row.tenant = own BY <2>2
    <2> HIDE DEF row
    <2>4. \A v \in DOMAIN users' :
            users'[v].tenant = own \/ (v \in DOMAIN users /\ users'[v] = users[v])
      BY <2>1, <2>3 DEF Insert
    <2>5. \A e \in audit' \ audit : e.tenant = Some(own)
      BY <2>1, <2>2 DEF Entry
    <2> QED BY <2>2, <2>4, <2>5 DEF StaysInTenant
  <1>4. CASE UpdateRoleCommit(t)
    <2>1. x.user \in DOMAIN users /\ users[x.user].tenant = own /\ x.tenant = own
      BY <1>1, <1>4 DEF UpdateRoleCommit, InScope, TxnOK
    <2>2. /\ users' = [users EXCEPT ![x.user].role = Write(x.old, x.new, @)]
          /\ audit' \subseteq audit \cup {RoleChangeEntry(x)}
          /\ tenants' = tenants /\ tokens' = tokens
      BY <1>4 DEF UpdateRoleCommit
    <2>3. \A v \in DOMAIN users' :
            users'[v].tenant = own \/ (v \in DOMAIN users /\ users'[v] = users[v])
      BY <2>1, <2>2, RowFacts DEF UserRow
    <2>4. \A e \in audit' \ audit : e.tenant = Some(own)
      BY <2>1, <2>2 DEF RoleChangeEntry, Entry
    <2> QED BY <2>2, <2>3, <2>4 DEF StaysInTenant
  <1>5. CASE DeactivateCommit(t)
    <2>1. /\ x.user \in DOMAIN users /\ users[x.user].tenant = own /\ x.tenant = own
          /\ \A k \in x.tokens : k \in DOMAIN tokens /\ tokens[k].user = x.user
      BY <1>1, <1>5 DEF DeactivateCommit, InScope, TxnOK
    <2>2. /\ users' = [users EXCEPT ![x.user].active = FALSE]
          /\ tokens' = Revoke(tokens, x.tokens)
          /\ tenants' = tenants
      BY <1>5 DEF DeactivateCommit
    <2>3. users'[x.user].tenant = own
      BY <2>1, <2>2, RowFacts DEF UserRow
    <2>4. \A v \in DOMAIN users' :
            users'[v].tenant = own \/ (v \in DOMAIN users /\ users'[v] = users[v])
      BY <2>2, <2>3
    <2>5. TokensAge BY StepIssues
    <2>6. ASSUME NEW k \in DOMAIN tokens'
          PROVE  \/ users'[tokens'[k].user].tenant = own
                 \/ k \in DOMAIN tokens /\ tokens'[k] = tokens[k]
      <3>1. CASE k \in x.tokens
        BY <2>1, <2>3, <2>5, <3>1 DEF TokensAge
      <3>2. CASE k \notin x.tokens BY <2>2, <3>2 DEF Revoke
      <3> QED BY <3>1, <3>2
    <2>7. \A e \in audit' \ audit : e.tenant = Some(own)
      BY <1>5, <2>1 DEF DeactivateCommit, Entry
    <2> QED BY <2>2, <2>4, <2>6, <2>7 DEF StaysInTenant
  <1>6. ~CreateTenantCommit(t) /\ ~UpdateTenantCommit(t)
    BY <1>1 DEF CreateTenantCommit, UpdateTenantCommit, InScope
  <1>7. ~AuthCommit(t)
    BY <1>1
    DEF PrincipalPcs, AuthCommit, RegisterCommit, LoginRefusedCommit,
        LoginWrongCommit, LoginOkCommit, RefreshCommit, LogoutCommit
  <1>8. ~BootstrapCommit(t)
    BY <1>1
    DEF PrincipalPcs, BootstrapCommit, BootstrapCreateCommit, BootstrapUpdateCommit
  <1> QED
    BY <1>2, <1>3, <1>4, <1>5, <1>6, <1>7, <1>8, StepKinds DEF Commit, AdminCommit

LEMMA OwnStep ==
    ASSUME TypeOK, [Next]_vars, NEW t \in Threads, txn'[t] # txn[t] PROVE Step(t)
  <1>1. PICK s \in Threads : Step(s) BY DEF Next, Tick, vars
  <1>2. PICK r : txn' = [txn EXCEPT ![s] = r] BY <1>1, ReadsAreChecked
  <1> QED BY <1>1, <1>2 DEF TypeOK

(* A principal that is not a system administrator never changes a row of   *)
(* another tenant, whatever becomes of its target between the checks and   *)
(* the commit.                                                             *)
THEOREM Isolation == Spec => TenantsAreIsolated
  <1> DEFINE A == \A t \in Threads :
                    ActsAsPrincipal(t) /\ txn[t].actor.role # "SYS_ADMIN"
                      /\ txn'[t] # txn[t] => StaysInTenant(t)
  <1>1. TypeOK /\ MemoryInScope /\ [Next]_vars => [A]_vars
    BY OwnStep, PrincipalStays
  <1> QED BY <1>1, Typing, MemoryInScopeInvariant, PTL DEF Spec, TenantsAreIsolated

(***************************************************************************)
(* System administrators are provisioned.                                  *)
(***************************************************************************)

(* Until the command is run, the role is in no row, no access token and no *)
(* request that could put it into one.                                     *)
Plain(x) ==
    /\ x.pc \in PrincipalPcs => x.actor.role # "SYS_ADMIN"
    /\ x.pc = "login_user" => x.row.role # "SYS_ADMIN"
    /\ x.pc \in {"refresh", "create_user"} => x.role # "SYS_ADMIN"
    /\ x.pc = "update_role" => x.new # "SYS_ADMIN"
NoSysAdmin ==
    /\ \A u \in DOMAIN users : users[u].role # "SYS_ADMIN"
    /\ \A j \in jwts : j.role # "SYS_ADMIN"
    /\ \A t \in Threads : Plain(txn[t])

LEMMA HeldPlain ==
    ASSUME NEW t, NEW r, Hold(t, r), Plain(r)
    PROVE  \E x : txn' = [txn EXCEPT ![t] = x] /\ Plain(x)
  BY DEF Hold

LEMMA ReadsArePlain ==
    ASSUME TypeOK, NoSysAdmin, NEW t \in Threads, Step(t)
    PROVE  \E r : txn' = [txn EXCEPT ![t] = r] /\ Plain(r)
  <1> DEFINE Goal == \E r : txn' = [txn EXCEPT ![t] = r] /\ Plain(r)
             actor == txn[t].actor
  <1>1. Plain(Idle) BY DEF Plain, Idle, PrincipalPcs
  <1>2. CASE Finish(t) BY <1>1, <1>2 DEF Finish
  <1>3. ASSUME NEW r, Hold(t, r),
               r.pc \notin PrincipalPcs \cup {"login_user", "refresh"}
        PROVE  Goal
    BY <1>3, HeldPlain DEF Plain, PrincipalPcs
  <1>4. CASE AuthStep(t)
    <2>1. CASE LoginReadUser(t)
      <3>1. ASSUME NEW u \in DOMAIN users,
                   Hold(t, [pc |-> "login_user", user |-> u, row |-> users[u],
                            expired |-> LockExpired(users[u])])
            PROVE  Goal
        BY <3>1, HeldPlain DEF Plain, NoSysAdmin, PrincipalPcs
      <3> QED
        BY <1>3, <2>1, <3>1
        DEF LoginReadUser, LoginRefused, UsersByEmail, PrincipalPcs
    <2>2. CASE RefreshRead(t)
      <3>1. PICK k \in DOMAIN tokens :
                Hold(t, [pc |-> "refresh", token |-> k, user |-> tokens[k].user,
                         tenant |-> users[tokens[k].user].tenant,
                         role |-> users[tokens[k].user].role])
        BY <2>2 DEF RefreshRead
      <3>2. users[tokens[k].user].role # "SYS_ADMIN"
        BY DEF NoSysAdmin, TypeOK, ForeignKeysOK
      <3> QED BY <3>1, <3>2, HeldPlain DEF Plain, PrincipalPcs
    <2>3. CASE RegisterRead(t) BY <1>3, <2>3 DEF RegisterRead, PrincipalPcs
    <2>4. CASE LoginReadTenant(t)
      BY <1>3, <2>4 DEF LoginReadTenant, LoginRefused, PrincipalPcs
    <2>5. CASE LogoutRead(t) BY <1>3, <2>5 DEF LogoutRead, PrincipalPcs
    <2> QED
      BY <1>2, <1>4, <2>1, <2>2, <2>3, <2>4, <2>5
      DEF AuthStep, RegisterCommit, LoginRefusedCommit, LoginWrongCommit,
          LoginOkCommit, RefreshCommit, LogoutCommit
  <1>5. CASE Authenticate(t)
    BY <1>5, HeldPlain DEF Authenticate, Plain, NoSysAdmin
  <1>6. txn[t].pc \in PrincipalPcs => actor.role # "SYS_ADMIN"
    BY DEF NoSysAdmin, Plain
  <1>7. CASE UserManagementStep(t)
    <2>1. CASE CreateUserRead(t)
      BY <1>6, <2>1, HeldPlain DEF CreateUserRead, MayHandleRole, Plain, PrincipalPcs
    <2>2. CASE UpdateRoleRead(t)
      BY <1>6, <2>2, HeldPlain DEF UpdateRoleRead, MayHandleRole, Plain, PrincipalPcs
    <2>3. CASE DeactivateReadUser(t)
      BY <1>6, <2>3, HeldPlain DEF DeactivateReadUser, Plain, PrincipalPcs
    <2>4. CASE DeactivateReadTokens(t)
      BY <1>6, <2>4, HeldPlain DEF DeactivateReadTokens, Plain, PrincipalPcs
    <2> QED
      BY <1>2, <1>7, <2>1, <2>2, <2>3, <2>4
      DEF UserManagementStep, CreateUserCommit, UpdateRoleCommit, DeactivateCommit
  <1>8. CASE TenantStep(t)
    <2>1. CASE CreateTenantRead(t)
      BY <1>6, <2>1, HeldPlain DEF CreateTenantRead, Plain, PrincipalPcs
    <2>2. CASE UpdateTenantRead(t)
      BY <1>6, <2>2, HeldPlain DEF UpdateTenantRead, Plain, PrincipalPcs
    <2> QED
      BY <1>2, <1>8, <2>1, <2>2 DEF TenantStep, CreateTenantCommit, UpdateTenantCommit
  <1>9. CASE BootstrapStep(t)
    <2>1. CASE BootstrapReadTenant(t)
      BY <1>3, <2>1 DEF BootstrapReadTenant, PrincipalPcs
    <2>2. CASE BootstrapReadUser(t)
      BY <1>3, <2>2 DEF BootstrapReadUser, PrincipalPcs
    <2>3. CASE BootstrapReadTokens(t)
      BY <1>3, <2>3 DEF BootstrapReadTokens, PrincipalPcs
    <2> QED
      BY <1>2, <1>9, <2>1, <2>2, <2>3
      DEF BootstrapStep, BootstrapCreateCommit, BootstrapUpdateCommit
  <1>10. CASE Rollback(t) BY <1>1, <1>10, HeldPlain DEF Rollback
  <1> QED BY <1>4, <1>5, <1>7, <1>8, <1>9, <1>10 DEF Step

LEMMA RowsArePlain ==
    ASSUME TypeOK, NoSysAdmin, NEW t \in Threads, Step(t), ~BootstrapCreateCommit(t)
    PROVE  /\ \A u \in DOMAIN users' : users'[u].role # "SYS_ADMIN"
           /\ \A j \in jwts' : j.role # "SYS_ADMIN"
  <1> DEFINE UsersPlain == \A u \in DOMAIN users' : users'[u].role # "SYS_ADMIN"
             JwtsPlain == \A j \in jwts' : j.role # "SYS_ADMIN"
  <1>1. Plain(txn[t]) BY DEF NoSysAdmin
  <1>2. ASSUME SameRoles PROVE UsersPlain BY <1>2 DEF SameRoles, NoSysAdmin
  <1>3. ASSUME jwts' = jwts PROVE JwtsPlain BY <1>3 DEF NoSysAdmin
  <1>4. ASSUME users' = users PROVE UsersPlain BY <1>4 DEF NoSysAdmin
  <1>5. ASSUME NEW u, NEW row, row.role # "SYS_ADMIN", users' = Insert(users, u, row)
        PROVE  UsersPlain
    BY <1>5 DEF Insert, NoSysAdmin
  <1>6. ASSUME NEW u, NEW n, NEW role, role # "SYS_ADMIN",
               jwts' = jwts \cup {NewJwt(u, n, role)}
        PROVE  JwtsPlain
    BY <1>6 DEF NewJwt, NoSysAdmin
  <1> HIDE DEF UsersPlain, JwtsPlain
  <1>7. CASE RegisterCommit(t)
    <2> DEFINE Row(n) == [tenant |-> n, email |-> txn[t].email,
                          password |-> txn[t].password, role |-> "TENANT_ADMIN",
                          active |-> TRUE, failed |-> 0, lockedUntil |-> 0]
    <2>1. PICK n, u : /\ users' = Insert(users, u, Row(n))
                      /\ jwts' = jwts \cup {NewJwt(u, n, "TENANT_ADMIN")}
      BY <1>7 DEF RegisterCommit
    <2>2. Row(n).role # "SYS_ADMIN" OBVIOUS
    <2> HIDE DEF Row
    <2>3. UsersPlain BY <1>5, <2>1, <2>2
    <2>4. JwtsPlain BY <1>6, <2>1
    <2> QED BY <2>3, <2>4 DEF UsersPlain, JwtsPlain
  <1>8. CASE LoginOkCommit(t)
    <2>1. SameRoles
      BY <1>8, WriteLockKeeps DEF LoginOkCommit, SameRoles, SameUserKeys
    <2>2. JwtsPlain BY <1>1, <1>6, <1>8 DEF LoginOkCommit, Plain
    <2> QED BY <1>2, <2>1, <2>2 DEF UsersPlain, JwtsPlain
  <1>9. CASE RefreshCommit(t)
    <2>1. JwtsPlain BY <1>1, <1>6, <1>9 DEF RefreshCommit, Plain
    <2> QED BY <1>4, <1>9, <2>1 DEF RefreshCommit, UsersPlain, JwtsPlain
  <1>10. CASE LoginWrongCommit(t)
    <2>1. SameRoles /\ jwts' = jwts
      BY <1>10, WriteLockKeeps DEF LoginWrongCommit, SameRoles, SameUserKeys
    <2> QED BY <1>2, <1>3, <2>1 DEF UsersPlain, JwtsPlain
  <1>11. CASE CreateUserCommit(t)
    <2> DEFINE row == [tenant |-> txn[t].tenant, email |-> txn[t].email,
                       password |-> txn[t].password, role |-> txn[t].role,
                       active |-> txn[t].active, failed |-> 0, lockedUntil |-> 0]
    <2>1. PICK u \in UserIds \ DOMAIN users : users' = Insert(users, u, row)
      BY <1>11 DEF CreateUserCommit
    <2>2. row.role # "SYS_ADMIN" BY <1>1, <1>11 DEF CreateUserCommit, Plain
    <2> HIDE DEF row
    <2>3. UsersPlain BY <1>5, <2>1, <2>2
    <2>4. jwts' = jwts BY <1>11 DEF CreateUserCommit
    <2> QED BY <1>3, <2>3, <2>4 DEF UsersPlain, JwtsPlain
  <1>12. CASE UpdateRoleCommit(t)
    <2>1. /\ users' = [users EXCEPT ![txn[t].user].role =
                        Write(txn[t].old, txn[t].new, @)]
          /\ jwts' = jwts /\ txn[t].new # "SYS_ADMIN"
      BY <1>1, <1>12 DEF UpdateRoleCommit, Plain
    <2>2. UsersPlain
      BY <2>1, RowFacts DEF NoSysAdmin, Write, UserRow, UsersPlain
    <2> QED BY <1>3, <2>1, <2>2 DEF UsersPlain, JwtsPlain
  <1>13. CASE DeactivateCommit(t)
    <2>1. SameRoles /\ jwts' = jwts
      BY <1>13, DeactivateKeeps DEF DeactivateCommit, SameRoles, SameUserKeys
    <2> QED BY <1>2, <1>3, <2>1 DEF UsersPlain, JwtsPlain
  <1>14. CASE BootstrapUpdateCommit(t)
    <2>1. SameRoles /\ jwts' = jwts
      BY <1>14, BootstrapUpdateKeeps
      DEF BootstrapUpdateCommit, SameRoles, SameUserKeys
    <2> QED BY <1>2, <1>3, <2>1 DEF UsersPlain, JwtsPlain
  <1>15. CASE UNCHANGED <<users, jwts>>
    BY <1>3, <1>4, <1>15 DEF UsersPlain, JwtsPlain
  <1>16. CASE \E r : Hold(t, r) BY <1>15, <1>16, HoldKeeps
  <1> QED
    BY <1>7, <1>8, <1>9, <1>10, <1>11, <1>12, <1>13, <1>14, <1>15, <1>16, StepKinds
    DEF Commit, AuthCommit, AdminCommit, BootstrapCommit, LoginRefusedCommit,
        LogoutCommit, CreateTenantCommit, UpdateTenantCommit

LEMMA ProvisionedStep ==
    ASSUME TypeOK, ProvisionedByOperator \/ NoSysAdmin, [Next]_vars
    PROVE  ProvisionedByOperator' \/ NoSysAdmin'
  <1>1. CASE UNCHANGED <<users, jwts, txn, audit>>
    BY <1>1 DEF ProvisionedByOperator, NoSysAdmin
  <1>2. ASSUME NEW t \in Threads, Step(t)
        PROVE  ProvisionedByOperator' \/ NoSysAdmin'
    <2>1. CASE ProvisionedByOperator
      BY <1>2, <2>1, AuditGrows DEF ProvisionedByOperator
    <2>2. CASE BootstrapCreateCommit(t)
      <3>1. PICK n, u : Entry("USER_CREATED", Some(n), Some(u), u,
                              <<"SYS_ADMIN", "bootstrap_admin_cli">>) \in audit'
        BY <2>2 DEF BootstrapCreateCommit
      <3> QED BY <3>1 DEF ProvisionedByOperator, Entry
    <2>3. CASE NoSysAdmin /\ ~BootstrapCreateCommit(t)
      <3>1. /\ \A u \in DOMAIN users' : users'[u].role # "SYS_ADMIN"
            /\ \A j \in jwts' : j.role # "SYS_ADMIN"
        BY <1>2, <2>3, RowsArePlain
      <3>2. PICK r : txn' = [txn EXCEPT ![t] = r] /\ Plain(r)
        BY <1>2, <2>3, ReadsArePlain
      <3>3. \A s \in Threads : Plain(txn'[s])
        BY <2>3, <3>2 DEF NoSysAdmin, TypeOK
      <3> QED BY <3>1, <3>3 DEF NoSysAdmin
    <2> QED BY <2>1, <2>2, <2>3
  <1> QED BY <1>1, <1>2 DEF Next, Tick, vars, tables

(* Nobody becomes a system administrator by signing up, by a role an       *)
(* administrator of a tenant gives or by an access token: the first one is *)
(* the operator's.                                                         *)
THEOREM Provisioning == Spec => []SysAdminsAreProvisioned
  <1>1. Init => NoSysAdmin
    BY DEF Init, EmptyTable, Idle, NoSysAdmin, Plain, PrincipalPcs
  <1>2. TypeOK /\ (ProvisionedByOperator \/ NoSysAdmin) /\ [Next]_vars
            => ProvisionedByOperator' \/ NoSysAdmin'
    BY ProvisionedStep
  <1>3. ProvisionedByOperator \/ NoSysAdmin => SysAdminsAreProvisioned
    BY DEF NoSysAdmin, Plain, ActsAsPrincipal, SysAdminsAreProvisioned
  <1> QED BY <1>1, <1>2, <1>3, Typing, PTL DEF Spec

====
