---- MODULE SessionProofs ----
(***************************************************************************)
(* What has ended stays ended: sessions, deactivated users, locked users,  *)
(* for every number of tenants, users, tokens and threads.                 *)
(***************************************************************************)
EXTENDS IdentityProofs

(***************************************************************************)
(* What a step does to the tokens and to the requests.                     *)
(***************************************************************************)

(* Tokens are never un-revoked, nor change hands, session or expiry.       *)
TokensAge ==
    \A k \in DOMAIN tokens :
        /\ k \in DOMAIN tokens'
        /\ tokens'[k].user = tokens[k].user
        /\ tokens'[k].family = tokens[k].family
        /\ tokens'[k].expiresAt = tokens[k].expiresAt
        /\ tokens[k].revoked => tokens'[k].revoked

(* Where refresh and access tokens come from: a sign-up issues them to a   *)
(* new user, a login to the user it has read and a refresh to the user and *)
(* in the session of the token it has read.                                *)
IssuesToken(t, k) ==
    \/ tokens'[k].user \notin DOMAIN users /\ tokens'[k].family = k
    \/ /\ txn[t].pc = "login_user"
       /\ tokens'[k].user = txn[t].user
       /\ tokens'[k].family = k
    \/ /\ txn[t].pc = "refresh"
       /\ tokens'[k].user = txn[t].user
       /\ tokens'[k].family = tokens[txn[t].token].family
IssuesJwt(t, j) ==
    \/ j.user \notin DOMAIN users
    \/ txn[t].pc \in {"login_user", "refresh"} /\ j.user = txn[t].user
Issues(t) ==
    /\ \A k \in DOMAIN tokens' \ DOMAIN tokens : IssuesToken(t, k)
    /\ \A j \in jwts' \ jwts : IssuesJwt(t, j)

LEMMA RowFacts ==
    ASSUME TypeOK
    PROVE  /\ tokens \in [DOMAIN tokens -> TokenRow]
           /\ users \in [DOMAIN users -> UserRow]
           /\ \A k \in DOMAIN tokens : tokens[k] \in TokenRow
           /\ \A k \in DOMAIN tokens : tokens[k].expiresAt \in Int
           /\ \A u \in DOMAIN users : users[u] \in UserRow
           /\ now \in Int
  BY DEF TypeOK, TablesOK, TokenRow, Times

LEMMA RevokedAge ==
    ASSUME TypeOK, NEW ids, tokens' = Revoke(tokens, ids)
    PROVE  TokensAge /\ DOMAIN tokens' = DOMAIN tokens
  BY RowFacts DEF Revoke, TokensAge, TokenRow

LEMMA RegisterIssues ==
    ASSUME TypeOK, NEW t \in Threads, RegisterCommit(t)
    PROVE  TokensAge /\ Issues(t)
  <1>1. PICK n \in TenantIds, u \in UserIds \ DOMAIN users,
             k \in TokenIds \ DOMAIN tokens :
            /\ tokens' = Insert(tokens, k, NewToken(u, k))
            /\ jwts' = jwts \cup {NewJwt(u, n, "TENANT_ADMIN")}
    BY DEF RegisterCommit
  <1>2. /\ DOMAIN tokens' = DOMAIN tokens \cup {k}
        /\ tokens'[k] = NewToken(u, k)
        /\ \A l \in DOMAIN tokens : tokens'[l] = tokens[l]
    BY <1>1 DEF Insert
  <1>3. TokensAge BY <1>2 DEF TokensAge
  <1>4. Issues(t)
    BY <1>1, <1>2 DEF Issues, IssuesToken, IssuesJwt, NewToken, NewJwt
  <1> QED BY <1>3, <1>4

LEMMA LoginIssues ==
    ASSUME TypeOK, NEW t \in Threads, LoginOkCommit(t)
    PROVE  TokensAge /\ Issues(t)
  <1> DEFINE u == txn[t].user
  <1>1. PICK k \in TokenIds \ DOMAIN tokens :
            tokens' = Insert(tokens, k, NewToken(u, k))
    BY DEF LoginOkCommit
  <1>2. /\ jwts' = jwts \cup {NewJwt(u, txn[t].row.tenant, txn[t].row.role)}
        /\ txn[t].pc = "login_user"
    BY DEF LoginOkCommit
  <1>3. /\ DOMAIN tokens' = DOMAIN tokens \cup {k}
        /\ tokens'[k] = NewToken(u, k)
        /\ \A l \in DOMAIN tokens : tokens'[l] = tokens[l]
    BY <1>1 DEF Insert
  <1>4. TokensAge BY <1>3 DEF TokensAge
  <1>5. Issues(t)
    BY <1>2, <1>3 DEF Issues, IssuesToken, IssuesJwt, NewToken, NewJwt
  <1> QED BY <1>4, <1>5

LEMMA RefreshIssues ==
    ASSUME TypeOK, NEW t \in Threads, RefreshCommit(t)
    PROVE  TokensAge /\ Issues(t)
  <1> DEFINE k == txn[t].token
             u == txn[t].user
             revoked == Revoke(tokens, {k})
  <1>1. PICK new \in TokenIds \ DOMAIN tokens :
            tokens' = Insert(revoked, new, NewToken(u, tokens[k].family))
    BY DEF RefreshCommit
  <1>2. /\ jwts' = jwts \cup {NewJwt(u, txn[t].tenant, txn[t].role)}
        /\ txn[t].pc = "refresh"
    BY DEF RefreshCommit
  <1>3. /\ DOMAIN revoked = DOMAIN tokens
        /\ \A l \in DOMAIN tokens :
            /\ revoked[l].user = tokens[l].user
            /\ revoked[l].family = tokens[l].family
            /\ revoked[l].expiresAt = tokens[l].expiresAt
            /\ tokens[l].revoked => revoked[l].revoked
    BY RowFacts DEF Revoke, TokenRow
  <1> HIDE DEF revoked
  <1>4. /\ DOMAIN tokens' = DOMAIN tokens \cup {new}
        /\ tokens'[new] = NewToken(u, tokens[k].family)
        /\ \A l \in DOMAIN tokens : tokens'[l] = revoked[l]
    BY <1>1, <1>3 DEF Insert
  <1>5. TokensAge BY <1>3, <1>4 DEF TokensAge
  <1>6. Issues(t)
    BY <1>2, <1>4 DEF Issues, IssuesToken, IssuesJwt, NewToken, NewJwt
  <1> QED BY <1>5, <1>6

(* The commits that revoke tokens or leave them alone issue nothing.       *)
LEMMA StepIssues ==
    ASSUME TypeOK, NEW t \in Threads, Step(t)
    PROVE  TokensAge /\ Issues(t)
  <1>1. CASE UNCHANGED <<tokens, jwts>>
    BY <1>1 DEF TokensAge, Issues
  <1>2. ASSUME NEW ids, tokens' = Revoke(tokens, ids), jwts' = jwts
        PROVE  TokensAge /\ Issues(t)
    BY <1>2, RevokedAge DEF Issues
  <1>3. CASE AuthCommit(t)
    BY <1>1, <1>2, <1>3, RegisterIssues, LoginIssues, RefreshIssues
    DEF AuthCommit, LoginRefusedCommit, LoginWrongCommit, LogoutCommit
  <1>4. CASE AdminCommit(t)
    BY <1>1, <1>2, <1>4
    DEF AdminCommit, CreateUserCommit, UpdateRoleCommit, DeactivateCommit,
        CreateTenantCommit, UpdateTenantCommit
  <1>5. CASE BootstrapCommit(t)
    BY <1>1, <1>2, <1>5
    DEF BootstrapCommit, BootstrapCreateCommit, BootstrapUpdateCommit
  <1>6. CASE \E r : Hold(t, r) BY <1>1, <1>6, HoldKeeps
  <1> QED BY <1>3, <1>4, <1>5, <1>6, StepKinds DEF Commit

(* A request goes on to issue tokens only after its checks: a login's user *)
(* is active and not locked, a refresh's token is live and its user active.*)
Checked(r) ==
    /\ r.pc = "login_user" =>
        users[r.user].active /\ ~(users[r.user].lockedUntil > now)
    /\ r.pc = "refresh" =>
        /\ r.token \in DOMAIN tokens
        /\ r.user = tokens[r.token].user
        /\ users[r.user].active
        /\ Live(r.token)

LEMMA OtherReads ==
    ASSUME NEW t, NEW r, Hold(t, r), r.pc # "login_user", r.pc # "refresh"
    PROVE  \E x : txn' = [txn EXCEPT ![t] = x] /\ Checked(x)
  BY DEF Hold, Checked

LEMMA ReadsAreChecked ==
    ASSUME TypeOK, NEW t \in Threads, Step(t)
    PROVE  \E r : txn' = [txn EXCEPT ![t] = r] /\ Checked(r)
  <1>1. Checked(Idle) BY DEF Idle, Checked
  <1>2. CASE Finish(t) BY <1>1, <1>2 DEF Finish
  <1>3. CASE AuthStep(t)
    <2>1. CASE LoginReadUser(t)
      BY <2>1 DEF LoginReadUser, LoginRefused, Hold, Checked, IsLocked
    <2>2. CASE RefreshRead(t)
      <3> DEFINE Row(k) == [pc |-> "refresh", token |-> k, user |-> tokens[k].user,
                            tenant |-> users[tokens[k].user].tenant,
                            role |-> users[tokens[k].user].role]
      <3>1. PICK k \in DOMAIN tokens : ValidRefreshToken(k) /\ Hold(t, Row(k))
        BY <2>2 DEF RefreshRead
      <3>2. Checked(Row(k)) BY <3>1 DEF ValidRefreshToken, Checked, Live
      <3> HIDE DEF Row
      <3> QED BY <3>1, <3>2 DEF Hold
    <2>3. CASE RegisterRead(t) BY <2>3, OtherReads DEF RegisterRead
    <2>4. CASE LoginReadTenant(t)
      BY <2>4, OtherReads DEF LoginReadTenant, LoginRefused
    <2>5. CASE LogoutRead(t) BY <2>5, OtherReads DEF LogoutRead
    <2> QED
      BY <1>2, <1>3, <2>1, <2>2, <2>3, <2>4, <2>5
      DEF AuthStep, RegisterCommit, LoginRefusedCommit, LoginWrongCommit,
          LoginOkCommit, RefreshCommit, LogoutCommit
  <1>4. CASE Authenticate(t) BY <1>4, OtherReads DEF Authenticate
  <1>5. CASE UserManagementStep(t)
    <2>1. CASE CreateUserRead(t) BY <2>1, OtherReads DEF CreateUserRead
    <2>2. CASE UpdateRoleRead(t) BY <2>2, OtherReads DEF UpdateRoleRead
    <2>3. CASE DeactivateReadUser(t) BY <2>3, OtherReads DEF DeactivateReadUser
    <2>4. CASE DeactivateReadTokens(t)
      BY <2>4, OtherReads DEF DeactivateReadTokens
    <2> QED
      BY <1>2, <1>5, <2>1, <2>2, <2>3, <2>4
      DEF UserManagementStep, CreateUserCommit, UpdateRoleCommit, DeactivateCommit
  <1>6. CASE TenantStep(t)
    <2>1. CASE CreateTenantRead(t) BY <2>1, OtherReads DEF CreateTenantRead
    <2>2. CASE UpdateTenantRead(t) BY <2>2, OtherReads DEF UpdateTenantRead
    <2> QED
      BY <1>2, <1>6, <2>1, <2>2
      DEF TenantStep, CreateTenantCommit, UpdateTenantCommit
  <1>7. CASE BootstrapStep(t)
    <2>1. CASE BootstrapReadTenant(t) BY <2>1, OtherReads DEF BootstrapReadTenant
    <2>2. CASE BootstrapReadUser(t) BY <2>2, OtherReads DEF BootstrapReadUser
    <2>3. CASE BootstrapReadTokens(t)
      <3> DEFINE x == txn[t]
                 r == [pc |-> "bootstrap_update", user |-> x.user, row |-> x.row,
                       rotate |-> x.rotate, password |-> x.password,
                       tokens |-> UnrevokedTokens(x.user),
                       reactivate |-> x.reactivate]
      <3>1. r.pc = "bootstrap_update" OBVIOUS
      <3> QED BY <2>3, <3>1, OtherReads DEF BootstrapReadTokens
    <2> QED
      BY <1>2, <1>7, <2>1, <2>2, <2>3
      DEF BootstrapStep, BootstrapCreateCommit, BootstrapUpdateCommit
  <1>8. CASE Rollback(t) BY <1>1, <1>8 DEF Rollback, Hold
  <1> QED BY <1>3, <1>4, <1>5, <1>6, <1>7, <1>8 DEF Step

(* The effect of the other steps on what these properties talk about.      *)
LEMMA QuietStep ==
    ASSUME TypeOK, Tick \/ UNCHANGED vars
    PROVE  /\ UNCHANGED <<users, tokens, jwts, txn>>
           /\ now' \in Int /\ now' >= now
  BY RowFacts DEF Tick, vars, tables

LEMMA ClockStep == ASSUME TypeOK, NEW t \in Threads, Step(t) PROVE now' = now
  <1>1. CASE Commit(t)
    BY <1>1
    DEF Commit, AuthCommit, AdminCommit, BootstrapCommit, RegisterCommit,
        LoginRefusedCommit, LoginWrongCommit, LoginOkCommit, RefreshCommit,
        LogoutCommit, CreateUserCommit, UpdateRoleCommit, DeactivateCommit,
        CreateTenantCommit, UpdateTenantCommit, BootstrapCreateCommit,
        BootstrapUpdateCommit
  <1>2. CASE \E r : Hold(t, r) BY <1>2, HoldKeeps
  <1> QED BY <1>1, <1>2, StepKinds

(***************************************************************************)
(* Ended sessions.                                                         *)
(***************************************************************************)
LEMMA EndedKept ==
    ASSUME TypeOK, [Next]_vars, NEW f \in Sessions, Ended(f)
    PROVE  Ended(f)'
  <1>1. CASE Tick \/ UNCHANGED vars
    <2>1. UNCHANGED <<users, tokens, jwts, txn>> /\ now' \in Int /\ now' >= now
      BY <1>1, QuietStep
    <2>2. ASSUME NEW k \in LiveTokens(f)' PROVE k \in LiveTokens(f)
      BY <2>1, RowFacts DEF LiveTokens, Live
    <2> QED BY <2>1, <2>2 DEF Ended
  <1>2. ASSUME NEW t \in Threads, Step(t) PROVE Ended(f)'
    <2>1. TokensAge /\ Issues(t) /\ now' = now BY <1>2, StepIssues, ClockStep
    <2>2. \A k \in DOMAIN tokens' \ DOMAIN tokens : tokens'[k].family # f
      BY <2>1 DEF Issues, IssuesToken, Ended, Sessions
    <2>3. LiveTokens(f)' = {}
      <3>1. ASSUME NEW k \in LiveTokens(f)' PROVE k \in LiveTokens(f)
        BY <2>1, <2>2 DEF TokensAge, LiveTokens, Live
      <3> QED BY <3>1 DEF Ended
    <2>4. ASSUME NEW s \in Threads, txn'[s].pc = "refresh"
          PROVE  tokens'[txn'[s].token].family # f
      <3>1. PICK r : txn' = [txn EXCEPT ![t] = r] /\ Checked(r)
        BY <1>2, ReadsAreChecked
      <3>2. CASE s = t
        <4>1. txn'[s] = r BY <3>1, <3>2 DEF TypeOK
        <4>2. /\ r.token \in DOMAIN tokens /\ Live(r.token)
              /\ r.token \notin LiveTokens(f)
          BY <2>4, <3>1, <4>1 DEF Checked, Ended
        <4>3. tokens[r.token].family # f BY <4>2 DEF LiveTokens
        <4> QED BY <2>1, <4>1, <4>2, <4>3 DEF TokensAge
      <3>3. CASE s # t
        <4>1. txn'[s] = txn[s] BY <3>1, <3>3 DEF TypeOK
        <4>2. txn[s].token \in DOMAIN tokens
          BY <2>4, <4>1 DEF TypeOK, TxnOK
        <4>3. tokens[txn[s].token].family # f BY <2>4, <4>1 DEF Ended
        <4> QED BY <2>1, <4>1, <4>2, <4>3 DEF TokensAge
      <3> QED BY <3>2, <3>3
    <2> QED BY <2>3, <2>4 DEF Ended
  <1> QED BY <1>1, <1>2 DEF Next

(* A session that was logged out of, deactivated away or has expired gets  *)
(* no live token again, once the refreshes that had read one are over.     *)
THEOREM EndedForGood == Spec => EndedSessionsStayEnded
  <1>1. TypeOK /\ [Next]_vars => [\A f \in Sessions : Ended(f) => Ended(f)']_vars
    BY EndedKept
  <1> QED BY <1>1, Typing, PTL DEF Spec, EndedSessionsStayEnded

(***************************************************************************)
(* Deactivated and locked users.                                           *)
(***************************************************************************)

(* Whether a user may pass the checks of a login, of a refresh.            *)
LEMMA NobodyEnters ==
    ASSUME TypeOK, NEW t \in Threads, Step(t), NEW u, LoggingIn(u) = {}
    PROVE  /\ ~users[u].active \/ users[u].lockedUntil > now => LoggingIn(u)' = {}
           /\ ~users[u].active /\ Refreshing(u) = {} => Refreshing(u)' = {}
  <1>1. PICK r : txn' = [txn EXCEPT ![t] = r] /\ Checked(r) BY ReadsAreChecked
  <1>2. /\ txn'[t] = r
        /\ \A s \in Threads : s # t => txn'[s] = txn[s]
    BY <1>1 DEF TypeOK
  <1>3. ASSUME NEW s \in LoggingIn(u)'
        PROVE  users[u].active /\ ~(users[u].lockedUntil > now)
    <2>1. s = t BY <1>2 DEF LoggingIn
    <2> QED BY <1>1, <1>2, <2>1 DEF LoggingIn, Checked
  <1>4. ASSUME NEW s \in Refreshing(u)', Refreshing(u) = {}
        PROVE  users[u].active
    <2>1. s = t BY <1>2, <1>4 DEF Refreshing
    <2> QED BY <1>1, <1>2, <2>1 DEF Refreshing, Checked
  <1> QED BY <1>3, <1>4

LEMMA OutKept ==
    ASSUME TypeOK, [Next]_vars, NEW u \in DOMAIN users, Out(u)
    PROVE  /\ users'[u].active \/ Out(u)'
           /\ \A k \in DOMAIN tokens' \ DOMAIN tokens : tokens'[k].user # u
           /\ \A j \in jwts' \ jwts : j.user # u
  <1>1. CASE Tick \/ UNCHANGED vars
    BY <1>1, QuietStep DEF Out, LoggingIn, Refreshing
  <1>2. ASSUME NEW t \in Threads, Step(t)
        PROVE  /\ users'[u].active \/ Out(u)'
               /\ \A k \in DOMAIN tokens' \ DOMAIN tokens : tokens'[k].user # u
               /\ \A j \in jwts' \ jwts : j.user # u
    <2>1. LoggingIn(u)' = {} /\ Refreshing(u)' = {}
      BY <1>2, NobodyEnters DEF Out
    <2>2. ~(txn[t].pc \in {"login_user", "refresh"} /\ txn[t].user = u)
      BY DEF Out, LoggingIn, Refreshing
    <2>3. Issues(t) BY <1>2, StepIssues
    <2>4. \A k \in DOMAIN tokens' \ DOMAIN tokens : tokens'[k].user # u
      BY <2>2, <2>3 DEF Issues, IssuesToken
    <2>5. \A j \in jwts' \ jwts : j.user # u
      BY <2>2, <2>3 DEF Issues, IssuesJwt
    <2> QED BY <2>1, <2>4, <2>5 DEF Out
  <1> QED BY <1>1, <1>2 DEF Next

(* A deactivation is for good: whatever the deactivated user still holds,  *)
(* nothing turns it into a session or an access token.                     *)
THEOREM OutForGood == Spec => DeactivatedStayOut
  <1> DEFINE A == \A u \in DOMAIN users : Out(u) =>
                    /\ users'[u].active \/ Out(u)'
                    /\ \A k \in DOMAIN tokens' \ DOMAIN tokens : tokens'[k].user # u
                    /\ \A j \in jwts' \ jwts : j.user # u
  <1>1. TypeOK /\ [Next]_vars => [A]_vars BY OutKept
  <1> QED BY <1>1, Typing, PTL DEF Spec, DeactivatedStayOut

LEMMA BarredKept ==
    ASSUME TypeOK, [Next]_vars, NEW u \in DOMAIN users, Barred(u)
    PROVE  /\ LoggingIn(u)' = {}
           /\ \A f \in Sessions' \ Sessions : tokens'[f].user # u
  <1>1. CASE Tick \/ UNCHANGED vars
    BY <1>1, QuietStep DEF Barred, LoggingIn, Sessions
  <1>2. ASSUME NEW t \in Threads, Step(t)
        PROVE  /\ LoggingIn(u)' = {}
               /\ \A f \in Sessions' \ Sessions : tokens'[f].user # u
    <2>1. LoggingIn(u)' = {} BY <1>2, NobodyEnters DEF Barred
    <2>2. ~(txn[t].pc = "login_user" /\ txn[t].user = u)
      BY DEF Barred, LoggingIn
    <2>3. ASSUME NEW f \in Sessions' \ Sessions PROVE tokens'[f].user # u
      <3>1. TokensAge /\ Issues(t) BY <1>2, StepIssues
      <3>2. f \in DOMAIN tokens' \ DOMAIN tokens
        BY <2>3, <3>1 DEF Sessions, TokensAge
      <3>3. txn[t].pc = "refresh" => tokens[txn[t].token].family \in DOMAIN tokens
        BY DEF TypeOK, TxnOK, ForeignKeysOK
      <3> QED BY <2>2, <2>3, <3>1, <3>2, <3>3 DEF Issues, IssuesToken, Sessions
    <2> QED BY <2>1, <2>3
  <1> QED BY <1>1, <1>2 DEF Next

(* A lock keeps out every login that reads it, however many are sent.      *)
THEOREM LockHolds == Spec => LockedStayOut
  <1> DEFINE A == \A u \in DOMAIN users : Barred(u) =>
                    /\ LoggingIn(u)' = {}
                    /\ \A f \in Sessions' \ Sessions : tokens'[f].user # u
  <1>1. TypeOK /\ [Next]_vars => [A]_vars BY BarredKept
  <1> QED BY <1>1, Typing, PTL DEF Spec, LockedStayOut

====
