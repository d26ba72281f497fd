---- MODULE IdentityProofs ----
(***************************************************************************)
(* Proofs about the service for every number of tenants, users, tokens and *)
(* threads, every set of endpoints in use and every setting of the limits. *)
(***************************************************************************)
EXTENDS IdentityProperties, TLAPS

(***************************************************************************)
(* Tables.                                                                 *)
(***************************************************************************)

(* What INSERT leaves in a table.                                          *)
LEMMA InsertFacts ==
    ASSUME NEW table, NEW id, NEW row
    PROVE  /\ DOMAIN Insert(table, id, row) = DOMAIN table \cup {id}
           /\ Insert(table, id, row)[id] = row
           /\ id \notin DOMAIN table =>
                \A k \in DOMAIN table : Insert(table, id, row)[k] = table[k]
  BY DEF Insert

LEMMA InsertType ==
    ASSUME NEW table, NEW id, NEW row, NEW Ids, NEW Row,
           DOMAIN table \subseteq Ids, table \in [DOMAIN table -> Row],
           id \in Ids, row \in Row
    PROVE  /\ DOMAIN Insert(table, id, row) \subseteq Ids
           /\ Insert(table, id, row) \in [DOMAIN Insert(table, id, row) -> Row]
  BY DEF Insert

(* What the revocation of some tokens leaves in table refresh_tokens.      *)
LEMMA RevokeFacts ==
    ASSUME NEW table, NEW ids, table \in [DOMAIN table -> TokenRow]
    PROVE  /\ DOMAIN Revoke(table, ids) = DOMAIN table
           /\ Revoke(table, ids) \in [DOMAIN table -> TokenRow]
           /\ \A k \in DOMAIN table :
                /\ Revoke(table, ids)[k].user = table[k].user
                /\ Revoke(table, ids)[k].family = table[k].family
  BY DEF Revoke, TokenRow

(* Rows are neither deleted nor moved to another tenant or user.           *)
Grows(tn, us, tk, tn2, us2, tk2) ==
    /\ DOMAIN tn \subseteq DOMAIN tn2
    /\ \A u \in DOMAIN us : u \in DOMAIN us2 /\ us2[u].tenant = us[u].tenant
    /\ \A k \in DOMAIN tk : k \in DOMAIN tk2 /\ tk2[k].user = tk[k].user

(* What a request remembers stays good while other requests commit.        *)
LEMMA TxnStable ==
    ASSUME NEW x, NEW tn, NEW us, NEW tk, NEW tn2, NEW us2, NEW tk2,
           Grows(tn, us, tk, tn2, us2, tk2), TxnOK(x, tn, us, tk)
    PROVE  TxnOK(x, tn2, us2, tk2)
  BY DEF Grows, TxnOK, ActorOK

LEMMA IdleOK == ASSUME NEW tn, NEW us, NEW tk PROVE TxnOK(Idle, tn, us, tk)
  BY DEF Idle, TxnOK, PrincipalPcs

(* One thread moves on while the tables grow.                              *)
LEMMA TxnStep ==
    ASSUME TypeOK, NEW t \in Threads, NEW r,
           txn' = [txn EXCEPT ![t] = r],
           Grows(tenants, users, tokens, tenants', users', tokens'),
           TxnOK(r, tenants', users', tokens')
    PROVE  /\ DOMAIN txn' = Threads
           /\ \A s \in Threads : TxnOK(txn'[s], tenants', users', tokens')
  <1>1. DOMAIN txn' = Threads BY DEF TypeOK
  <1>2. ASSUME NEW s \in Threads
        PROVE  TxnOK(txn'[s], tenants', users', tokens')
    <2>1. CASE s = t
      <3>1. txn'[s] = r BY <2>1 DEF TypeOK
      <3> QED BY <3>1
    <2>2. CASE s # t
      <3>1. txn'[s] = txn[s] BY <2>2 DEF TypeOK
      <3>2. TxnOK(txn[s], tenants, users, tokens) BY DEF TypeOK
      <3> QED BY <3>1, <3>2, TxnStable
    <2> QED BY <2>1, <2>2
  <1> QED BY <1>1, <1>2

(* A statement that only reads.                                            *)
LEMMA HoldStep ==
    ASSUME TypeOK, NEW t \in Threads, NEW r, Hold(t, r),
           TxnOK(r, tenants, users, tokens)
    PROVE  TypeOK'
  <1>1. UNCHANGED <<now, tenants, users, tokens, audit, jwts, strikes>>
    BY DEF Hold, tables
  <1>2. Grows(tenants, users, tokens, tenants', users', tokens')
    BY <1>1 DEF Grows
  <1>3. TxnOK(r, tenants', users', tokens') BY <1>1
  <1>4. txn' = [txn EXCEPT ![t] = r] BY DEF Hold
  <1>5. /\ DOMAIN txn' = Threads
        /\ \A s \in Threads : TxnOK(txn'[s], tenants', users', tokens')
    BY <1>2, <1>3, <1>4, TxnStep
  <1>6. TablesOK' /\ ForeignKeysOK'
    BY <1>1 DEF TypeOK, TablesOK, ForeignKeysOK
  <1> QED BY <1>5, <1>6 DEF TypeOK

(* A commit: the thread is free again.                                     *)
LEMMA CommitStep ==
    ASSUME TypeOK, NEW t \in Threads, Finish(t), TablesOK', ForeignKeysOK',
           Grows(tenants, users, tokens, tenants', users', tokens')
    PROVE  TypeOK'
  <1>1. txn' = [txn EXCEPT ![t] = Idle] BY DEF Finish
  <1>2. TxnOK(Idle, tenants', users', tokens') BY IdleOK
  <1>3. /\ DOMAIN txn' = Threads
        /\ \A s \in Threads : TxnOK(txn'[s], tenants', users', tokens')
    BY <1>1, <1>2, TxnStep
  <1> QED BY <1>3 DEF TypeOK

(***************************************************************************)
(* Every action keeps the types.                                           *)
(***************************************************************************)
LEMMA TimesFact ==
    ASSUME now \in 1 .. MaxTime
    PROVE  /\ now + LockoutTTL \in Times /\ now + RefreshTTL \in Times
           /\ now + AccessTTL \in Times /\ 0 \in Times
  BY LimitsAssumption DEF Times

(* The rows _issue_tokens_for_user adds.                                   *)
LEMMA IssueType ==
    ASSUME now \in 1 .. MaxTime, NEW u \in UserIds, NEW n \in TenantIds,
           NEW role \in Roles, NEW f \in TokenIds
    PROVE  NewToken(u, f) \in TokenRow /\ NewJwt(u, n, role) \in AccessToken
  BY TimesFact DEF NewToken, NewJwt, TokenRow, AccessToken

LEMMA RegisterReadType ==
    ASSUME TypeOK, NEW t \in Threads, RegisterRead(t) PROVE TypeOK'
  <1>1. PICK slug \in Slugs, email \in Emails, password \in Passwords :
            Hold(t, [pc |-> "register", slug |-> slug, email |-> email,
                     password |-> password])
    BY SpellingAssumption DEF RegisterRead, BodySlugs, BodyEmails
  <1> QED BY <1>1, HoldStep DEF TxnOK, PrincipalPcs

LEMMA RegisterCommitType ==
    ASSUME TypeOK, NEW t \in Threads, RegisterCommit(t) PROVE TypeOK'
  <1> DEFINE x == txn[t]
  <1>1. PICK n \in TenantIds \ DOMAIN tenants, u \in UserIds \ DOMAIN users,
             k \in TokenIds \ DOMAIN tokens :
            /\ tenants' = Insert(tenants, n, [slug |-> x.slug, active |-> TRUE])
            /\ users' = Insert(users, u,
                   [tenant |-> n, email |-> x.email, password |-> x.password,
                    role |-> "TENANT_ADMIN", active |-> TRUE, failed |-> 0,
                    lockedUntil |-> 0])
            /\ tokens' = Insert(tokens, k, NewToken(u, k))
            /\ jwts' = jwts \cup {NewJwt(u, n, "TENANT_ADMIN")}
    BY DEF RegisterCommit
  <1>2. /\ x.slug \in Slugs /\ x.email \in Emails /\ x.password \in Passwords
        /\ now \in 1 .. MaxTime
    BY DEF RegisterCommit, TypeOK, TxnOK, TablesOK
  <1>3. UNCHANGED <<now, strikes>> /\ Finish(t) BY DEF RegisterCommit
  <1>4. /\ [slug |-> x.slug, active |-> TRUE] \in TenantRow
        /\ [tenant |-> n, email |-> x.email, password |-> x.password,
            role |-> "TENANT_ADMIN", active |-> TRUE, failed |-> 0,
            lockedUntil |-> 0] \in UserRow
        /\ NewToken(u, k) \in TokenRow
        /\ NewJwt(u, n, "TENANT_ADMIN") \in AccessToken
    BY <1>2, TimesFact, IssueType DEF TenantRow, UserRow, Roles
  <1>5. TablesOK'
    BY <1>1, <1>3, <1>4, InsertType DEF TypeOK, TablesOK
  <1>6. /\ DOMAIN tenants' = DOMAIN tenants \cup {n}
        /\ DOMAIN users' = DOMAIN users \cup {u}
        /\ DOMAIN tokens' = DOMAIN tokens \cup {k}
        /\ users'[u].tenant = n
        /\ tokens'[k].user = u /\ tokens'[k].family = k
        /\ \A v \in DOMAIN users : users'[v] = users[v]
        /\ \A l \in DOMAIN tokens : tokens'[l] = tokens[l]
    <2>1. DOMAIN tenants' = DOMAIN tenants \cup {n} BY <1>1, InsertFacts
    <2>2. /\ DOMAIN users' = DOMAIN users \cup {u}
          /\ users'[u].tenant = n
          /\ \A v \in DOMAIN users : users'[v] = users[v]
      BY <1>1 DEF Insert
    <2>3. /\ DOMAIN tokens' = DOMAIN tokens \cup {k}
          /\ tokens'[k] = NewToken(u, k)
          /\ \A l \in DOMAIN tokens : tokens'[l] = tokens[l]
      BY <1>1 DEF Insert
    <2> QED BY <2>1, <2>2, <2>3 DEF NewToken
  <1>7. ForeignKeysOK'
    <2>1. \A j \in jwts' : j.user \in DOMAIN users' /\ j.tenant \in DOMAIN tenants'
      BY <1>1, <1>6 DEF TypeOK, ForeignKeysOK, NewJwt
    <2>2. \A v \in DOMAIN users' : users'[v].tenant \in DOMAIN tenants'
      BY <1>6 DEF TypeOK, ForeignKeysOK
    <2>3. \A l \in DOMAIN tokens' :
            tokens'[l].user \in DOMAIN users' /\ tokens'[l].family \in DOMAIN tokens'
      BY <1>6 DEF TypeOK, ForeignKeysOK
    <2> QED BY <2>1, <2>2, <2>3 DEF ForeignKeysOK
  <1>8. Grows(tenants, users, tokens, tenants', users', tokens')
    BY <1>6 DEF Grows
  <1> QED BY <1>3, <1>5, <1>7, <1>8, CommitStep

LEMMA LoginReadTenantType ==
    ASSUME TypeOK, NEW t \in Threads, LoginReadTenant(t) PROVE TypeOK'
  <1>1. CASE \E n \in DOMAIN tenants : Hold(t, [pc |-> "login_tenant", tenant |-> n])
    BY <1>1, HoldStep DEF TxnOK, PrincipalPcs
  <1>2. CASE \E entry : LoginRefused(t, entry)
    BY <1>2, HoldStep DEF LoginRefused, TxnOK, PrincipalPcs
  <1> QED BY <1>1, <1>2 DEF LoginReadTenant, TenantsBySlug

LEMMA LoginReadUserType ==
    ASSUME TypeOK, NEW t \in Threads, LoginReadUser(t) PROVE TypeOK'
  <1>1. CASE \E entry : LoginRefused(t, entry)
    BY <1>1, HoldStep DEF LoginRefused, TxnOK, PrincipalPcs
  <1>2. CASE \E u \in DOMAIN users :
            Hold(t, [pc |-> "login_user", user |-> u, row |-> users[u],
                     expired |-> LockExpired(users[u])])
    <2>1. PICK u \in DOMAIN users :
            Hold(t, [pc |-> "login_user", user |-> u, row |-> users[u],
                     expired |-> LockExpired(users[u])])
      BY <1>2
    <2>2. users[u] \in UserRow /\ LockExpired(users[u]) \in BOOLEAN
      BY DEF TypeOK, TablesOK, LockExpired
    <2> QED BY <2>1, <2>2, HoldStep DEF TxnOK, PrincipalPcs
  <1> QED BY <1>1, <1>2 DEF LoginReadUser, UsersByEmail

LEMMA LoginRefusedCommitType ==
    ASSUME TypeOK, NEW t \in Threads, LoginRefusedCommit(t) PROVE TypeOK'
  <1>1. UNCHANGED <<now, tenants, users, tokens, jwts, strikes>> /\ Finish(t)
    BY DEF LoginRefusedCommit
  <1>2. TablesOK' /\ ForeignKeysOK'
    BY <1>1 DEF TypeOK, TablesOK, ForeignKeysOK
  <1>3. Grows(tenants, users, tokens, tenants', users', tokens')
    BY <1>1 DEF Grows
  <1> QED BY <1>1, <1>2, <1>3, CommitStep

(* UPDATE of a user row that leaves it in its tenant.                      *)
LEMMA UserUpdated ==
    ASSUME TypeOK, NEW u \in DOMAIN users, NEW row \in UserRow,
           row.tenant = users[u].tenant, users' = [users EXCEPT ![u] = row]
    PROVE  /\ DOMAIN users' = DOMAIN users
           /\ users' \in [DOMAIN users -> UserRow]
           /\ \A v \in DOMAIN users : users'[v].tenant = users[v].tenant
  BY DEF TypeOK, TablesOK

(* A commit that adds no user and no token and moves none.                 *)
LEMMA KeysKept ==
    ASSUME TypeOK, DOMAIN tenants \subseteq DOMAIN tenants',
           DOMAIN users' = DOMAIN users, DOMAIN tokens' = DOMAIN tokens,
           \A v \in DOMAIN users : users'[v].tenant = users[v].tenant,
           \A k \in DOMAIN tokens : /\ tokens'[k].user = tokens[k].user
                                    /\ tokens'[k].family = tokens[k].family,
           jwts' = jwts
    PROVE  /\ ForeignKeysOK'
           /\ Grows(tenants, users, tokens, tenants', users', tokens')
  BY DEF TypeOK, ForeignKeysOK, Grows

(* The lock columns a login writes, and a session issued with them.        *)
LEMMA WriteLockType ==
    ASSUME TypeOK, NEW u \in DOMAIN users, NEW row \in UserRow,
           NEW failed \in Nat, NEW lock \in Times,
           users' = WriteLock(u, row, failed, lock)
    PROVE  /\ DOMAIN users' = DOMAIN users
           /\ users' \in [DOMAIN users -> UserRow]
           /\ \A v \in DOMAIN users : users'[v].tenant = users[v].tenant
  <1> DEFINE new == [users[u] EXCEPT
                        !.failed = Write(row.failed, failed, users[u].failed),
                        !.lockedUntil =
                            Write(row.lockedUntil, lock, users[u].lockedUntil)]
  <1>1. users[u] \in UserRow BY DEF TypeOK, TablesOK
  <1>2. new \in UserRow /\ new.tenant = users[u].tenant
    BY <1>1 DEF UserRow, Write
  <1>3. users' = [users EXCEPT ![u] = new] BY DEF WriteLock
  <1> QED BY <1>2, <1>3, UserUpdated

LEMMA LoginWrongCommitType ==
    ASSUME TypeOK, NEW t \in Threads, LoginWrongCommit(t) PROVE TypeOK'
  <1> DEFINE u == txn[t].user
             row == txn[t].row
             failed == IF txn[t].expired THEN 1 ELSE row.failed + 1
             lock == IF failed >= MaxFailed THEN now + LockoutTTL ELSE 0
  <1>1. /\ u \in DOMAIN users /\ row \in UserRow /\ txn[t].expired \in BOOLEAN
        /\ now \in 1 .. MaxTime /\ u \in UserIds
    BY DEF LoginWrongCommit, TypeOK, TxnOK, TablesOK
  <1>2. failed \in Nat /\ lock \in Times BY <1>1, TimesFact DEF UserRow
  <1>3. /\ users' = WriteLock(u, row, failed, lock)
        /\ strikes' = [strikes EXCEPT ![u] =
                IF txn[t].expired THEN 1
                ELSE IF @ < MaxFailed THEN @ + 1 ELSE @]
        /\ UNCHANGED <<now, tenants, tokens, jwts>> /\ Finish(t)
    BY DEF LoginWrongCommit
  <1> HIDE DEF failed, lock
  <1>4. /\ DOMAIN users' = DOMAIN users
        /\ users' \in [DOMAIN users -> UserRow]
        /\ \A v \in DOMAIN users : users'[v].tenant = users[v].tenant
    BY <1>1, <1>2, <1>3, WriteLockType
  <1>5. strikes' \in [UserIds -> 0 .. MaxFailed]
    BY <1>1, <1>3, LimitsAssumption DEF TypeOK, TablesOK
  <1>6. TablesOK' BY <1>3, <1>4, <1>5 DEF TypeOK, TablesOK
  <1>7. /\ ForeignKeysOK'
        /\ Grows(tenants, users, tokens, tenants', users', tokens')
    BY <1>3, <1>4, KeysKept
  <1> QED BY <1>3, <1>6, <1>7, CommitStep

LEMMA LoginOkCommitType ==
    ASSUME TypeOK, NEW t \in Threads, LoginOkCommit(t) PROVE TypeOK'
  <1> DEFINE u == txn[t].user
             row == txn[t].row
  <1>1. /\ u \in DOMAIN users /\ row \in UserRow /\ row.tenant = users[u].tenant
        /\ now \in 1 .. MaxTime /\ u \in UserIds
    BY DEF LoginOkCommit, TypeOK, TxnOK, TablesOK
  <1>2. PICK k \in TokenIds \ DOMAIN tokens :
            tokens' = Insert(tokens, k, NewToken(u, k))
    BY DEF LoginOkCommit
  <1>3. /\ users' = WriteLock(u, row, 0, 0)
        /\ jwts' = jwts \cup {NewJwt(u, row.tenant, row.role)}
        /\ strikes' = [strikes EXCEPT ![u] = 0]
        /\ UNCHANGED <<now, tenants>> /\ Finish(t)
    BY DEF LoginOkCommit
  <1>4. /\ DOMAIN users' = DOMAIN users
        /\ users' \in [DOMAIN users -> UserRow]
        /\ \A v \in DOMAIN users : users'[v].tenant = users[v].tenant
    BY <1>1, <1>3, TimesFact, WriteLockType
  <1>5. /\ NewToken(u, k) \in TokenRow
        /\ NewJwt(u, row.tenant, row.role) \in AccessToken
    BY <1>1, IssueType DEF UserRow
  <1>6. /\ DOMAIN tokens' \subseteq TokenIds
        /\ tokens' \in [DOMAIN tokens' -> TokenRow]
    BY <1>2, <1>5, InsertType DEF TypeOK, TablesOK
  <1>7. strikes' \in [UserIds -> 0 .. MaxFailed]
    <2>1. 0 \in 0 .. MaxFailed BY LimitsAssumption
    <2> QED BY <1>1, <1>3, <2>1 DEF TypeOK, TablesOK
  <1>8. TablesOK' BY <1>3, <1>4, <1>5, <1>6, <1>7 DEF TypeOK, TablesOK
  <1>9. /\ DOMAIN tokens' = DOMAIN tokens \cup {k}
        /\ tokens'[k] = NewToken(u, k)
        /\ \A l \in DOMAIN tokens : tokens'[l] = tokens[l]
    BY <1>2 DEF Insert
  <1>10. ForeignKeysOK'
    <2>1. \A j \in jwts' : j.user \in DOMAIN users' /\ j.tenant \in DOMAIN tenants'
      BY <1>1, <1>3, <1>4 DEF TypeOK, ForeignKeysOK, NewJwt
    <2>2. \A v \in DOMAIN users' : users'[v].tenant \in DOMAIN tenants'
      BY <1>3, <1>4 DEF TypeOK, ForeignKeysOK
    <2>3. \A l \in DOMAIN tokens' :
            tokens'[l].user \in DOMAIN users' /\ tokens'[l].family \in DOMAIN tokens'
      BY <1>1, <1>4, <1>9 DEF TypeOK, ForeignKeysOK, NewToken
    <2> QED BY <2>1, <2>2, <2>3 DEF ForeignKeysOK
  <1>11. Grows(tenants, users, tokens, tenants', users', tokens')
    BY <1>3, <1>4, <1>9 DEF Grows
  <1> QED BY <1>3, <1>8, <1>10, <1>11, CommitStep

LEMMA RefreshReadType ==
    ASSUME TypeOK, NEW t \in Threads, RefreshRead(t) PROVE TypeOK'
  <1>1. PICK k \in DOMAIN tokens :
            Hold(t, [pc |-> "refresh", token |-> k, user |-> tokens[k].user,
                     tenant |-> users[tokens[k].user].tenant,
                     role |-> users[tokens[k].user].role])
    BY DEF RefreshRead
  <1>2. tokens[k].user \in DOMAIN users /\ users[tokens[k].user].role \in Roles
    BY DEF TypeOK, TablesOK, ForeignKeysOK, UserRow
  <1> QED BY <1>1, <1>2, HoldStep DEF TxnOK, PrincipalPcs

LEMMA RefreshCommitType ==
    ASSUME TypeOK, NEW t \in Threads, RefreshCommit(t) PROVE TypeOK'
  <1> DEFINE k == txn[t].token
             u == txn[t].user
             n == txn[t].tenant
             role == txn[t].role
             f == tokens[k].family
             revoked == Revoke(tokens, {k})
  <1>1. /\ k \in DOMAIN tokens /\ u = tokens[k].user /\ u \in DOMAIN users
        /\ n = users[u].tenant /\ role \in Roles
        /\ now \in 1 .. MaxTime /\ u \in UserIds
    BY DEF RefreshCommit, TypeOK, TxnOK, TablesOK
  <1>2. PICK new \in TokenIds \ DOMAIN tokens :
            tokens' = Insert(revoked, new, NewToken(u, f))
    BY DEF RefreshCommit
  <1>3. /\ jwts' = jwts \cup {NewJwt(u, n, role)}
        /\ UNCHANGED <<now, tenants, users, strikes>> /\ Finish(t)
    BY DEF RefreshCommit
  <1>4. f \in DOMAIN tokens /\ f \in TokenIds /\ n \in TenantIds /\ n \in DOMAIN tenants
    BY <1>1 DEF TypeOK, TablesOK, ForeignKeysOK
  <1>5. /\ NewToken(u, f) \in TokenRow
        /\ NewJwt(u, n, role) \in AccessToken
    BY <1>1, <1>4, IssueType
  <1>6. /\ DOMAIN revoked = DOMAIN tokens
        /\ revoked \in [DOMAIN tokens -> TokenRow]
        /\ \A l \in DOMAIN tokens : /\ revoked[l].user = tokens[l].user
                                    /\ revoked[l].family = tokens[l].family
    BY RevokeFacts DEF TypeOK, TablesOK
  <1> HIDE DEF revoked, k, u, n, role, f
  <1>7. /\ DOMAIN tokens' \subseteq TokenIds
        /\ tokens' \in [DOMAIN tokens' -> TokenRow]
    BY <1>2, <1>5, <1>6, InsertType DEF TypeOK, TablesOK
  <1>8. TablesOK' BY <1>3, <1>5, <1>7 DEF TypeOK, TablesOK
  <1>9. /\ DOMAIN tokens' = DOMAIN tokens \cup {new}
        /\ tokens'[new] = NewToken(u, f)
        /\ \A l \in DOMAIN tokens : tokens'[l] = revoked[l]
    BY <1>2, <1>6 DEF Insert
  <1>10. ForeignKeysOK'
    <2>1. \A j \in jwts' : j.user \in DOMAIN users' /\ j.tenant \in DOMAIN tenants'
      BY <1>1, <1>3, <1>4 DEF TypeOK, ForeignKeysOK, NewJwt
    <2>2. \A v \in DOMAIN users' : users'[v].tenant \in DOMAIN tenants'
      BY <1>3 DEF TypeOK, ForeignKeysOK
    <2>3. \A l \in DOMAIN tokens' :
            tokens'[l].user \in DOMAIN users' /\ tokens'[l].family \in DOMAIN tokens'
      BY <1>1, <1>3, <1>4, <1>6, <1>9 DEF TypeOK, ForeignKeysOK, NewToken
    <2> QED BY <2>1, <2>2, <2>3 DEF ForeignKeysOK
  <1>11. Grows(tenants, users, tokens, tenants', users', tokens')
    BY <1>3, <1>6, <1>9 DEF Grows
  <1> QED BY <1>3, <1>8, <1>10, <1>11, CommitStep

LEMMA LogoutReadType ==
    ASSUME TypeOK, NEW t \in Threads, LogoutRead(t) PROVE TypeOK'
  <1>1. PICK k \in DOMAIN tokens :
            Hold(t, [pc |-> "logout", token |-> k, user |-> tokens[k].user,
                     tenant |-> users[tokens[k].user].tenant])
    BY DEF LogoutRead
  <1>2. tokens[k].user \in DOMAIN users BY DEF TypeOK, ForeignKeysOK
  <1> QED BY <1>1, <1>2, HoldStep DEF TxnOK, PrincipalPcs

(* A commit that changes refresh tokens by revoking some.                  *)
LEMMA RevokedType ==
    ASSUME TypeOK, NEW ids, tokens' = Revoke(tokens, ids)
    PROVE  /\ DOMAIN tokens' = DOMAIN tokens
           /\ tokens' \in [DOMAIN tokens -> TokenRow]
           /\ \A k \in DOMAIN tokens : /\ tokens'[k].user = tokens[k].user
                                        /\ tokens'[k].family = tokens[k].family
  BY RevokeFacts DEF TypeOK, TablesOK

LEMMA LogoutCommitType ==
    ASSUME TypeOK, NEW t \in Threads, LogoutCommit(t) PROVE TypeOK'
  <1>1. /\ tokens' = Revoke(tokens, {txn[t].token})
        /\ UNCHANGED <<now, tenants, users, jwts, strikes>> /\ Finish(t)
    BY DEF LogoutCommit
  <1>2. /\ DOMAIN tokens' = DOMAIN tokens
        /\ tokens' \in [DOMAIN tokens -> TokenRow]
        /\ \A k \in DOMAIN tokens : /\ tokens'[k].user = tokens[k].user
                                     /\ tokens'[k].family = tokens[k].family
    BY <1>1, RevokedType
  <1>3. TablesOK' BY <1>1, <1>2 DEF TypeOK, TablesOK
  <1>4. /\ ForeignKeysOK'
        /\ Grows(tenants, users, tokens, tenants', users', tokens')
    BY <1>1, <1>2, KeysKept
  <1> QED BY <1>1, <1>3, <1>4, CommitStep

LEMMA AuthenticateType ==
    ASSUME TypeOK, NEW t \in Threads, Authenticate(t) PROVE TypeOK'
  <1>1. PICK j \in jwts :
            Hold(t, [pc |-> "authenticated",
                     actor |-> [user |-> j.user, tenant |-> j.tenant,
                                role |-> j.role]])
    BY DEF Authenticate
  <1>2. /\ j \in AccessToken
        /\ j.user \in DOMAIN users /\ j.tenant \in DOMAIN tenants
    BY DEF TypeOK, TablesOK, ForeignKeysOK
  <1>3. ActorOK([user |-> j.user, tenant |-> j.tenant, role |-> j.role],
                tenants, users)
    BY <1>2 DEF AccessToken, Principal, ActorOK
  <1> QED BY <1>1, <1>3, HoldStep DEF TxnOK

(* The principal a request acts for has been checked against the schema.   *)
LEMMA ActorFact ==
    ASSUME TypeOK, NEW t \in Threads, ActsAsPrincipal(t)
    PROVE  ActorOK(txn[t].actor, tenants, users)
  BY DEF TypeOK, TxnOK, ActsAsPrincipal

LEMMA CreateUserReadType ==
    ASSUME TypeOK, NEW t \in Threads, CreateUserRead(t) PROVE TypeOK'
  <1>1. PICK n \in DOMAIN tenants, email \in Emails, password \in Passwords,
             role \in Roles, active \in BOOLEAN :
            Hold(t, [pc |-> "create_user", actor |-> txn[t].actor,
                     tenant |-> n, email |-> email, password |-> password,
                     role |-> role, active |-> active])
    BY SpellingAssumption DEF CreateUserRead, BodyEmails
  <1>2. ActorOK(txn[t].actor, tenants, users)
    BY ActorFact DEF CreateUserRead, ActsAsPrincipal, PrincipalPcs
  <1> QED BY <1>1, <1>2, HoldStep DEF TxnOK

LEMMA CreateUserCommitType ==
    ASSUME TypeOK, NEW t \in Threads, CreateUserCommit(t) PROVE TypeOK'
  <1> DEFINE x == txn[t]
             row == [tenant |-> x.tenant, email |-> x.email,
                     password |-> x.password, role |-> x.role,
                     active |-> x.active, failed |-> 0, lockedUntil |-> 0]
  <1>1. PICK u \in UserIds \ DOMAIN users : users' = Insert(users, u, row)
    BY DEF CreateUserCommit
  <1>2. /\ UNCHANGED <<now, tenants, tokens, jwts, strikes>> /\ Finish(t)
        /\ now \in 1 .. MaxTime /\ x.tenant \in DOMAIN tenants
    BY DEF CreateUserCommit, TypeOK, TxnOK, TablesOK
  <1>3. row \in UserRow
    BY <1>2, TimesFact DEF CreateUserCommit, TypeOK, TxnOK, TablesOK, UserRow
  <1> HIDE DEF x
  <1>4. TablesOK' BY <1>1, <1>2, <1>3, InsertType DEF TypeOK, TablesOK
  <1>5. /\ DOMAIN users' = DOMAIN users \cup {u}
        /\ users'[u].tenant = x.tenant
        /\ \A v \in DOMAIN users : users'[v] = users[v]
    BY <1>1 DEF Insert
  <1>6. ForeignKeysOK' BY <1>2, <1>5 DEF TypeOK, ForeignKeysOK
  <1>7. Grows(tenants, users, tokens, tenants', users', tokens')
    BY <1>2, <1>5 DEF Grows
  <1> QED BY <1>2, <1>4, <1>6, <1>7, CommitStep

LEMMA UpdateRoleReadType ==
    ASSUME TypeOK, NEW t \in Threads, UpdateRoleRead(t) PROVE TypeOK'
  <1>1. PICK n \in DOMAIN tenants, role \in Roles,
             u \in DOMAIN users :
         /\ u \in VisibleUsers(txn[t].actor, n)
         /\ Hold(t, [pc |-> "update_role", actor |-> txn[t].actor,
                     user |-> u, tenant |-> n,
                     old |-> users[u].role, new |-> role])
    BY DEF UpdateRoleRead, VisibleUsers
  <1>2. u \in DOMAIN users /\ n = users[u].tenant /\ users[u].role \in Roles
    BY <1>1 DEF VisibleUsers, TypeOK, TablesOK, UserRow
  <1>3. ActorOK(txn[t].actor, tenants, users)
    BY ActorFact DEF UpdateRoleRead, ActsAsPrincipal, PrincipalPcs
  <1> QED BY <1>1, <1>2, <1>3, HoldStep DEF TxnOK

LEMMA UpdateRoleCommitType ==
    ASSUME TypeOK, NEW t \in Threads, UpdateRoleCommit(t) PROVE TypeOK'
  <1> DEFINE u == txn[t].user
             old == txn[t].old
             role == txn[t].new
             row == [users[u] EXCEPT !.role = Write(old, role, users[u].role)]
  <1>1. /\ u \in DOMAIN users /\ role \in Roles
        /\ UNCHANGED <<now, tenants, tokens, jwts, strikes>> /\ Finish(t)
    BY DEF UpdateRoleCommit, TypeOK, TxnOK
  <1>2. users[u] \in UserRow BY <1>1 DEF TypeOK, TablesOK
  <1>3. row \in UserRow /\ row.tenant = users[u].tenant
    BY <1>1, <1>2 DEF UserRow, Write
  <1>4. users' = [users EXCEPT ![u] = row] BY DEF UpdateRoleCommit
  <1>5. /\ DOMAIN users' = DOMAIN users
        /\ users' \in [DOMAIN users -> UserRow]
        /\ \A v \in DOMAIN users : users'[v].tenant = users[v].tenant
    BY <1>1, <1>3, <1>4, UserUpdated
  <1>6. TablesOK' BY <1>1, <1>5 DEF TypeOK, TablesOK
  <1>7. /\ ForeignKeysOK'
        /\ Grows(tenants, users, tokens, tenants', users', tokens')
    BY <1>1, <1>5, KeysKept
  <1> QED BY <1>1, <1>6, <1>7, CommitStep

LEMMA DeactivateReadUserType ==
    ASSUME TypeOK, NEW t \in Threads, DeactivateReadUser(t) PROVE TypeOK'
  <1>1. PICK n \in DOMAIN tenants, u \in DOMAIN users :
         /\ u \in VisibleUsers(txn[t].actor, n)
         /\ Hold(t, [pc |-> "deactivate_user", actor |-> txn[t].actor,
                     user |-> u, tenant |-> n])
    BY DEF DeactivateReadUser, VisibleUsers
  <1>2. u \in DOMAIN users /\ n = users[u].tenant
    BY <1>1 DEF VisibleUsers
  <1>3. ActorOK(txn[t].actor, tenants, users)
    BY ActorFact DEF DeactivateReadUser, ActsAsPrincipal, PrincipalPcs
  <1> QED BY <1>1, <1>2, <1>3, HoldStep DEF TxnOK

LEMMA DeactivateReadTokensType ==
    ASSUME TypeOK, NEW t \in Threads, DeactivateReadTokens(t) PROVE TypeOK'
  <1>1. /\ ActorOK(txn[t].actor, tenants, users)
        /\ txn[t].user \in DOMAIN users
        /\ txn[t].tenant = users[txn[t].user].tenant
    BY DEF DeactivateReadTokens, TypeOK, TxnOK, PrincipalPcs
  <1>2. UnrevokedTokens(txn[t].user) \subseteq DOMAIN tokens
    BY DEF UnrevokedTokens
  <1>3. Hold(t, [pc |-> "deactivate", actor |-> txn[t].actor,
                 user |-> txn[t].user, tenant |-> txn[t].tenant,
                 tokens |-> UnrevokedTokens(txn[t].user)])
    BY DEF DeactivateReadTokens
  <1> QED BY <1>1, <1>2, <1>3, HoldStep DEF TxnOK

LEMMA DeactivateCommitType ==
    ASSUME TypeOK, NEW t \in Threads, DeactivateCommit(t) PROVE TypeOK'
  <1> DEFINE u == txn[t].user
             row == [users[u] EXCEPT !.active = FALSE]
  <1>1. /\ u \in DOMAIN users
        /\ UNCHANGED <<now, tenants, jwts, strikes>> /\ Finish(t)
        /\ tokens' = Revoke(tokens, txn[t].tokens)
    BY DEF DeactivateCommit, TypeOK, TxnOK
  <1>2. users[u] \in UserRow BY <1>1 DEF TypeOK, TablesOK
  <1>3. row \in UserRow /\ row.tenant = users[u].tenant BY <1>2 DEF UserRow
  <1>4. users' = [users EXCEPT ![u] = row] BY DEF DeactivateCommit
  <1>5. /\ DOMAIN users' = DOMAIN users
        /\ users' \in [DOMAIN users -> UserRow]
        /\ \A v \in DOMAIN users : users'[v].tenant = users[v].tenant
    BY <1>1, <1>3, <1>4, UserUpdated
  <1>6. /\ DOMAIN tokens' = DOMAIN tokens
        /\ tokens' \in [DOMAIN tokens -> TokenRow]
        /\ \A k \in DOMAIN tokens : /\ tokens'[k].user = tokens[k].user
                                     /\ tokens'[k].family = tokens[k].family
    BY <1>1, RevokedType
  <1>7. TablesOK' BY <1>1, <1>5, <1>6 DEF TypeOK, TablesOK
  <1>8. /\ ForeignKeysOK'
        /\ Grows(tenants, users, tokens, tenants', users', tokens')
    BY <1>1, <1>5, <1>6, KeysKept
  <1> QED BY <1>1, <1>7, <1>8, CommitStep

LEMMA CreateTenantReadType ==
    ASSUME TypeOK, NEW t \in Threads, CreateTenantRead(t) PROVE TypeOK'
  <1>1. PICK slug \in Slugs, active \in BOOLEAN :
            Hold(t, [pc |-> "create_tenant", actor |-> txn[t].actor,
                     slug |-> slug, active |-> active])
    BY SpellingAssumption DEF CreateTenantRead, BodySlugs
  <1>2. ActorOK(txn[t].actor, tenants, users)
    BY ActorFact DEF CreateTenantRead, ActsAsPrincipal, PrincipalPcs
  <1> QED BY <1>1, <1>2, HoldStep DEF TxnOK

LEMMA CreateTenantCommitType ==
    ASSUME TypeOK, NEW t \in Threads, CreateTenantCommit(t) PROVE TypeOK'
  <1> DEFINE row == [slug |-> txn[t].slug, active |-> txn[t].active]
  <1>1. PICK n \in TenantIds \ DOMAIN tenants : tenants' = Insert(tenants, n, row)
    BY DEF CreateTenantCommit
  <1>2. /\ UNCHANGED <<now, users, tokens, jwts, strikes>> /\ Finish(t)
        /\ row \in TenantRow
    BY DEF CreateTenantCommit, TypeOK, TxnOK, TenantRow
  <1>3. TablesOK' BY <1>1, <1>2, InsertType DEF TypeOK, TablesOK
  <1>4. DOMAIN tenants \subseteq DOMAIN tenants' BY <1>1 DEF Insert
  <1>5. /\ ForeignKeysOK'
        /\ Grows(tenants, users, tokens, tenants', users', tokens')
    BY <1>2, <1>4, KeysKept
  <1> QED BY <1>2, <1>3, <1>5, CommitStep

LEMMA UpdateTenantReadType ==
    ASSUME TypeOK, NEW t \in Threads, UpdateTenantRead(t) PROVE TypeOK'
  <1>1. PICK n \in DOMAIN tenants, named \in BOOLEAN,
             active \in {None, Some(TRUE), Some(FALSE)} :
            Hold(t, [pc |-> "update_tenant", actor |-> txn[t].actor, tenant |-> n,
                     loaded |-> tenants[n].active, named |-> named,
                     active |-> active])
    BY DEF UpdateTenantRead
  <1>2. ActorOK(txn[t].actor, tenants, users)
    BY ActorFact DEF UpdateTenantRead, ActsAsPrincipal, PrincipalPcs
  <1>3. tenants[n].active \in BOOLEAN BY DEF TypeOK, TablesOK, TenantRow
  <1> QED BY <1>1, <1>2, <1>3, HoldStep DEF TxnOK

LEMMA UpdateTenantCommitType ==
    ASSUME TypeOK, NEW t \in Threads, UpdateTenantCommit(t) PROVE TypeOK'
  <1> DEFINE n == txn[t].tenant
             wanted == txn[t].active
             flag == IF wanted = None THEN tenants[n].active
                     ELSE Write(txn[t].loaded, TRUE \in wanted, tenants[n].active)
             row == [tenants[n] EXCEPT !.active = flag]
  <1>1. /\ UNCHANGED <<now, users, tokens, jwts, strikes>> /\ Finish(t)
        /\ n \in DOMAIN tenants /\ tenants[n] \in TenantRow
    BY DEF UpdateTenantCommit, TypeOK, TablesOK, TxnOK
  <1>2. flag \in BOOLEAN
    <2>1. tenants[n].active \in BOOLEAN BY <1>1 DEF TenantRow
    <2>2. (TRUE \in wanted) \in BOOLEAN OBVIOUS
    <2> QED BY <2>1, <2>2, Zenon DEF Write
  <1>3. row \in TenantRow BY <1>1, <1>2 DEF TenantRow
  <1>4. tenants' = [tenants EXCEPT ![n] = row] BY DEF UpdateTenantCommit
  <1>5. /\ DOMAIN tenants' = DOMAIN tenants
        /\ tenants' \in [DOMAIN tenants -> TenantRow]
    BY <1>1, <1>3, <1>4 DEF TypeOK, TablesOK
  <1>6. TablesOK' BY <1>1, <1>5 DEF TypeOK, TablesOK
  <1>7. /\ ForeignKeysOK'
        /\ Grows(tenants, users, tokens, tenants', users', tokens')
    BY <1>1, <1>5, KeysKept
  <1> QED BY <1>1, <1>6, <1>7, CommitStep

LEMMA BootstrapReadTenantType ==
    ASSUME TypeOK, NEW t \in Threads, BootstrapReadTenant(t) PROVE TypeOK'
  <1> DEFINE Request(slug, email, password, rotate, found, off) ==
        [pc |-> "bootstrap_tenant", slug |-> slug, email |-> email,
         password |-> password, rotate |-> rotate, tenant |-> found,
         reactivate |-> off]
  <1>1. PICK slug \in Slugs, email \in Emails, password \in Passwords,
             rotate \in BOOLEAN :
            Hold(t, Request(slug, email, password, rotate, TenantsBySlug(slug),
                            \E n \in TenantsBySlug(slug) : ~tenants[n].active))
    BY DEF BootstrapReadTenant
  <1>2. TenantsBySlug(slug) \subseteq DOMAIN tenants BY DEF TenantsBySlug
  <1>3. (\E n \in TenantsBySlug(slug) : ~tenants[n].active) \in BOOLEAN OBVIOUS
  <1> QED BY <1>1, <1>2, <1>3, HoldStep DEF TxnOK, PrincipalPcs

LEMMA BootstrapReadUserType ==
    ASSUME TypeOK, NEW t \in Threads, BootstrapReadUser(t) PROVE TypeOK'
  <1> DEFINE x == txn[t]
  <1>1. /\ x.slug \in Slugs /\ x.email \in Emails /\ x.password \in Passwords
        /\ x.tenant \subseteq DOMAIN tenants /\ x.reactivate \in BOOLEAN
        /\ x.rotate \in BOOLEAN
    BY DEF BootstrapReadUser, TypeOK, TxnOK
  <1>2. CASE Hold(t, [pc |-> "bootstrap_create", slug |-> x.slug,
                      email |-> x.email, password |-> x.password,
                      tenant |-> x.tenant, reactivate |-> x.reactivate])
    BY <1>1, <1>2, HoldStep DEF TxnOK, PrincipalPcs
  <1>3. CASE \E u \in DOMAIN users :
            Hold(t, [pc |-> IF x.rotate THEN "bootstrap_rotate"
                            ELSE "bootstrap_update",
                     user |-> u, row |-> users[u],
                     rotate |-> x.rotate, password |-> x.password,
                     tokens |-> {}, reactivate |-> x.reactivate])
    <2>1. PICK u \in DOMAIN users :
            Hold(t, [pc |-> IF x.rotate THEN "bootstrap_rotate"
                            ELSE "bootstrap_update",
                     user |-> u, row |-> users[u],
                     rotate |-> x.rotate, password |-> x.password,
                     tokens |-> {}, reactivate |-> x.reactivate])
      BY <1>3
    <2>2. users[u] \in UserRow BY DEF TypeOK, TablesOK
    <2>3. {} \subseteq DOMAIN tokens OBVIOUS
    <2> QED BY <1>1, <2>1, <2>2, <2>3, HoldStep DEF TxnOK, PrincipalPcs
  <1> QED BY <1>2, <1>3 DEF BootstrapReadUser, UsersByEmail

LEMMA BootstrapReadTokensType ==
    ASSUME TypeOK, NEW t \in Threads, BootstrapReadTokens(t) PROVE TypeOK'
  <1> DEFINE x == txn[t]
             found == UnrevokedTokens(x.user)
             r == [pc |-> "bootstrap_update", user |-> x.user, row |-> x.row,
                   rotate |-> x.rotate, password |-> x.password,
                   tokens |-> found, reactivate |-> x.reactivate]
  <1>1. x.pc = "bootstrap_rotate" /\ TxnOK(x, tenants, users, tokens)
    BY DEF BootstrapReadTokens, TypeOK
  <1>2. Hold(t, r) BY DEF BootstrapReadTokens
  <1>3. found \subseteq DOMAIN tokens BY DEF UnrevokedTokens
  <1>4. TxnOK(r, tenants, users, tokens)
    BY <1>1, <1>3 DEF TxnOK, PrincipalPcs
  <1> QED BY <1>2, <1>4, HoldStep

LEMMA ReactivateType ==
    ASSUME TypeOK, NEW ids
    PROVE  /\ DOMAIN Reactivate(tenants, ids) = DOMAIN tenants
           /\ Reactivate(tenants, ids) \in [DOMAIN tenants -> TenantRow]
  BY DEF TypeOK, TablesOK, TenantRow, Reactivate

LEMMA BootstrapCreateCommitType ==
    ASSUME TypeOK, NEW t \in Threads, BootstrapCreateCommit(t) PROVE TypeOK'
  <1> DEFINE x == txn[t]
             Row(n) == [tenant |-> n, email |-> x.email, password |-> x.password,
                        role |-> "SYS_ADMIN", active |-> TRUE, failed |-> 0,
                        lockedUntil |-> 0]
             tenantRow == [slug |-> x.slug, active |-> TRUE]
  <1>1. PICK n \in TenantIds, u \in UserIds \ DOMAIN users :
            /\ IF x.tenant = None
               THEN tenants' = Insert(tenants, n, tenantRow)
               ELSE /\ n \in x.tenant
                    /\ tenants' = IF x.reactivate THEN Reactivate(tenants, {n})
                                  ELSE tenants
            /\ users' = Insert(users, u, Row(n))
    BY DEF BootstrapCreateCommit
  <1>2. /\ UNCHANGED <<now, tokens, jwts, strikes>> /\ Finish(t)
        /\ now \in 1 .. MaxTime /\ x.tenant \subseteq DOMAIN tenants
        /\ x.slug \in Slugs /\ x.email \in Emails /\ x.password \in Passwords
    BY DEF BootstrapCreateCommit, TypeOK, TxnOK, TablesOK
  <1>3. Row(n) \in UserRow /\ tenantRow \in TenantRow
    BY <1>2, TimesFact DEF UserRow, TenantRow, Roles
  <1>4. /\ DOMAIN users' = DOMAIN users \cup {u}
        /\ users'[u].tenant = n
        /\ \A v \in DOMAIN users : users'[v] = users[v]
    BY <1>1 DEF Insert
  <1>5. /\ DOMAIN users' \subseteq UserIds
        /\ users' \in [DOMAIN users' -> UserRow]
    BY <1>1, <1>3, InsertType DEF TypeOK, TablesOK
  <1> HIDE DEF x, Row, tenantRow
  <1>6. /\ DOMAIN tenants \subseteq DOMAIN tenants' /\ n \in DOMAIN tenants'
        /\ DOMAIN tenants' \subseteq TenantIds
        /\ tenants' \in [DOMAIN tenants' -> TenantRow]
    <2>1. CASE x.tenant = None
      <3>1. tenants' = Insert(tenants, n, tenantRow) BY <1>1, <2>1
      <3>2. DOMAIN tenants \subseteq DOMAIN tenants' /\ n \in DOMAIN tenants'
        BY <3>1 DEF Insert
      <3> QED BY <1>3, <3>1, <3>2, InsertType DEF TypeOK, TablesOK
    <2>2. CASE x.tenant # None
      <3>1. /\ n \in DOMAIN tenants
            /\ tenants' = Reactivate(tenants, {n}) \/ tenants' = tenants
        BY <1>1, <1>2, <2>2
      <3> QED BY <3>1, ReactivateType DEF TypeOK, TablesOK
    <2> QED BY <2>1, <2>2
  <1>7. TablesOK' BY <1>2, <1>5, <1>6 DEF TypeOK, TablesOK
  <1>8. ForeignKeysOK' BY <1>2, <1>4, <1>6 DEF TypeOK, ForeignKeysOK
  <1>9. Grows(tenants, users, tokens, tenants', users', tokens')
    BY <1>2, <1>4, <1>6 DEF Grows
  <1> QED BY <1>2, <1>7, <1>8, <1>9, CommitStep

LEMMA BootstrapUpdateCommitType ==
    ASSUME TypeOK, NEW t \in Threads, BootstrapUpdateCommit(t) PROVE TypeOK'
  <1> DEFINE x == txn[t]
             u == x.user
             row == [users[u] EXCEPT
                        !.active = Write(x.row.active, TRUE, users[u].active),
                        !.failed = Write(x.row.failed, 0, users[u].failed),
                        !.lockedUntil =
                            Write(x.row.lockedUntil, 0, users[u].lockedUntil),
                        !.password =
                            IF x.rotate THEN x.password ELSE users[u].password]
  <1>1. /\ UNCHANGED <<now, jwts>> /\ Finish(t)
        /\ tokens' = Revoke(tokens, x.tokens)
        /\ tenants' = Reactivate(tenants, {x.row.tenant}) \/ tenants' = tenants
        /\ strikes' = [strikes EXCEPT ![u] = 0]
    BY DEF BootstrapUpdateCommit
  <1>2. /\ u \in DOMAIN users /\ u \in UserIds /\ users[u] \in UserRow
        /\ x.password \in Passwords /\ now \in 1 .. MaxTime
    BY DEF BootstrapUpdateCommit, TypeOK, TxnOK, TablesOK
  <1>3. row \in UserRow /\ row.tenant = users[u].tenant
    BY <1>2, TimesFact DEF UserRow, Write
  <1>4. users' = [users EXCEPT ![u] = row] BY DEF BootstrapUpdateCommit
  <1>5. /\ DOMAIN users' = DOMAIN users
        /\ users' \in [DOMAIN users -> UserRow]
        /\ \A v \in DOMAIN users : users'[v].tenant = users[v].tenant
    BY <1>2, <1>3, <1>4, UserUpdated
  <1>6. /\ DOMAIN tokens' = DOMAIN tokens
        /\ tokens' \in [DOMAIN tokens -> TokenRow]
        /\ \A k \in DOMAIN tokens : /\ tokens'[k].user = tokens[k].user
                                     /\ tokens'[k].family = tokens[k].family
    BY <1>1, RevokedType
  <1>7. /\ DOMAIN tenants' = DOMAIN tenants
        /\ tenants' \in [DOMAIN tenants -> TenantRow]
    BY <1>1, ReactivateType DEF TypeOK, TablesOK
  <1>8. strikes' \in [UserIds -> 0 .. MaxFailed]
    <2>1. 0 \in 0 .. MaxFailed BY LimitsAssumption
    <2> QED BY <1>1, <1>2, <2>1 DEF TypeOK, TablesOK
  <1>9. TablesOK' BY <1>1, <1>5, <1>6, <1>7, <1>8 DEF TypeOK, TablesOK
  <1>10. /\ ForeignKeysOK'
         /\ Grows(tenants, users, tokens, tenants', users', tokens')
    BY <1>1, <1>5, <1>6, <1>7, KeysKept
  <1> QED BY <1>1, <1>9, <1>10, CommitStep

LEMMA RollbackType ==
    ASSUME TypeOK, NEW t \in Threads, Rollback(t) PROVE TypeOK'
  BY IdleOK, HoldStep DEF Rollback

LEMMA TickType == ASSUME TypeOK, Tick PROVE TypeOK'
  <1>1. /\ UNCHANGED <<tenants, users, tokens, jwts, txn, strikes>>
        /\ now' \in 1 .. MaxTime
    BY LimitsAssumption DEF Tick, tables, TypeOK, TablesOK
  <1> QED BY <1>1 DEF TypeOK, TablesOK, ForeignKeysOK

LEMMA StutterType == ASSUME TypeOK, UNCHANGED vars PROVE TypeOK'
  BY DEF TypeOK, TablesOK, ForeignKeysOK, vars

LEMMA InitType == ASSUME Init PROVE TypeOK
  <1>1. \A t \in Threads : TxnOK(txn[t], tenants, users, tokens)
    BY IdleOK DEF Init
  <1>2. TablesOK
    BY LimitsAssumption DEF Init, EmptyTable, TablesOK
  <1>3. ForeignKeysOK BY DEF Init, EmptyTable, ForeignKeysOK
  <1> QED BY <1>1, <1>2, <1>3 DEF Init, TypeOK

LEMMA StepType ==
    ASSUME TypeOK, NEW t \in Threads, Step(t) PROVE TypeOK'
  <1>1. CASE AuthStep(t)
    BY <1>1, RegisterReadType, RegisterCommitType, LoginReadTenantType,
       LoginReadUserType, LoginRefusedCommitType, LoginWrongCommitType,
       LoginOkCommitType, RefreshReadType, RefreshCommitType, LogoutReadType,
       LogoutCommitType DEF AuthStep
  <1>2. CASE UserManagementStep(t)
    BY <1>2, CreateUserReadType, CreateUserCommitType, UpdateRoleReadType,
       UpdateRoleCommitType, DeactivateReadUserType, DeactivateReadTokensType,
       DeactivateCommitType DEF UserManagementStep
  <1>3. CASE TenantStep(t)
    BY <1>3, CreateTenantReadType, CreateTenantCommitType, UpdateTenantReadType,
       UpdateTenantCommitType DEF TenantStep
  <1>4. CASE BootstrapStep(t)
    BY <1>4, BootstrapReadTenantType, BootstrapReadUserType,
       BootstrapReadTokensType, BootstrapCreateCommitType,
       BootstrapUpdateCommitType DEF BootstrapStep
  <1> QED BY <1>1, <1>2, <1>3, <1>4, AuthenticateType, RollbackType DEF Step

(* Every table always holds rows of its schema, no row, access token or    *)
(* request in flight names a row that does not exist, and a user or token  *)
(* a request remembers is still of the tenant or user it read.             *)
THEOREM Typing == Spec => []TypeOK
  <1>1. Init => TypeOK BY InitType
  <1>2. TypeOK /\ [Next]_vars => TypeOK'
    BY TickType, StepType, StutterType DEF Next
  <1> QED BY <1>1, <1>2, PTL DEF Spec

(***************************************************************************)
(* The kinds of steps.                                                     *)
(***************************************************************************)

(* The statements that change tables.                                      *)
AuthCommit(t) ==
    \/ RegisterCommit(t) \/ LoginRefusedCommit(t) \/ LoginWrongCommit(t)
    \/ LoginOkCommit(t) \/ RefreshCommit(t) \/ LogoutCommit(t)
AdminCommit(t) ==
    \/ CreateUserCommit(t) \/ UpdateRoleCommit(t) \/ DeactivateCommit(t)
    \/ CreateTenantCommit(t) \/ UpdateTenantCommit(t)
BootstrapCommit(t) == BootstrapCreateCommit(t) \/ BootstrapUpdateCommit(t)
Commit(t) == AuthCommit(t) \/ AdminCommit(t) \/ BootstrapCommit(t)

(* A request's step is a commit or only reads.                             *)
LEMMA StepKinds ==
    ASSUME NEW t \in Threads, Step(t)
    PROVE  Commit(t) \/ \E r : Hold(t, r)
  <1>1. CASE AuthStep(t)
    BY <1>1 DEF AuthStep, Commit, AuthCommit, RegisterRead, LoginReadTenant,
       LoginReadUser, LoginRefused, RefreshRead, LogoutRead
  <1>2. CASE Authenticate(t) BY <1>2 DEF Authenticate
  <1>3. CASE UserManagementStep(t)
    BY <1>3 DEF UserManagementStep, Commit, AdminCommit, CreateUserRead,
       UpdateRoleRead, DeactivateReadUser, DeactivateReadTokens
  <1>4. CASE TenantStep(t)
    BY <1>4 DEF TenantStep, Commit, AdminCommit, CreateTenantRead, UpdateTenantRead
  <1>5. CASE BootstrapStep(t)
    BY <1>5 DEF BootstrapStep, Commit, BootstrapCommit, BootstrapReadTenant,
       BootstrapReadUser, BootstrapReadTokens
  <1>6. CASE Rollback(t) BY <1>6 DEF Rollback
  <1> QED BY <1>1, <1>2, <1>3, <1>4, <1>5, <1>6 DEF Step

LEMMA HoldKeeps ==
    ASSUME NEW t, NEW r, Hold(t, r)
    PROVE  UNCHANGED <<now, tenants, users, tokens, audit, jwts, strikes>>
  BY DEF Hold, tables

(***************************************************************************)
(* What the commits that update a row leave as it was.                     *)
(***************************************************************************)
SameUserKeys ==
    /\ DOMAIN users' = DOMAIN users
    /\ \A u \in DOMAIN users : /\ users'[u].tenant = users[u].tenant
                               /\ users'[u].email = users[u].email
SameSlugs ==
    /\ DOMAIN tenants' = DOMAIN tenants
    /\ \A n \in DOMAIN tenants : tenants'[n].slug = tenants[n].slug

LEMMA UsersFact ==
    ASSUME TypeOK
    PROVE  /\ users \in [DOMAIN users -> UserRow]
           /\ \A u \in DOMAIN users : users[u] \in UserRow
           /\ tenants \in [DOMAIN tenants -> TenantRow]
  BY DEF TypeOK, TablesOK

LEMMA WriteLockKeeps ==
    ASSUME TypeOK, NEW u, NEW row, NEW failed, NEW lock,
           users' = WriteLock(u, row, failed, lock)
    PROVE  /\ SameUserKeys
           /\ \A v \in DOMAIN users : users'[v].role = users[v].role
  BY UsersFact DEF WriteLock, SameUserKeys, UserRow

LEMMA UpdateRoleKeeps ==
    ASSUME TypeOK, NEW t \in Threads, UpdateRoleCommit(t)
    PROVE  SameUserKeys /\ tenants' = tenants
  BY UsersFact DEF UpdateRoleCommit, SameUserKeys, UserRow

LEMMA DeactivateKeeps ==
    ASSUME TypeOK, NEW t \in Threads, DeactivateCommit(t)
    PROVE  /\ SameUserKeys /\ tenants' = tenants
           /\ \A v \in DOMAIN users : users'[v].role = users[v].role
  BY UsersFact DEF DeactivateCommit, SameUserKeys, UserRow

LEMMA UpdateTenantKeeps ==
    ASSUME TypeOK, NEW t \in Threads, UpdateTenantCommit(t)
    PROVE  SameSlugs /\ users' = users
  BY UsersFact DEF UpdateTenantCommit, SameSlugs, TenantRow

LEMMA ReactivateKeeps ==
    ASSUME TypeOK, NEW ids, tenants' = tenants \/ tenants' = Reactivate(tenants, ids)
    PROVE  SameSlugs
  BY UsersFact DEF Reactivate, SameSlugs, TenantRow

LEMMA BootstrapUpdateKeeps ==
    ASSUME TypeOK, NEW t \in Threads, BootstrapUpdateCommit(t)
    PROVE  /\ SameUserKeys /\ SameSlugs
           /\ \A v \in DOMAIN users : users'[v].role = users[v].role
  <1>1. tenants' = tenants \/ tenants' = Reactivate(tenants, {txn[t].row.tenant})
    BY DEF BootstrapUpdateCommit
  <1>2. SameSlugs BY <1>1, ReactivateKeeps
  <1>3. /\ SameUserKeys
        /\ \A v \in DOMAIN users : users'[v].role = users[v].role
    BY UsersFact DEF BootstrapUpdateCommit, SameUserKeys, UserRow
  <1> QED BY <1>2, <1>3

(***************************************************************************)
(* Unique keys.                                                            *)
(***************************************************************************)
SlugsUnique ==
    \A m, n \in DOMAIN tenants : tenants[m].slug = tenants[n].slug => m = n
EmailsUnique ==
    \A u, v \in DOMAIN users :
        users[u].tenant = users[v].tenant /\ users[u].email = users[v].email => u = v

LEMMA SlugsKept == ASSUME SlugsUnique, SameSlugs PROVE SlugsUnique'
  BY DEF SlugsUnique, SameSlugs
LEMMA EmailsKept == ASSUME EmailsUnique, SameUserKeys PROVE EmailsUnique'
  BY DEF EmailsUnique, SameUserKeys

LEMMA TenantInserted ==
    ASSUME SlugsUnique, NEW n, n \notin DOMAIN tenants, NEW row, SlugFree(row.slug),
           tenants' = Insert(tenants, n, row)
    PROVE  SlugsUnique'
  <1>1. /\ DOMAIN tenants' = DOMAIN tenants \cup {n}
        /\ tenants'[n] = row
        /\ \A m \in DOMAIN tenants : tenants'[m] = tenants[m]
    BY DEF Insert
  <1> QED BY <1>1 DEF SlugsUnique, SlugFree

LEMMA UserInserted ==
    ASSUME EmailsUnique, NEW u, u \notin DOMAIN users, NEW row,
           EmailFree(row.tenant, row.email), users' = Insert(users, u, row)
    PROVE  EmailsUnique'
  <1>1. /\ DOMAIN users' = DOMAIN users \cup {u}
        /\ users'[u] = row
        /\ \A v \in DOMAIN users : users'[v] = users[v]
    BY DEF Insert
  <1> QED BY <1>1 DEF EmailsUnique, EmailFree

LEMMA AuthKeepsKeys ==
    ASSUME TypeOK, SlugsUnique, EmailsUnique, NEW t \in Threads, AuthCommit(t)
    PROVE  SlugsUnique' /\ EmailsUnique'
  <1>1. CASE RegisterCommit(t)
    <2> DEFINE Row(n) == [tenant |-> n, email |-> txn[t].email,
                          password |-> txn[t].password, role |-> "TENANT_ADMIN",
                          active |-> TRUE, failed |-> 0, lockedUntil |-> 0]
               tenantRow == [slug |-> txn[t].slug, active |-> TRUE]
    <2>1. PICK n \in TenantIds \ DOMAIN tenants, u \in UserIds \ DOMAIN users :
            /\ tenants' = Insert(tenants, n, tenantRow)
            /\ users' = Insert(users, u, Row(n))
      BY <1>1 DEF RegisterCommit
    <2>2. SlugFree(tenantRow.slug) BY <1>1 DEF RegisterCommit
    <2>3. EmailFree(Row(n).tenant, Row(n).email)
      BY DEF EmailFree, TypeOK, ForeignKeysOK
    <2> HIDE DEF Row, tenantRow
    <2> QED BY <2>1, <2>2, <2>3, TenantInserted, UserInserted
  <1>2. CASE UNCHANGED <<tenants, users>>
    BY <1>2 DEF SlugsUnique, EmailsUnique
  <1>3. CASE LoginWrongCommit(t)
    <2>1. SameUserKeys BY <1>3, WriteLockKeeps DEF LoginWrongCommit
    <2>2. SameSlugs BY <1>3 DEF LoginWrongCommit, SameSlugs
    <2> QED BY <2>1, <2>2, SlugsKept, EmailsKept
  <1>4. CASE LoginOkCommit(t)
    <2>1. SameUserKeys BY <1>4, WriteLockKeeps DEF LoginOkCommit
    <2>2. SameSlugs BY <1>4 DEF LoginOkCommit, SameSlugs
    <2> QED BY <2>1, <2>2, SlugsKept, EmailsKept
  <1> QED
    BY <1>1, <1>2, <1>3, <1>4
    DEF AuthCommit, LoginRefusedCommit, RefreshCommit, LogoutCommit

LEMMA AdminKeepsKeys ==
    ASSUME TypeOK, SlugsUnique, EmailsUnique, NEW t \in Threads, AdminCommit(t)
    PROVE  SlugsUnique' /\ EmailsUnique'
  <1>1. CASE CreateUserCommit(t)
    <2> DEFINE row == [tenant |-> txn[t].tenant, email |-> txn[t].email,
                       password |-> txn[t].password, role |-> txn[t].role,
                       active |-> txn[t].active, failed |-> 0, lockedUntil |-> 0]
    <2>1. PICK u \in UserIds \ DOMAIN users : users' = Insert(users, u, row)
      BY <1>1 DEF CreateUserCommit
    <2>2. EmailFree(row.tenant, row.email) /\ SameSlugs
      BY <1>1 DEF CreateUserCommit, SameSlugs
    <2> HIDE DEF row
    <2> QED BY <2>1, <2>2, SlugsKept, UserInserted
  <1>2. CASE UpdateRoleCommit(t)
    BY <1>2, UpdateRoleKeeps, EmailsKept DEF SlugsUnique
  <1>3. CASE DeactivateCommit(t)
    BY <1>3, DeactivateKeeps, EmailsKept DEF SlugsUnique
  <1>4. CASE CreateTenantCommit(t)
    <2> DEFINE row == [slug |-> txn[t].slug, active |-> txn[t].active]
    <2>1. PICK n \in TenantIds \ DOMAIN tenants : tenants' = Insert(tenants, n, row)
      BY <1>4 DEF CreateTenantCommit
    <2>2. SlugFree(row.slug) /\ users' = users BY <1>4 DEF CreateTenantCommit
    <2> HIDE DEF row
    <2> QED BY <2>1, <2>2, TenantInserted DEF EmailsUnique
  <1>5. CASE UpdateTenantCommit(t)
    BY <1>5, UpdateTenantKeeps, SlugsKept DEF EmailsUnique
  <1> QED BY <1>1, <1>2, <1>3, <1>4, <1>5 DEF AdminCommit

LEMMA BootstrapKeepsKeys ==
    ASSUME TypeOK, SlugsUnique, EmailsUnique, NEW t \in Threads, BootstrapCommit(t)
    PROVE  SlugsUnique' /\ EmailsUnique'
  <1>1. CASE BootstrapCreateCommit(t)
    <2> DEFINE Row(n) == [tenant |-> n, email |-> txn[t].email,
                          password |-> txn[t].password, role |-> "SYS_ADMIN",
                          active |-> TRUE, failed |-> 0, lockedUntil |-> 0]
               tenantRow == [slug |-> txn[t].slug, active |-> TRUE]
    <2>1. PICK n \in TenantIds, u \in UserIds \ DOMAIN users :
            /\ \/ /\ n \notin DOMAIN tenants /\ SlugFree(tenantRow.slug)
                  /\ tenants' = Insert(tenants, n, tenantRow)
               \/ tenants' = Reactivate(tenants, {n})
               \/ tenants' = tenants
            /\ EmailFree(Row(n).tenant, Row(n).email)
            /\ users' = Insert(users, u, Row(n))
      BY <1>1 DEF BootstrapCreateCommit
    <2> HIDE DEF Row, tenantRow
    <2>2. EmailsUnique' BY <2>1, UserInserted
    <2>3. SlugsUnique' BY <2>1, TenantInserted, ReactivateKeeps, SlugsKept
    <2> QED BY <2>2, <2>3
  <1>2. CASE BootstrapUpdateCommit(t)
    BY <1>2, BootstrapUpdateKeeps, SlugsKept, EmailsKept
  <1> QED BY <1>1, <1>2 DEF BootstrapCommit

LEMMA TypesStep == ASSUME TypeOK, [Next]_vars PROVE TypeOK'
  BY TickType, StepType, StutterType DEF Next

(* The checks for a free slug and a free e-mail may be stale at the commit *)
(* of every sign-up, creation and bootstrap, any number of them at once:   *)
(* keys stay unique.                                                       *)
THEOREM UniqueKeys == Spec => []KeysAreUnique
  <1>1. Init => TypeOK /\ SlugsUnique /\ EmailsUnique
    BY InitType DEF Init, EmptyTable, SlugsUnique, EmailsUnique
  <1>2. TypeOK /\ SlugsUnique /\ EmailsUnique /\ [Next]_vars
            => TypeOK' /\ SlugsUnique' /\ EmailsUnique'
    <2> SUFFICES ASSUME TypeOK, SlugsUnique, EmailsUnique, [Next]_vars
                 PROVE  SlugsUnique' /\ EmailsUnique'
      BY TypesStep
    <2>1. CASE UNCHANGED <<tenants, users>>
      BY <2>1 DEF SlugsUnique, EmailsUnique
    <2>2. ASSUME NEW t \in Threads, Step(t) PROVE SlugsUnique' /\ EmailsUnique'
      <3>1. CASE Commit(t)
        BY <3>1, AuthKeepsKeys, AdminKeepsKeys, BootstrapKeepsKeys DEF Commit
      <3>2. CASE \E r : Hold(t, r) BY <2>1, <3>2, HoldKeeps
      <3> QED BY <2>2, <3>1, <3>2, StepKinds
    <2> QED BY <2>1, <2>2 DEF Next, Tick, tables, vars
  <1>3. SlugsUnique /\ EmailsUnique => KeysAreUnique
    BY DEF SlugsUnique, EmailsUnique, KeysAreUnique
  <1> QED BY <1>1, <1>2, <1>3, PTL DEF Spec

====
