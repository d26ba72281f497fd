---- MODULE SummaryProofs ----
(***************************************************************************)
(* Proofs about the summaries, for every number of tenants, users and      *)
(* threads: a summary is off by no more than what was committed while it   *)
(* was counted.                                                            *)
(***************************************************************************)
EXTENDS IdentityProofs, Summaries, FiniteSetTheorems

(***************************************************************************)
(* A commit changes one row of a table at most.                            *)
(***************************************************************************)
UserMoves(u) ==
    /\ DOMAIN users \subseteq DOMAIN users'
    /\ DOMAIN users' \subseteq DOMAIN users \cup {u}
    /\ \A v \in DOMAIN users : v # u => users'[v] = users[v]
TenantMoves(n) ==
    /\ DOMAIN tenants \subseteq DOMAIN tenants'
    /\ DOMAIN tenants' \subseteq DOMAIN tenants \cup {n}
    /\ \A m \in DOMAIN tenants : m # n => tenants'[m] = tenants[m]
OneMoves == (\E u : UserMoves(u)) /\ (\E n : TenantMoves(n))

LEMMA SameMoves ==
    /\ users' = users => \E u : UserMoves(u)
    /\ tenants' = tenants => \E n : TenantMoves(n)
  BY DEF UserMoves, TenantMoves

LEMMA InsertMoves ==
    /\ \A u, row : u \notin DOMAIN users /\ users' = Insert(users, u, row)
                    => UserMoves(u)
    /\ \A n, row : n \notin DOMAIN tenants /\ tenants' = Insert(tenants, n, row)
                    => TenantMoves(n)
  BY DEF Insert, UserMoves, TenantMoves

LEMMA AuthMoves ==
    ASSUME TypeOK, NEW t \in Threads, AuthCommit(t) PROVE OneMoves
  <1>1. CASE RegisterCommit(t)
    <2>1. PICK n \in TenantIds \ DOMAIN tenants, u \in UserIds \ DOMAIN users :
            /\ \E row : tenants' = Insert(tenants, n, row)
            /\ \E row : users' = Insert(users, u, row)
      BY <1>1 DEF RegisterCommit
    <2> QED BY <2>1, InsertMoves DEF OneMoves
  <1>2. CASE LoginWrongCommit(t) \/ LoginOkCommit(t)
    <2>1. UserMoves(txn[t].user)
      BY <1>2 DEF LoginWrongCommit, LoginOkCommit, WriteLock, UserMoves
    <2>2. tenants' = tenants BY <1>2 DEF LoginWrongCommit, LoginOkCommit
    <2> QED BY <2>1, <2>2, SameMoves DEF OneMoves
  <1> QED
    BY <1>1, <1>2, SameMoves
    DEF AuthCommit, LoginRefusedCommit, RefreshCommit, LogoutCommit, OneMoves

LEMMA AdminMoves ==
    ASSUME TypeOK, NEW t \in Threads, AdminCommit(t) PROVE OneMoves
  <1>1. CASE CreateUserCommit(t)
    <2>1. PICK u \in UserIds \ DOMAIN users : \E row : users' = Insert(users, u, row)
      BY <1>1 DEF CreateUserCommit
    <2> QED BY <1>1, <2>1, InsertMoves, SameMoves DEF CreateUserCommit, OneMoves
  <1>2. CASE UpdateRoleCommit(t) \/ DeactivateCommit(t)
    <2>1. UserMoves(txn[t].user)
      BY <1>2 DEF UpdateRoleCommit, DeactivateCommit, UserMoves
    <2>2. tenants' = tenants BY <1>2 DEF UpdateRoleCommit, DeactivateCommit
    <2> QED BY <2>1, <2>2, SameMoves DEF OneMoves
  <1>3. CASE CreateTenantCommit(t)
    <2>1. PICK n \in TenantIds \ DOMAIN tenants :
            \E row : tenants' = Insert(tenants, n, row)
      BY <1>3 DEF CreateTenantCommit
    <2> QED BY <1>3, <2>1, InsertMoves, SameMoves DEF CreateTenantCommit, OneMoves
  <1>4. CASE UpdateTenantCommit(t)
    <2>1. TenantMoves(txn[t].tenant)
      BY <1>4 DEF UpdateTenantCommit, TenantMoves
    <2> QED BY <1>4, <2>1, SameMoves DEF UpdateTenantCommit, OneMoves
  <1> QED BY <1>1, <1>2, <1>3, <1>4 DEF AdminCommit

LEMMA ReactivateMoves ==
    ASSUME NEW n, tenants' = tenants \/ tenants' = Reactivate(tenants, {n})
    PROVE  TenantMoves(n)
  BY DEF Reactivate, TenantMoves

LEMMA BootstrapMoves ==
    ASSUME TypeOK, NEW t \in Threads, BootstrapCommit(t) PROVE OneMoves
  <1>1. CASE BootstrapCreateCommit(t)
    <2>1. PICK n \in TenantIds, u \in UserIds \ DOMAIN users :
            /\ \/ n \notin DOMAIN tenants /\ \E row : tenants' = Insert(tenants, n, row)
               \/ tenants' = tenants \/ tenants' = Reactivate(tenants, {n})
            /\ \E row : users' = Insert(users, u, row)
      BY <1>1 DEF BootstrapCreateCommit
    <2> QED BY <2>1, InsertMoves, ReactivateMoves DEF OneMoves
  <1>2. CASE BootstrapUpdateCommit(t)
    <2>1. UserMoves(txn[t].user) BY <1>2 DEF BootstrapUpdateCommit, UserMoves
    <2>2. TenantMoves(txn[t].row.tenant)
      BY <1>2, ReactivateMoves DEF BootstrapUpdateCommit
    <2> QED BY <2>1, <2>2 DEF OneMoves
  <1> QED BY <1>1, <1>2 DEF BootstrapCommit

LEMMA StepMoves ==
    ASSUME TypeOK, NEW t \in Threads, Step(t) PROVE OneMoves
  <1>1. CASE \E r : Hold(t, r) BY <1>1, HoldKeeps, SameMoves DEF OneMoves
  <1> QED BY <1>1, StepKinds, AuthMoves, AdminMoves, BootstrapMoves DEF Commit

(***************************************************************************)
(* Counting.                                                               *)
(***************************************************************************)
One(S, x) == IF x \in S THEN 1 ELSE 0

(* A set that changes at x alone changes its size as x comes or goes.      *)
LEMMA SizeMoves ==
    ASSUME NEW S, NEW T, NEW x, IsFiniteSet(S), S \ {x} = T \ {x}
    PROVE  /\ IsFiniteSet(T)
           /\ Cardinality(S) \in Nat /\ Cardinality(T) \in Nat
           /\ Cardinality(T) = Cardinality(S) + One(T, x) - One(S, x)
  <1> DEFINE R == S \ {x}
  <1>1. IsFiniteSet(R) BY FS_RemoveElement
  <1>2. S = (IF x \in S THEN R \cup {x} ELSE R) OBVIOUS
  <1>3. T = (IF x \in T THEN R \cup {x} ELSE R) OBVIOUS
  <1>4. IsFiniteSet(R \cup {x}) /\ Cardinality(R \cup {x}) = Cardinality(R) + 1
    BY <1>1, FS_AddElement
  <1>5. Cardinality(R) \in Nat BY <1>1, FS_CardinalityType
  <1>6. IsFiniteSet(T) BY <1>1, <1>3, <1>4
  <1>7. Cardinality(S) = Cardinality(R) + One(S, x)
    BY <1>2, <1>4, <1>5 DEF One
  <1>8. Cardinality(T) = Cardinality(R) + One(T, x)
    BY <1>3, <1>4, <1>5 DEF One
  <1> HIDE DEF R
  <1> QED BY <1>5, <1>6, <1>7, <1>8 DEF One

LEMMA TwoParts ==
    ASSUME NEW A, NEW B, IsFiniteSet(A), IsFiniteSet(B), A \cap B = {}
    PROVE  /\ IsFiniteSet(A \cup B)
           /\ Cardinality(A \cup B) = Cardinality(A) + Cardinality(B)
  <1>1. Cardinality(A \cap B) = 0 BY FS_EmptySet
  <1>2. /\ IsFiniteSet(A \cup B)
        /\ Cardinality(A \cup B) =
                Cardinality(A) + Cardinality(B) - Cardinality(A \cap B)
    BY FS_Union
  <1>3. Cardinality(A) \in Nat /\ Cardinality(B) \in Nat BY FS_CardinalityType
  <1> QED BY <1>1, <1>2, <1>3

LEMMA ThreeParts ==
    ASSUME NEW S, NEW A, NEW B, NEW C, IsFiniteSet(S), S = A \cup B \cup C,
           A \cap B = {}, A \cap C = {}, B \cap C = {}
    PROVE  Cardinality(S) = Cardinality(A) + Cardinality(B) + Cardinality(C)
  <1>1. IsFiniteSet(A) /\ IsFiniteSet(B) /\ IsFiniteSet(C) BY FS_Subset
  <1>2. (A \cup B) \cap C = {} OBVIOUS
  <1>3. /\ IsFiniteSet(A \cup B)
        /\ Cardinality(A \cup B) = Cardinality(A) + Cardinality(B)
    BY <1>1, TwoParts
  <1> QED BY <1>1, <1>2, <1>3, TwoParts

(***************************************************************************)
(* The sets that are counted, while one row changes.                       *)
(***************************************************************************)
FiniteTables == IsFiniteSet(DOMAIN users) /\ IsFiniteSet(DOMAIN tenants)

LEMMA FiniteKept == ASSUME FiniteTables, OneMoves PROVE FiniteTables'
  <1>1. PICK u : UserMoves(u) BY DEF OneMoves
  <1>2. PICK n : TenantMoves(n) BY DEF OneMoves
  <1>3. IsFiniteSet(DOMAIN users \cup {u}) /\ IsFiniteSet(DOMAIN tenants \cup {n})
    BY FS_AddElement DEF FiniteTables
  <1> QED
    BY <1>1, <1>2, <1>3, FS_Subset DEF FiniteTables, UserMoves, TenantMoves

(* The users a summary counts, of all tenants or of one.                   *)
Listed(kind, n) == IF kind = "tenant" THEN Members(n) ELSE DOMAIN users
Active(n) == {u \in Members(n) : users[u].active}
InService == {n \in DOMAIN tenants : tenants[n].active}
Holders(kind, n, role) == WithRole(Listed(kind, n), role)

(* What the tables hold, counted at once, adds up.                         *)
CountsFit ==
    /\ \A kind, n :
        /\ Cardinality(Listed(kind, n)) \in Nat
        /\ \A role : Cardinality(Holders(kind, n, role)) \in Nat
        /\ Cardinality(Listed(kind, n)) =
                Cardinality(Holders(kind, n, "TENANT_ADMIN"))
              + Cardinality(Holders(kind, n, "USER"))
              + Cardinality(Holders(kind, n, "SYS_ADMIN"))
    /\ \A n : /\ Cardinality(Active(n)) \in Nat
             /\ Cardinality(Active(n)) <= Cardinality(Listed("tenant", n))
    /\ Cardinality(DOMAIN tenants) \in Nat /\ Cardinality(InService) \in Nat
    /\ Cardinality(InService) <= Cardinality(DOMAIN tenants)

LEMMA TablesFit == TypeOK /\ FiniteTables => CountsFit
  <1> SUFFICES ASSUME TypeOK, FiniteTables PROVE CountsFit
    OBVIOUS
  <1>1. ASSUME NEW kind, NEW n
        PROVE  /\ Cardinality(Listed(kind, n)) \in Nat
               /\ \A role : Cardinality(Holders(kind, n, role)) \in Nat
               /\ Cardinality(Listed(kind, n)) =
                        Cardinality(Holders(kind, n, "TENANT_ADMIN"))
                      + Cardinality(Holders(kind, n, "USER"))
                      + Cardinality(Holders(kind, n, "SYS_ADMIN"))
    <2> DEFINE S == Listed(kind, n)
    <2>1. S \subseteq DOMAIN users BY DEF Listed, Members
    <2>2. IsFiniteSet(S) BY <2>1, FS_Subset DEF FiniteTables
    <2>3. \A u \in S : users[u].role \in Roles
      BY <2>1, UsersFact DEF UserRow
    <2> HIDE DEF S
    <2>4. S = WithRole(S, "TENANT_ADMIN") \cup WithRole(S, "USER")
                  \cup WithRole(S, "SYS_ADMIN")
      BY <2>3 DEF WithRole, Roles
    <2>5. /\ WithRole(S, "TENANT_ADMIN") \cap WithRole(S, "USER") = {}
          /\ WithRole(S, "TENANT_ADMIN") \cap WithRole(S, "SYS_ADMIN") = {}
          /\ WithRole(S, "USER") \cap WithRole(S, "SYS_ADMIN") = {}
      BY DEF WithRole
    <2>6. \A role : IsFiniteSet(WithRole(S, role))
      <3>1. \A role : WithRole(S, role) \subseteq S BY DEF WithRole
      <3> QED BY <2>2, <3>1, FS_Subset
    <2> QED
      BY <2>2, <2>4, <2>5, <2>6, ThreeParts, FS_CardinalityType DEF Holders, S
  <1>2. ASSUME NEW n
        PROVE  /\ Cardinality(Active(n)) \in Nat
               /\ Cardinality(Active(n)) <= Cardinality(Listed("tenant", n))
    <2>1. /\ IsFiniteSet(Listed("tenant", n))
          /\ Active(n) \subseteq Listed("tenant", n)
      BY FS_Subset DEF FiniteTables, Listed, Members, Active
    <2> QED BY <2>1, FS_Subset, FS_CardinalityType
  <1>3. /\ Cardinality(DOMAIN tenants) \in Nat /\ Cardinality(InService) \in Nat
        /\ Cardinality(InService) <= Cardinality(DOMAIN tenants)
    <2>1. InService \subseteq DOMAIN tenants BY DEF InService
    <2> QED BY <2>1, FS_Subset, FS_CardinalityType DEF FiniteTables
  <1> QED BY <1>1, <1>2, <1>3 DEF CountsFit

LEMMA TablesFitNext == TypeOK' /\ FiniteTables' => CountsFit'
  BY TablesFit, PTL

(* One user's row changes: every count changes as this user comes or goes. *)
LEMMA UserCountsMove ==
    ASSUME FiniteTables, NEW u, UserMoves(u), NEW kind, NEW n
    PROVE  /\ \A role : Holders(kind, n, role)' \ {u} = Holders(kind, n, role) \ {u}
           /\ Active(n)' \ {u} = Active(n) \ {u}
           /\ Listed(kind, n)' \ {u} = Listed(kind, n) \ {u}
           /\ \A role : IsFiniteSet(Holders(kind, n, role))
           /\ IsFiniteSet(Active(n)) /\ IsFiniteSet(Listed(kind, n))
  <1>1. /\ \A role : Holders(kind, n, role) \subseteq DOMAIN users
        /\ Active(n) \subseteq DOMAIN users /\ Listed(kind, n) \subseteq DOMAIN users
    BY DEF Holders, WithRole, Active, Listed, Members
  <1>2. /\ \A role : IsFiniteSet(Holders(kind, n, role))
        /\ IsFiniteSet(Active(n)) /\ IsFiniteSet(Listed(kind, n))
    BY <1>1, FS_Subset DEF FiniteTables
  <1>3. Members(n)' \ {u} = Members(n) \ {u} BY DEF UserMoves, Members
  <1>4. Active(n)' \ {u} = Active(n) \ {u} BY DEF UserMoves, Members, Active
  <1>5. Listed(kind, n)' \ {u} = Listed(kind, n) \ {u}
    BY <1>3 DEF UserMoves, Listed
  <1>6. \A role : Holders(kind, n, role)' \ {u} = Holders(kind, n, role) \ {u}
    BY DEF UserMoves, Holders, WithRole, Listed, Members
  <1> QED BY <1>2, <1>4, <1>5, <1>6

(* A user has one role, so it comes or goes in one of the counts by role.  *)
LEMMA RolesMoveByOne ==
    ASSUME TypeOK, FiniteTables, NEW u, UserMoves(u), NEW kind, NEW n,
           NEW role \in Roles
    PROVE  /\ One(Holders(kind, n, role), u) \in {0, 1}
           /\ One(Holders(kind, n, role), u)' \in {0, 1}
           /\ Cardinality(Holders(kind, n, role)) \in Nat
           /\ Cardinality(Holders(kind, n, role))' \in Nat
           /\ Cardinality(Holders(kind, n, role))' =
                Cardinality(Holders(kind, n, role))
                  + One(Holders(kind, n, role), u)' - One(Holders(kind, n, role), u)
  <1> DEFINE S == Holders(kind, n, role)
             T == Holders(kind, n, role)'
  <1>1. IsFiniteSet(S) /\ S \ {u} = T \ {u} BY UserCountsMove
  <1>2. /\ Cardinality(S) \in Nat /\ Cardinality(T) \in Nat
        /\ Cardinality(T) = Cardinality(S) + One(T, u) - One(S, u)
    BY <1>1, SizeMoves
  <1>3. One(S, u) \in {0, 1} /\ One(T, u) \in {0, 1} BY DEF One
  <1> QED BY <1>2, <1>3 DEF One

RoleWeight(kind, n, u) ==
    One(Holders(kind, n, "TENANT_ADMIN"), u) + One(Holders(kind, n, "USER"), u)
      + One(Holders(kind, n, "SYS_ADMIN"), u)

LEMMA OneRole ==
    ASSUME NEW u, NEW kind, NEW n
    PROVE  RoleWeight(kind, n, u) <= 1 /\ RoleWeight(kind, n, u)' <= 1
  BY DEF RoleWeight, One, Holders, WithRole

LEMMA MembersMoveByOne ==
    ASSUME FiniteTables, NEW u, UserMoves(u), NEW n
    PROVE  /\ Cardinality(Active(n)) \in Nat /\ Cardinality(Active(n))' \in Nat
           /\ Cardinality(Active(n))' <= Cardinality(Active(n)) + 1
  <1> DEFINE S == Active(n)
             T == Active(n)'
  <1>1. IsFiniteSet(S) /\ S \ {u} = T \ {u} BY UserCountsMove
  <1>2. /\ Cardinality(S) \in Nat /\ Cardinality(T) \in Nat
        /\ Cardinality(T) = Cardinality(S) + One(T, u) - One(S, u)
    BY <1>1, SizeMoves
  <1>3. One(S, u) \in {0, 1} /\ One(T, u) \in {0, 1} BY DEF One
  <1> QED BY <1>2, <1>3

LEMMA InServiceMovesByOne ==
    ASSUME FiniteTables, NEW m, TenantMoves(m)
    PROVE  /\ Cardinality(InService) \in Nat /\ Cardinality(InService)' \in Nat
           /\ Cardinality(InService)' <= Cardinality(InService) + 1
  <1> DEFINE S == InService
             T == InService'
  <1>1. S \ {m} = T \ {m} BY DEF TenantMoves, InService
  <1>2. IsFiniteSet(S) BY FS_Subset DEF FiniteTables, InService
  <1>3. /\ Cardinality(S) \in Nat /\ Cardinality(T) \in Nat
        /\ Cardinality(T) = Cardinality(S) + One(T, m) - One(S, m)
    BY <1>1, <1>2, SizeMoves
  <1>4. One(S, m) \in {0, 1} /\ One(T, m) \in {0, 1} BY DEF One
  <1> QED BY <1>3, <1>4

(***************************************************************************)
(* A summary half counted: what is not counted yet stands for itself.      *)
(***************************************************************************)
Row(i) == Counted(report.kind, report.tenant)[i]
Count(i) ==
    IF i <= Len(report.numbers) THEN report.numbers[i] ELSE Cardinality(Row(i))

LEMMA CountedIs ==
    ASSUME NEW n
    PROVE  /\ Counted("tenant", n) =
                << Listed("tenant", n), Active(n),
                   Holders("tenant", n, "TENANT_ADMIN"), Holders("tenant", n, "USER") >>
           /\ Counted("system", n) =
                << DOMAIN tenants, InService, Listed("system", n),
                   Holders("system", n, "SYS_ADMIN"),
                   Holders("system", n, "TENANT_ADMIN"), Holders("system", n, "USER") >>
  BY DEF Counted, TenantCounts, SystemCounts, Listed, Active, InService, Holders

Report == [kind : AllKinds, thread : Threads, tenant : TenantIds,
           numbers : Seq(Nat), drift : Nat]
ReportOK ==
    report # NoReport =>
        /\ report \in Report
        /\ Len(report.numbers) <= Len(Counted(report.kind, report.tenant))

AddsUpSoFar ==
    report # NoReport =>
        /\ Count(2) <= Count(1) + report.drift
        /\ report.kind = "tenant" =>
            Within(report.drift, Count(1),
                   Count(3) + Count(4)
                     + Cardinality(Holders("tenant", report.tenant, "SYS_ADMIN")))
        /\ report.kind = "system" =>
            Within(report.drift, Count(3), Count(4) + Count(5) + Count(6))

SummaryInv == FiniteTables /\ ReportOK /\ AddsUpSoFar

(* At the start nothing has been counted, and everything adds up.          *)
Starts == /\ report # NoReport /\ report \in Report
          /\ report.numbers = << >> /\ report.drift = 0

LEMMA NothingCounted == CountsFit /\ Starts => ReportOK /\ AddsUpSoFar
  <1> SUFFICES ASSUME CountsFit, Starts PROVE ReportOK /\ AddsUpSoFar
    OBVIOUS
  <1> USE DEF Starts
  <1> DEFINE n == report.tenant
  <1>1. Len(report.numbers) = 0 /\ \A i \in 1..6 : Count(i) = Cardinality(Row(i))
    BY DEF Count
  <1>2. ReportOK BY <1>1, CountedIs DEF ReportOK, Report, AllKinds
  <1>3. CASE report.kind = "tenant"
    <2>1. /\ Count(1) = Cardinality(Listed("tenant", n))
          /\ Count(2) = Cardinality(Active(n))
          /\ Count(3) = Cardinality(Holders("tenant", n, "TENANT_ADMIN"))
          /\ Count(4) = Cardinality(Holders("tenant", n, "USER"))
      BY <1>1, <1>3, CountedIs DEF Row
    <2> QED BY <1>2, <1>3, <2>1 DEF CountsFit, AddsUpSoFar, Within, Report
  <1>4. CASE report.kind = "system"
    <2>1. /\ Count(1) = Cardinality(DOMAIN tenants)
          /\ Count(2) = Cardinality(InService)
          /\ Count(3) = Cardinality(Listed("system", n))
          /\ Count(4) = Cardinality(Holders("system", n, "SYS_ADMIN"))
          /\ Count(5) = Cardinality(Holders("system", n, "TENANT_ADMIN"))
          /\ Count(6) = Cardinality(Holders("system", n, "USER"))
      BY <1>1, <1>4, CountedIs DEF Row
    <2> QED BY <1>2, <1>4, <2>1 DEF CountsFit, AddsUpSoFar, Within, Report
  <1> QED BY <1>3, <1>4 DEF AllKinds, Report

LEMMA NothingCountedNext == CountsFit' /\ Starts' => ReportOK' /\ AddsUpSoFar'
  BY NothingCounted, PTL

(***************************************************************************)
(* The steps of a summary and of the service beside it.                    *)
(***************************************************************************)

(* The next number is what it stood for until it was counted.              *)
LEMMA NextNumberFits ==
    ASSUME CountsFit, ReportOK, AddsUpSoFar, CountNext
    PROVE  ReportOK' /\ AddsUpSoFar'
  <1> DEFINE n == report.tenant
             L == Len(report.numbers)
             rows == Counted(report.kind, n)
  <1>1. /\ report # NoReport /\ report \in Report
        /\ L \in Nat /\ L < Len(rows)
    <2>1. report # NoReport /\ report \in Report /\ L <= Len(rows) /\ L # Len(rows)
      BY DEF CountNext, ReportOK, IsComplete
    <2>2. Len(rows) \in {4, 6} BY <2>1, CountedIs DEF Report, AllKinds
    <2> QED BY <2>1, <2>2 DEF Report
  <1>2. report' = [report EXCEPT !.numbers = Append(@, Cardinality(rows[L + 1]))]
    BY DEF CountNext
  <1>3. \A kind, m : Counted(kind, m)' = Counted(kind, m)
    BY DEF CountNext, vars, Counted, TenantCounts, SystemCounts, Members, WithRole
  <1>4. Cardinality(rows[L + 1]) \in Nat
    <2>1. CASE report.kind = "tenant"
      <3>1. /\ Len(rows) = 4
            /\ rows[1] = Listed("tenant", n) /\ rows[2] = Active(n)
            /\ rows[3] = Holders("tenant", n, "TENANT_ADMIN")
            /\ rows[4] = Holders("tenant", n, "USER")
        BY <2>1, CountedIs
      <3>2. L + 1 \in 1..4 BY <1>1, <3>1
      <3>3. L + 1 = 1 \/ L + 1 = 2 \/ L + 1 = 3 \/ L + 1 = 4 BY <3>2
      <3> QED BY <3>1, <3>3 DEF CountsFit
    <2>2. CASE report.kind = "system"
      <3>1. /\ Len(rows) = 6
            /\ rows[1] = DOMAIN tenants /\ rows[2] = InService
            /\ rows[3] = Listed("system", n)
            /\ rows[4] = Holders("system", n, "SYS_ADMIN")
            /\ rows[5] = Holders("system", n, "TENANT_ADMIN")
            /\ rows[6] = Holders("system", n, "USER")
        BY <2>2, CountedIs
      <3>2. L + 1 \in 1..6 BY <1>1, <3>1
      <3>3. \/ L + 1 = 1 \/ L + 1 = 2 \/ L + 1 = 3
            \/ L + 1 = 4 \/ L + 1 = 5 \/ L + 1 = 6
        BY <3>2
      <3> QED BY <3>1, <3>3 DEF CountsFit
    <2> QED BY <1>1, <2>1, <2>2 DEF Report, AllKinds
  <1>5. \A kind, m, role :
            Holders(kind, m, role)' = Holders(kind, m, role)
    BY DEF CountNext, vars, Holders, WithRole, Listed, Members
  <1>6. rows = Counted(report.kind, n) OBVIOUS
  <1> HIDE DEF rows
  <1>7. /\ report' \in Report /\ report'.kind = report.kind /\ report'.tenant = n
        /\ report'.drift = report.drift
        /\ report'.numbers = Append(report.numbers, Cardinality(rows[L + 1]))
    <2> DEFINE c == Cardinality(rows[L + 1])
    <2>1. c \in Nat BY <1>4
    <2>2. report' = [report EXCEPT !.numbers = Append(@, c)] BY <1>2
    <2> HIDE DEF c
    <2>3. Append(report.numbers, c) \in Seq(Nat) BY <1>1, <2>1 DEF Report
    <2>4. /\ report' \in Report /\ report'.kind = report.kind
          /\ report'.tenant = report.tenant /\ report'.drift = report.drift
          /\ report'.numbers = Append(report.numbers, c)
      BY <1>1, <2>2, <2>3 DEF Report
    <2> QED BY <2>4 DEF c
  <1>8. Len(report'.numbers) = L + 1 BY <1>1, <1>7 DEF Report
  <1>9. ReportOK'
    BY <1>1, <1>3, <1>6, <1>7, <1>8, CountedIs DEF ReportOK, Report, AllKinds
  <1>10. \A i \in 1..6 : Count(i)' = Count(i)
    <2> SUFFICES ASSUME NEW i \in 1..6 PROVE Count(i)' = Count(i)
      OBVIOUS
    <2>1. CASE i <= L
      <3>1. report'.numbers[i] = report.numbers[i] BY <1>1, <1>7, <2>1 DEF Report
      <3> QED BY <1>1, <1>8, <2>1, <3>1 DEF Count
    <2>2. CASE i = L + 1
      <3>1. report'.numbers[i] = Cardinality(rows[i])
        BY <1>1, <1>4, <1>7, <2>2 DEF Report
      <3> QED BY <1>1, <1>6, <1>8, <2>2, <3>1 DEF Count, Row
    <2>3. CASE i > L + 1
      <3>1. Row(i)' = Row(i) BY <1>3, <1>7 DEF Row
      <3> QED BY <1>1, <1>8, <2>3, <3>1 DEF Count
    <2> QED BY <1>1, <2>1, <2>2, <2>3
  <1>11. AddsUpSoFar'
    BY <1>1, <1>5, <1>7, <1>10 DEF AddsUpSoFar, Within
  <1> QED BY <1>9, <1>11

(* A commit moves each count that is not taken yet by one at most, and all *)
(* the counts by role together by one at most, as a user has one role.     *)
LEMMA CommitDrifts ==
    ASSUME TypeOK, FiniteTables, OneMoves, CountsFit, CountsFit',
           ReportOK, AddsUpSoFar, report # NoReport,
           report' = [report EXCEPT !.drift = @ + 1]
    PROVE  ReportOK' /\ AddsUpSoFar'
  <1>0. PICK n, kind : n = report.tenant /\ kind = report.kind
    OBVIOUS
  <1> DEFINE L == Len(report.numbers)
             d == report.drift
  <1>1. /\ report \in Report /\ kind \in AllKinds /\ L \in Nat /\ d \in Nat
        /\ L <= Len(Counted(kind, n))
    BY <1>0 DEF ReportOK, Report
  <1>2. /\ report' \in Report /\ report'.kind = kind /\ report'.tenant = n
        /\ report'.drift = d + 1 /\ report'.numbers = report.numbers
    BY <1>0, <1>1 DEF Report
  <1>3. ReportOK'
    <2>1. Len(Counted(kind, n)') = Len(Counted(kind, n))
      BY <1>1, CountedIs DEF AllKinds, Counted, TenantCounts, SystemCounts
    <2> QED BY <1>0, <1>1, <1>2, <2>1 DEF ReportOK
  <1>4. /\ \A i \in 1..6 : i <= L => Count(i)' = Count(i)
        /\ \A i \in 1..6 : i > L =>
                Count(i) = Cardinality(Row(i)) /\ Count(i)' = Cardinality(Row(i)')
    BY <1>0, <1>1, <1>2 DEF Count
  <1>5. \A i \in 1..6 : i <= L => Count(i) \in Nat
    BY <1>1 DEF Count, Report
  <1>6. PICK u : UserMoves(u) BY DEF OneMoves
  <1>7. PICK m : TenantMoves(m) BY DEF OneMoves
  <1>8. \A role \in Roles :
            /\ One(Holders(kind, n, role), u) \in {0, 1}
            /\ One(Holders(kind, n, role), u)' \in {0, 1}
            /\ Cardinality(Holders(kind, n, role)) \in Nat
            /\ Cardinality(Holders(kind, n, role))' \in Nat
            /\ Cardinality(Holders(kind, n, role))' =
                    Cardinality(Holders(kind, n, role))
                      + One(Holders(kind, n, role), u)'
                      - One(Holders(kind, n, role), u)
    BY <1>6, RolesMoveByOne
  <1>9. RoleWeight(kind, n, u) <= 1 /\ RoleWeight(kind, n, u)' <= 1
    BY OneRole
  <1>10. CASE kind = "tenant"
    <2>1. /\ Row(1) = Listed("tenant", n) /\ Row(1)' = Listed("tenant", n)'
          /\ Row(2) = Active(n) /\ Row(2)' = Active(n)'
          /\ Row(3) = Holders("tenant", n, "TENANT_ADMIN")
          /\ Row(3)' = Holders("tenant", n, "TENANT_ADMIN")'
          /\ Row(4) = Holders("tenant", n, "USER")
          /\ Row(4)' = Holders("tenant", n, "USER")'
      BY <1>0, <1>2, <1>10, CountedIs
      DEF Row, Counted, TenantCounts, Listed, Active, Holders
    <2>2. /\ Cardinality(Active(n))' <= Cardinality(Active(n)) + 1
          /\ Cardinality(Active(n))' \in Nat /\ Cardinality(Active(n)) \in Nat
      BY <1>6, MembersMoveByOne
    <2>3. CASE L = 0
      <3>1. /\ Count(1)' = Cardinality(Listed("tenant", n)')
            /\ Count(2)' = Cardinality(Active(n)')
            /\ Count(3)' = Cardinality(Holders("tenant", n, "TENANT_ADMIN")')
            /\ Count(4)' = Cardinality(Holders("tenant", n, "USER")')
        BY <1>4, <2>1, <2>3
      <3>2. /\ Cardinality(Listed("tenant", n)') \in Nat
            /\ Cardinality(Active(n)') \in Nat
            /\ Cardinality(Active(n)') <= Cardinality(Listed("tenant", n)')
            /\ \A role : Cardinality(Holders("tenant", n, role)') \in Nat
            /\ Cardinality(Listed("tenant", n)') =
                    Cardinality(Holders("tenant", n, "TENANT_ADMIN")')
                  + Cardinality(Holders("tenant", n, "USER")')
                  + Cardinality(Holders("tenant", n, "SYS_ADMIN")')
        BY DEF CountsFit
      <3>3. Count(1)' \in Nat /\ Count(2)' <= Count(1)' + (d + 1)
        BY <1>1, <3>1, <3>2
      <3>4. Within(d + 1, Count(1)',
                   Count(3)' + Count(4)'
                     + Cardinality(Holders("tenant", n, "SYS_ADMIN")'))
        BY <1>1, <3>1, <3>2 DEF Within
      <3> QED BY <1>0, <1>2, <1>3, <1>10, <3>3, <3>4 DEF AddsUpSoFar
    <2>4. CASE L # 0
      <3>1. Count(1)' = Count(1) /\ Count(1) \in Nat BY <1>1, <1>4, <1>5, <2>4
      <3>2. Count(2)' \in Nat /\ Count(2) \in Nat /\ Count(2)' <= Count(2) + 1
        <4>1. CASE 2 <= L BY <1>4, <1>5, <4>1
        <4>2. CASE ~(2 <= L) BY <1>1, <1>4, <2>1, <2>2, <4>2
        <4> QED BY <4>1, <4>2
      <3>3. /\ Count(3) \in Nat /\ Count(3)' \in Nat
            /\ \/ Count(3)' = Count(3)
               \/ Count(3)' = Count(3)
                    + One(Holders("tenant", n, "TENANT_ADMIN"), u)'
                    - One(Holders("tenant", n, "TENANT_ADMIN"), u)
        <4>1. CASE 3 <= L BY <1>4, <1>5, <4>1
        <4>2. CASE ~(3 <= L) BY <1>1, <1>4, <1>8, <1>10, <2>1, <4>2 DEF Roles
        <4> QED BY <4>1, <4>2
      <3>4. /\ Count(4) \in Nat /\ Count(4)' \in Nat
            /\ \/ Count(4)' = Count(4)
               \/ Count(4)' = Count(4)
                    + One(Holders("tenant", n, "USER"), u)'
                    - One(Holders("tenant", n, "USER"), u)
        <4>1. CASE 4 <= L BY <1>4, <1>5, <4>1
        <4>2. CASE ~(4 <= L) BY <1>1, <1>4, <1>8, <1>10, <2>1, <4>2 DEF Roles
        <4> QED BY <4>1, <4>2
      <3>5. /\ Count(2) <= Count(1) + d
            /\ Within(d, Count(1), Count(3) + Count(4)
                      + Cardinality(Holders("tenant", n, "SYS_ADMIN")))
        BY <1>0, <1>10 DEF AddsUpSoFar
      <3>6. Within(d + 1, Count(1), Count(3)' + Count(4)'
                      + Cardinality(Holders("tenant", n, "SYS_ADMIN"))')
        <4> DEFINE S(role) == Holders("tenant", n, role)
        <4>1. /\ \A role \in Roles : /\ One(S(role), u) \in {0, 1}
                                    /\ One(S(role), u)' \in {0, 1}
              /\ Cardinality(S("SYS_ADMIN")) \in Nat
              /\ Cardinality(S("SYS_ADMIN"))' \in Nat
              /\ Cardinality(S("SYS_ADMIN"))' = Cardinality(S("SYS_ADMIN"))
                    + One(S("SYS_ADMIN"), u)' - One(S("SYS_ADMIN"), u)
          BY <1>8, <1>10 DEF Roles
        <4>2. /\ One(S("TENANT_ADMIN"), u) + One(S("USER"), u)
                    + One(S("SYS_ADMIN"), u) <= 1
              /\ One(S("TENANT_ADMIN"), u)' + One(S("USER"), u)'
                    + One(S("SYS_ADMIN"), u)' <= 1
          BY <1>9, <1>10 DEF RoleWeight
        <4> DEFINE a == One(S("TENANT_ADMIN"), u)
                   a1 == One(S("TENANT_ADMIN"), u)'
                   ax == Count(3)
                   ay == Count(3)'
                   b == One(S("USER"), u)
                   b1 == One(S("USER"), u)'
                   bx == Count(4)
                   by == Count(4)'
                   c == One(S("SYS_ADMIN"), u)
                   c1 == One(S("SYS_ADMIN"), u)'
                   cx == Cardinality(S("SYS_ADMIN"))
                   cy == Cardinality(S("SYS_ADMIN"))'
                   total == Count(1)
        <4>3. /\ a \in {0, 1} /\ b \in {0, 1} /\ c \in {0, 1}
              /\ a1 \in {0, 1} /\ b1 \in {0, 1} /\ c1 \in {0, 1}
              /\ a + b + c <= 1 /\ a1 + b1 + c1 <= 1
          BY <4>1, <4>2 DEF Roles
        <4>4. /\ ax \in Nat /\ ay \in Nat /\ bx \in Nat /\ by \in Nat
              /\ cx \in Nat /\ cy \in Nat /\ d \in Nat /\ total \in Nat
              /\ ay = ax \/ ay = ax + a1 - a
              /\ by = bx \/ by = bx + b1 - b
              /\ cy = cx \/ cy = cx + c1 - c
              /\ Within(d, total, ax + bx + cx)
          BY <1>1, <3>1, <3>3, <3>4, <3>5, <4>1
        <4> HIDE DEF a, b, c, a1, b1, c1, ax, ay, bx, by, cx, cy, d, total
        <4>5. Within(d + 1, total, ay + by + cy) BY <4>3, <4>4 DEF Within
        <4> QED BY <4>5 DEF ay, by, cy, d, total
      <3>7. Count(2)' <= Count(1)' + (d + 1) BY <1>1, <3>1, <3>2, <3>5
      <3> QED BY <1>0, <1>2, <1>3, <1>10, <3>1, <3>6, <3>7 DEF AddsUpSoFar
    <2> QED BY <2>3, <2>4
  <1>11. CASE kind = "system"
    <2>1. /\ Row(1) = DOMAIN tenants /\ Row(1)' = DOMAIN tenants'
          /\ Row(2) = InService /\ Row(2)' = InService'
          /\ Row(3) = Listed("system", n) /\ Row(3)' = Listed("system", n)'
          /\ Row(4) = Holders("system", n, "SYS_ADMIN")
          /\ Row(4)' = Holders("system", n, "SYS_ADMIN")'
          /\ Row(5) = Holders("system", n, "TENANT_ADMIN")
          /\ Row(5)' = Holders("system", n, "TENANT_ADMIN")'
          /\ Row(6) = Holders("system", n, "USER")
          /\ Row(6)' = Holders("system", n, "USER")'
      BY <1>0, <1>2, <1>11, CountedIs
      DEF Row, Counted, SystemCounts, Listed, InService, Holders
    <2>2. /\ Cardinality(InService)' <= Cardinality(InService) + 1
          /\ Cardinality(InService)' \in Nat /\ Cardinality(InService) \in Nat
      BY <1>7, InServiceMovesByOne
    <2>3. Count(2)' <= Count(1)' + (d + 1)
      <3>1. CASE L = 0
        <4>1. Count(1)' = Cardinality(DOMAIN tenants') /\ Count(2)' = Cardinality(InService')
          BY <1>4, <2>1, <3>1
        <4>2. /\ Cardinality(DOMAIN tenants') \in Nat /\ Cardinality(InService') \in Nat
              /\ Cardinality(InService') <= Cardinality(DOMAIN tenants')
          BY DEF CountsFit
        <4> QED BY <1>1, <4>1, <4>2
      <3>2. CASE L # 0
        <4>1. Count(1)' = Count(1) /\ Count(1) \in Nat BY <1>1, <1>4, <1>5, <3>2
        <4>2. Count(2)' \in Nat /\ Count(2) \in Nat /\ Count(2)' <= Count(2) + 1
          <5>1. CASE 2 <= L BY <1>4, <1>5, <5>1
          <5>2. CASE ~(2 <= L) BY <1>1, <1>4, <2>1, <2>2, <5>2
          <5> QED BY <5>1, <5>2
        <4>3. Count(2) <= Count(1) + d BY <1>0 DEF AddsUpSoFar
        <4> QED BY <1>1, <4>1, <4>2, <4>3
      <3> QED BY <3>1, <3>2
    <2>4. CASE L < 3
      <3>1. /\ Count(3)' = Cardinality(Listed("system", n)')
            /\ Count(4)' = Cardinality(Holders("system", n, "SYS_ADMIN")')
            /\ Count(5)' = Cardinality(Holders("system", n, "TENANT_ADMIN")')
            /\ Count(6)' = Cardinality(Holders("system", n, "USER")')
        BY <1>1, <1>4, <2>1, <2>4
      <3>2. /\ \A role : Cardinality(Holders("system", n, role)') \in Nat
            /\ Cardinality(Listed("system", n)') =
                    Cardinality(Holders("system", n, "TENANT_ADMIN")')
                  + Cardinality(Holders("system", n, "USER")')
                  + Cardinality(Holders("system", n, "SYS_ADMIN")')
        BY DEF CountsFit
      <3>3. Within(d + 1, Count(3)', Count(4)' + Count(5)' + Count(6)')
        BY <1>1, <3>1, <3>2 DEF Within
      <3> QED BY <1>0, <1>2, <1>3, <1>11, <2>3, <3>3 DEF AddsUpSoFar
    <2>5. CASE ~(L < 3)
      <3>1. Count(3)' = Count(3) /\ Count(3) \in Nat BY <1>1, <1>4, <1>5, <2>5
      <3>2. /\ Count(4) \in Nat /\ Count(4)' \in Nat
            /\ \/ Count(4)' = Count(4)
               \/ Count(4)' = Count(4)
                    + One(Holders("system", n, "SYS_ADMIN"), u)'
                    - One(Holders("system", n, "SYS_ADMIN"), u)
        <4>1. CASE 4 <= L BY <1>4, <1>5, <4>1
        <4>2. CASE ~(4 <= L) BY <1>1, <1>4, <1>8, <1>11, <2>1, <4>2 DEF Roles
        <4> QED BY <4>1, <4>2
      <3>3. /\ Count(5) \in Nat /\ Count(5)' \in Nat
            /\ \/ Count(5)' = Count(5)
               \/ Count(5)' = Count(5)
                    + One(Holders("system", n, "TENANT_ADMIN"), u)'
                    - One(Holders("system", n, "TENANT_ADMIN"), u)
        <4>1. CASE 5 <= L BY <1>4, <1>5, <4>1
        <4>2. CASE ~(5 <= L) BY <1>1, <1>4, <1>8, <1>11, <2>1, <4>2 DEF Roles
        <4> QED BY <4>1, <4>2
      <3>4. /\ Count(6) \in Nat /\ Count(6)' \in Nat
            /\ \/ Count(6)' = Count(6)
               \/ Count(6)' = Count(6)
                    + One(Holders("system", n, "USER"), u)'
                    - One(Holders("system", n, "USER"), u)
        <4>1. CASE 6 <= L BY <1>4, <1>5, <4>1
        <4>2. CASE ~(6 <= L) BY <1>1, <1>4, <1>8, <1>11, <2>1, <4>2 DEF Roles
        <4> QED BY <4>1, <4>2
      <3>5. Within(d, Count(3), Count(4) + Count(5) + Count(6))
        BY <1>0, <1>11 DEF AddsUpSoFar
      <3>6. Within(d + 1, Count(3), Count(4)' + Count(5)' + Count(6)')
        <4> DEFINE S(role) == Holders("system", n, role)
        <4>1. \A role \in Roles : /\ One(S(role), u) \in {0, 1}
                                 /\ One(S(role), u)' \in {0, 1}
          BY <1>8, <1>11
        <4>2. /\ One(S("TENANT_ADMIN"), u) + One(S("USER"), u)
                    + One(S("SYS_ADMIN"), u) <= 1
              /\ One(S("TENANT_ADMIN"), u)' + One(S("USER"), u)'
                    + One(S("SYS_ADMIN"), u)' <= 1
          BY <1>9, <1>11 DEF RoleWeight
        <4> DEFINE a == One(S("SYS_ADMIN"), u)
                   a1 == One(S("SYS_ADMIN"), u)'
                   ax == Count(4)
                   ay == Count(4)'
                   b == One(S("TENANT_ADMIN"), u)
                   b1 == One(S("TENANT_ADMIN"), u)'
                   bx == Count(5)
                   by == Count(5)'
                   c == One(S("USER"), u)
                   c1 == One(S("USER"), u)'
                   cx == Count(6)
                   cy == Count(6)'
                   total == Count(3)
        <4>3. /\ a \in {0, 1} /\ b \in {0, 1} /\ c \in {0, 1}
              /\ a1 \in {0, 1} /\ b1 \in {0, 1} /\ c1 \in {0, 1}
              /\ a + b + c <= 1 /\ a1 + b1 + c1 <= 1
          BY <4>1, <4>2 DEF Roles
        <4>4. /\ ax \in Nat /\ ay \in Nat /\ bx \in Nat /\ by \in Nat
              /\ cx \in Nat /\ cy \in Nat /\ d \in Nat /\ total \in Nat
              /\ ay = ax \/ ay = ax + a1 - a
              /\ by = bx \/ by = bx + b1 - b
              /\ cy = cx \/ cy = cx + c1 - c
              /\ Within(d, total, ax + bx + cx)
          BY <1>1, <3>1, <3>2, <3>3, <3>4, <3>5
        <4> HIDE DEF a, b, c, a1, b1, c1, ax, ay, bx, by, cx, cy, d, total
        <4>5. Within(d + 1, total, ay + by + cy) BY <4>3, <4>4 DEF Within
        <4> QED BY <4>5 DEF ay, by, cy, d, total
      <3> QED BY <1>0, <1>2, <1>3, <1>11, <2>3, <3>1, <3>6 DEF AddsUpSoFar
    <2> QED BY <2>4, <2>5
  <1> QED BY <1>1, <1>10, <1>11 DEF AllKinds

LEMMA ServiceFits ==
    ASSUME TypeOK, TypeOK', SummaryInv, ServiceStep PROVE SummaryInv'
  <1>1. OneMoves
    <2>1. CASE Tick BY <2>1, SameMoves DEF Tick, tables, OneMoves
    <2> QED BY <2>1, StepMoves DEF ServiceStep
  <1>2. FiniteTables' BY <1>1, FiniteKept DEF SummaryInv
  <1>3. CountsFit /\ CountsFit'
    BY <1>2, TablesFit, TablesFitNext DEF SummaryInv
  <1>4. CASE report = NoReport
    BY <1>2, <1>4 DEF ServiceStep, SummaryInv, ReportOK, AddsUpSoFar
  <1>5. CASE report # NoReport /\ users' = users /\ tenants' = tenants
    <2>1. report' = report BY <1>5 DEF ServiceStep
    <2>2. /\ \A kind, n : Counted(kind, n)' = Counted(kind, n)
          /\ \A kind, n, role : Holders(kind, n, role)' = Holders(kind, n, role)
      BY <1>5 DEF Counted, TenantCounts, SystemCounts, Members, WithRole,
                  Holders, Listed
    <2>3. ReportOK' BY <2>1, <2>2 DEF SummaryInv, ReportOK
    <2>4. \A i : Count(i)' = Count(i) BY <2>1, <2>2 DEF Count, Row
    <2>5. AddsUpSoFar' BY <2>1, <2>2, <2>4 DEF SummaryInv, AddsUpSoFar
    <2> QED BY <1>2, <2>3, <2>5 DEF SummaryInv
  <1>6. CASE report # NoReport /\ ~(users' = users /\ tenants' = tenants)
    <2>1. report' = [report EXCEPT !.drift = @ + 1] BY <1>6 DEF ServiceStep
    <2> QED BY <1>1, <1>2, <1>3, <1>6, <2>1, CommitDrifts DEF SummaryInv
  <1> QED BY <1>4, <1>5, <1>6

LEMMA SummaryStepFits ==
    ASSUME TypeOK, TypeOK', SummaryInv, SummaryNext PROVE SummaryInv'
  <1>1. CASE \E t \in Threads : StartSummary(t)
    <2>1. /\ UNCHANGED vars
          /\ \E t \in Threads, kind \in Kinds, j \in jwts :
                report' = [kind |-> kind, thread |-> t, tenant |-> j.tenant,
                           numbers |-> << >>, drift |-> 0]
      BY <1>1 DEF StartSummary
    <2>2. FiniteTables' BY <2>1 DEF SummaryInv, FiniteTables, vars
    <2>3. Starts'
      <3>1. PICK t \in Threads, kind \in Kinds, j \in jwts :
                report' = [kind |-> kind, thread |-> t, tenant |-> j.tenant,
                           numbers |-> << >>, drift |-> 0]
        BY <2>1
      <3>2. kind \in AllKinds /\ j.tenant \in TenantIds
        BY KindsAssumption DEF TypeOK, TablesOK, AccessToken
      <3>3. report'.kind = kind /\ report'.numbers = << >> /\ report'.drift = 0
        BY <3>1
      <3>4. kind # "none" BY <3>2 DEF AllKinds
      <3>5. report' # NoReport BY <3>3, <3>4 DEF NoReport
      <3>6. << >> \in Seq(Nat) OBVIOUS
      <3>7. report' \in Report BY <3>1, <3>2, <3>6 DEF Report
      <3> QED BY <3>3, <3>5, <3>7 DEF Starts
    <2> QED
      BY <2>2, <2>3, TablesFitNext, NothingCountedNext DEF SummaryInv
  <1>2. CASE CountNext
    <2>1. FiniteTables' BY <1>2 DEF CountNext, SummaryInv, FiniteTables, vars
    <2> QED BY <1>2, <2>1, TablesFit, NextNumberFits DEF SummaryInv
  <1>3. CASE Answer
    BY <1>3 DEF Answer, SummaryInv, FiniteTables, ReportOK, AddsUpSoFar, vars
  <1>4. CASE ServiceStep BY <1>4, ServiceFits
  <1> QED BY <1>1, <1>2, <1>3, <1>4 DEF SummaryNext

(* Beside the summaries the service does what it does without them.        *)
LEMMA SummariesOnlyRead == SummarySpec => Spec
  <1>1. ASSUME SummaryNext PROVE [Next]_vars
    BY <1>1 DEF SummaryNext, StartSummary, CountNext, Answer, ServiceStep, Next
  <1>2. ASSUME UNCHANGED summaryVars PROVE UNCHANGED vars
    BY <1>2 DEF summaryVars
  <1> QED BY <1>1, <1>2, PTL DEF Spec, SummarySpec

LEMMA SummaryInvariant == SummarySpec => []SummaryInv
  <1>1. Init /\ report = NoReport => SummaryInv
    BY FS_EmptySet DEF Init, EmptyTable, SummaryInv, FiniteTables, ReportOK, AddsUpSoFar
  <1>2. TypeOK /\ TypeOK' /\ SummaryInv /\ [SummaryNext]_summaryVars => SummaryInv'
    <2>1. ASSUME SummaryInv, UNCHANGED summaryVars PROVE SummaryInv'
      <3>1. users' = users /\ tenants' = tenants /\ report' = report
        BY <2>1 DEF summaryVars, vars
      <3>2. /\ \A kind, n : Counted(kind, n)' = Counted(kind, n)
            /\ \A kind, n, role : Holders(kind, n, role)' = Holders(kind, n, role)
        BY <3>1 DEF Counted, TenantCounts, SystemCounts, Members, WithRole,
                    Holders, Listed
      <3>3. ReportOK' BY <2>1, <3>1, <3>2 DEF SummaryInv, ReportOK
      <3>4. \A i : Count(i)' = Count(i) BY <3>1, <3>2 DEF Count, Row
      <3>5. AddsUpSoFar' BY <2>1, <3>1, <3>2, <3>4 DEF SummaryInv, AddsUpSoFar
      <3> QED BY <2>1, <3>1, <3>3, <3>5 DEF SummaryInv, FiniteTables
    <2> QED BY <2>1, SummaryStepFits
  <1> QED BY <1>1, <1>2, SummariesOnlyRead, Typing, PTL DEF SummarySpec

(* A summary that is complete is off by at most what was committed while   *)
(* it was counted: no more is active than there is and the roles add up to *)
(* the total, each within one for every commit.                            *)
THEOREM SummariesHold == SummarySpec => []SummariesAddUp
  <1>1. TypeOK /\ SummaryInv => SummariesAddUp
    <2> SUFFICES ASSUME TypeOK, SummaryInv, IsComplete PROVE SummariesAddUp
      BY DEF SummariesAddUp
    <2> DEFINE L == Len(report.numbers)
    <2>1. /\ report # NoReport /\ report \in Report
          /\ L = Len(Counted(report.kind, report.tenant))
      BY DEF IsComplete, SummaryInv, ReportOK
    <2>2. \A i \in 1..6 : i <= L => Count(i) = report.numbers[i]
      BY DEF Count
    <2>3. CASE report.kind = "tenant"
      <3>1. L = 4 BY <2>1, <2>3, CountedIs
      <3>2. Holders("tenant", report.tenant, "SYS_ADMIN")
                = WithRole(Members(report.tenant), "SYS_ADMIN")
        BY DEF Holders, Listed
      <3> QED BY <2>1, <2>2, <2>3, <3>1, <3>2
          DEF SummaryInv, AddsUpSoFar, SummariesAddUp
    <2>4. CASE report.kind = "system"
      <3>1. L = 6 BY <2>1, <2>4, CountedIs
      <3> QED BY <2>1, <2>2, <2>4, <3>1 DEF SummaryInv, AddsUpSoFar, SummariesAddUp
    <2> QED BY <2>1, <2>3, <2>4 DEF Report, AllKinds
  <1> QED BY <1>1, SummariesOnlyRead, SummaryInvariant, Typing, PTL

====
