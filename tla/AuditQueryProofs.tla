---- MODULE AuditQueryProofs ----
(***************************************************************************)
(* Proofs about AuditQuery for any number of readers, transactions and     *)
(* entries and any page sizes.  The ranks of the entries of a log are the  *)
(* numbers below its size, each taken once; entries are only added, so     *)
(* ranks only grow, and what is still unseen stays ahead of the reader.    *)
(***************************************************************************)
EXTENDS AuditQuery, FiniteSetTheorems, TLAPS

LEMMA BeforeIsAnOrder ==
    ASSUME NEW S, LogOK(S)
    PROVE  /\ \A e \in S : ~Before(e, e)
           /\ \A e, f \in S : e = f \/ Before(e, f) \/ Before(f, e)
           /\ \A e, f, g \in S : Before(e, f) /\ Before(f, g) => Before(e, g)
<1>1. \A e \in S : e.at \in Nat /\ e.id \in Nat
  <2> SUFFICES ASSUME NEW e \in S PROVE e.at \in Nat /\ e.id \in Nat
    OBVIOUS
  <2>1. e \in [at : 0 .. MaxTime, id : Ids, tenant : Scopes]
    BY DEF LogOK, Entry
  <2>2. e.at \in 0 .. MaxTime /\ e.id \in Ids
    BY <2>1
  <2> QED BY <2>2, IdsAreOrdered, MaxTimeNat
<1>2. \A e, f \in S : e.id = f.id => e = f
    BY DEF LogOK
<1> QED BY <1>1, <1>2 DEF Before

(* The entries listed before e, as a set.                                  *)
Ahead(e, S) == {f \in S : Before(f, e)}

LEMMA RankIsSmall ==
    ASSUME NEW S, LogOK(S), NEW e \in S
    PROVE  /\ Rank(e, S) \in Nat /\ Rank(e, S) < Cardinality(S)
           /\ IsFiniteSet(Ahead(e, S)) /\ Cardinality(S) \in Nat
<1>1. Ahead(e, S) \in SUBSET S /\ e \notin Ahead(e, S) /\ IsFiniteSet(S)
    BY BeforeIsAnOrder DEF Ahead, LogOK
<1>2. /\ IsFiniteSet(Ahead(e, S))
      /\ Cardinality(Ahead(e, S)) <= Cardinality(S)
      /\ Cardinality(S) = Cardinality(Ahead(e, S)) => S = Ahead(e, S)
    BY <1>1, FS_Subset
<1>3. Cardinality(Ahead(e, S)) \in Nat /\ Cardinality(S) \in Nat
    BY <1>1, <1>2, FS_CardinalityType
<1>4. Rank(e, S) = Cardinality(Ahead(e, S))
    BY DEF Rank, Ahead
<1> QED BY <1>1, <1>2, <1>3, <1>4

(* No two entries have the same rank.                                      *)
LEMMA RanksDiffer ==
    ASSUME NEW S, LogOK(S), NEW e \in S, NEW f \in S, Before(e, f)
    PROVE  Rank(e, S) < Rank(f, S)
<1>1. Ahead(e, S) \in SUBSET Ahead(f, S) /\ e \in Ahead(f, S) /\ e \notin Ahead(e, S)
    BY BeforeIsAnOrder DEF Ahead
<1>2. IsFiniteSet(Ahead(f, S)) /\ IsFiniteSet(Ahead(e, S))
    BY RankIsSmall
<1>3. /\ Cardinality(Ahead(e, S)) <= Cardinality(Ahead(f, S))
      /\ Cardinality(Ahead(f, S)) = Cardinality(Ahead(e, S)) => Ahead(f, S) = Ahead(e, S)
    BY <1>1, <1>2, FS_Subset
<1>4. Cardinality(Ahead(e, S)) \in Nat /\ Cardinality(Ahead(f, S)) \in Nat
    BY <1>2, FS_CardinalityType
<1>5. Rank(e, S) = Cardinality(Ahead(e, S)) /\ Rank(f, S) = Cardinality(Ahead(f, S))
    BY DEF Rank, Ahead
<1> QED BY <1>1, <1>3, <1>4, <1>5

(* Every number below the size of the log is the rank of an entry.         *)
LEMMA RanksAreTaken ==
    ASSUME NEW S, LogOK(S), NEW n \in Nat, n < Cardinality(S)
    PROVE  \E e \in S : Rank(e, S) = n
<1> DEFINE T == 0 .. Cardinality(S) - 1
           g == [e \in S |-> Rank(e, S)]
<1>1. IsFiniteSet(S) /\ Cardinality(S) \in Nat
    BY FS_CardinalityType DEF LogOK
<1>2. g \in [S -> T]
    BY <1>1, RankIsSmall
<1>3. ASSUME NEW e \in S, NEW f \in S, g[e] = g[f] PROVE e = f
  <2>1. Rank(e, S) = Rank(f, S) /\ Rank(e, S) \in Nat
    BY <1>3, RankIsSmall
  <2> QED BY <2>1, BeforeIsAnOrder, RanksDiffer
<1>4. g \in Injection(S, T)
    BY <1>2, <1>3 DEF Injection, IsInjective
<1>5. IsFiniteSet(T) /\ Cardinality(T) = Cardinality(S)
  <2>1. 0 \in Int /\ Cardinality(S) - 1 \in Int
    BY <1>1
  <2>2. /\ IsFiniteSet(T)
        /\ Cardinality(T) = IF 0 > Cardinality(S) - 1 THEN 0
                            ELSE (Cardinality(S) - 1) - 0 + 1
    BY <2>1, FS_Interval
  <2> HIDE DEF T
  <2> QED BY <1>1, <2>2
<1>6. g \in Surjection(S, T)
    BY <1>4, <1>5, FS_Injection
<1>7. n \in T
    BY <1>1
<1> QED BY <1>6, <1>7 DEF Surjection

(* A page is full unless it reaches the end of the log.                    *)
LEMMA PageIsFull ==
    ASSUME NEW S, LogOK(S), NEW o \in Nat, NEW n \in Nat
    PROVE  /\ IsFiniteSet(Page(S, o, n)) /\ Cardinality(Page(S, o, n)) \in Nat
           /\ Cardinality(Page(S, o, n)) <= n
           /\ o + n <= Cardinality(S) => Cardinality(Page(S, o, n)) = n
           /\ o + n > Cardinality(S) => o + Cardinality(Page(S, o, n)) >= Cardinality(S)
<1> DEFINE P == Page(S, o, n)
           g == [e \in P |-> Rank(e, S)]
<1>1. IsFiniteSet(S) /\ Cardinality(S) \in Nat /\ P \in SUBSET S
    BY FS_CardinalityType DEF LogOK, Page
<1>2. IsFiniteSet(P) /\ Cardinality(P) \in Nat
    BY <1>1, FS_Subset, FS_CardinalityType
<1>3. \A e, f \in P : g[e] = g[f] => e = f
  <2> SUFFICES ASSUME NEW e \in P, NEW f \in P, g[e] = g[f] PROVE e = f
    OBVIOUS
  <2>1. Rank(e, S) = Rank(f, S) /\ Rank(e, S) \in Nat /\ e \in S /\ f \in S
    BY <1>1, RankIsSmall
  <2> QED BY <2>1, BeforeIsAnOrder, RanksDiffer
<1>4. ASSUME NEW m \in Nat, m <= n, o + m <= Cardinality(S) \/ m = n,
             \A e \in P : Rank(e, S) < o + m
      PROVE  /\ Cardinality(P) <= m
             /\ o + m <= Cardinality(S) => Cardinality(P) = m
  <2> DEFINE T == o .. o + m - 1
  <2>1. IsFiniteSet(T) /\ Cardinality(T) = m
    BY FS_Interval
  <2>2. g \in [P -> T]
    BY <1>1, <1>4, RankIsSmall DEF Page
  <2>3. g \in Injection(P, T)
    BY <1>3, <2>2 DEF Injection, IsInjective
  <2>4. /\ Cardinality(P) <= m
        /\ g \in Surjection(P, T) => Cardinality(P) = m
    BY <2>1, <2>3, FS_Injection
  <2>5. ASSUME o + m <= Cardinality(S), NEW k \in T PROVE \E e \in P : g[e] = k
    <3>1. k \in Nat /\ k < Cardinality(S) /\ o <= k /\ k < o + n
        BY <1>1, <1>4, <2>5
    <3>2. PICK e \in S : Rank(e, S) = k
        BY <3>1, RanksAreTaken
    <3>3. e \in P
        BY <3>1, <3>2 DEF Page
    <3> QED BY <3>2, <3>3
  <2>6. o + m <= Cardinality(S) => g \in Surjection(P, T)
    BY <2>2, <2>5 DEF Surjection
  <2> QED BY <2>4, <2>6
<1>5. \A e \in P : Rank(e, S) < o + n /\ Rank(e, S) < Cardinality(S) /\ Rank(e, S) \in Nat
    BY <1>1, RankIsSmall DEF Page
<1>6. Cardinality(P) <= n /\ (o + n <= Cardinality(S) => Cardinality(P) = n)
    BY <1>4, <1>5
<1>7. ASSUME o + n > Cardinality(S), o <= Cardinality(S)
      PROVE  o + Cardinality(P) >= Cardinality(S)
  <2>1. PICK m \in Nat : o + m = Cardinality(S) /\ m <= n
    <3>1. Cardinality(S) - o \in Nat /\ o + (Cardinality(S) - o) = Cardinality(S)
          /\ Cardinality(S) - o <= n
        BY <1>1, <1>7
    <3> QED BY <3>1
  <2>2. Cardinality(P) = m
    BY <1>4, <1>5, <2>1
  <2> QED BY <2>1, <2>2
<1> QED BY <1>1, <1>2, <1>6, <1>7

(* The filter of a log is a log, and a log that grows keeps every entry    *)
(* and moves none of them towards the front.                               *)
LEMMA MatchingIsALog ==
    ASSUME NEW S, LogOK(S), NEW scope
    PROVE  LogOK(Matching(scope, S))
<1>1. Matching(scope, S) \in SUBSET S
    BY DEF Matching
<1>2. IsFiniteSet(Matching(scope, S))
    BY <1>1, FS_Subset DEF LogOK
<1> QED BY <1>1, <1>2 DEF LogOK

LEMMA GrowingMovesBack ==
    ASSUME NEW S, NEW T, LogOK(T), S \subseteq T, NEW e \in S
    PROVE  Rank(e, S) <= Rank(e, T) /\ Rank(e, S) \in Nat /\ Rank(e, T) \in Nat
<1>1. Ahead(e, S) \in SUBSET Ahead(e, T)
    BY DEF Ahead
<1>2. IsFiniteSet(Ahead(e, T))
    BY RankIsSmall
<1>3. /\ IsFiniteSet(Ahead(e, S))
      /\ Cardinality(Ahead(e, S)) <= Cardinality(Ahead(e, T))
    BY <1>1, <1>2, FS_Subset
<1>4. Cardinality(Ahead(e, S)) \in Nat /\ Cardinality(Ahead(e, T)) \in Nat
    BY <1>2, <1>3, FS_CardinalityType
<1>5. Rank(e, S) = Cardinality(Ahead(e, S)) /\ Rank(e, T) = Cardinality(Ahead(e, T))
    BY DEF Rank, Ahead
<1> QED BY <1>3, <1>4, <1>5

(* The inductive invariant of a walk over the log S: an entry that was     *)
(* there when it began has been seen or is still ahead of the reader.      *)
Unseen(x) == x.began \ x.seen
Aware(x, S) ==
    LET M == Matching(x.scope, S)
    IN  /\ x.seen \subseteq M /\ x.began \subseteq M
        /\ x.pc \in {"count", "page"} =>
            \A e \in Unseen(x) : Rank(e, M) >= x.offset
        /\ x.pc = "page" => x.total <= Cardinality(M)
        /\ x.pc = "answered" =>
            /\ \A e \in Unseen(x) : Rank(e, M) >= x.offset + x.limit
            /\ Cardinality(x.items) <= x.limit
            /\ Cardinality(x.items) < x.limit => x.began \subseteq x.seen
            /\ \/ Cardinality(x.items) = x.limit
               \/ x.offset + Cardinality(x.items) >= x.total
        /\ x.pc = "done" => x.began \subseteq x.seen
        /\ \A p \in x.by : p.role # "SYS_ADMIN" => x.scope = {p.tenant}
WalksOK == \A r \in Readers : Aware(walk[r], log)

LEMMA GrowingKeepsAware ==
    ASSUME NEW S, NEW T, LogOK(S), LogOK(T), S \subseteq T,
           NEW x \in Walk(S), x.pc # "idle" => x.limit \in Limits, Aware(x, S)
    PROVE  x \in Walk(T) /\ Aware(x, T)
<1> DEFINE M == Matching(x.scope, S)
           N == Matching(x.scope, T)
<1>1. M \subseteq N /\ LogOK(M) /\ LogOK(N)
    BY MatchingIsALog DEF Matching
<1>2. \A e \in M : Rank(e, M) <= Rank(e, N) /\ Rank(e, M) \in Nat /\ Rank(e, N) \in Nat
    BY <1>1, GrowingMovesBack
<1>3. Cardinality(M) <= Cardinality(N) /\ Cardinality(M) \in Nat /\ Cardinality(N) \in Nat
    BY <1>1, FS_Subset, FS_CardinalityType DEF LogOK
<1>4. x.offset \in Nat /\ x.limit \in Nat /\ x.total \in Nat
    BY LimitsArePositive DEF Walk
<1>5. x \in Walk(T)
    BY DEF Walk
<1>6. Unseen(x) \subseteq M
    BY DEF Aware, Unseen
<1>7. x.pc \in {"count", "page"} => \A e \in Unseen(x) : Rank(e, N) >= x.offset
    BY <1>2, <1>4, <1>6 DEF Aware
<1>8. x.pc = "answered" => \A e \in Unseen(x) : Rank(e, N) >= x.offset + x.limit
    BY <1>2, <1>4, <1>6 DEF Aware
<1>9. x.pc = "page" => x.total <= Cardinality(N)
    BY <1>3, <1>4 DEF Aware
<1> HIDE DEF M, N
<1>10. x.seen \subseteq N /\ x.began \subseteq N
    BY <1>1 DEF Aware, M
<1> QED BY <1>5, <1>7, <1>8, <1>9, <1>10 DEF Aware, N

WalkOK(x) ==
    x \in Walk(log) /\ (x.pc # "idle" => x.limit \in Limits) /\ Aware(x, log)

(* A reader's step is right when it leaves its own walk so.                *)
LEMMA OneReaderMoves ==
    ASSUME TypeOK, WalksOK, NEW r \in Readers, NEW y, WalkOK(y),
           walk' = [walk EXCEPT ![r] = y], UNCHANGED <<now, open, log>>
    PROVE  TypeOK' /\ WalksOK'
<1>1. walk' \in [Readers -> Walk(log)]
    BY DEF TypeOK, WalkOK
<1>2. \A q \in Readers : /\ walk'[q].pc # "idle" => walk'[q].limit \in Limits
                         /\ Aware(walk'[q], log)
    BY DEF TypeOK, WalksOK, WalkOK
<1> QED BY <1>1, <1>2 DEF TypeOK, WalksOK

LEMMA ReadsKeep ==
    ASSUME TypeOK, WalksOK, NEW r \in Readers, Read(r)
    PROVE  TypeOK' /\ WalksOK'
<1> DEFINE x == walk[r]
           M == Matching(x.scope, log)
<1>0. /\ x \in Walk(log) /\ (x.pc # "idle" => x.limit \in Limits) /\ Aware(x, log)
      /\ LogOK(log) /\ walk \in [Readers -> Walk(log)]
    BY DEF TypeOK, WalksOK
<1>a. LogOK(M) /\ M \subseteq log /\ Cardinality(M) \in Nat
  <2>1. LogOK(M) /\ M \subseteq log
    BY <1>0, MatchingIsALog DEF Matching
  <2> HIDE DEF M
  <2> QED BY <2>1, FS_CardinalityType DEF LogOK
<1>b. /\ x.offset \in Nat /\ x.total \in Nat /\ x.limit \in Nat
      /\ x.seen \subseteq log /\ x.began \subseteq log
      /\ x.scope \in Scopes /\ x.by \subseteq Principal
      /\ x.pc # "idle" => x.limit \in Nat \ {0}
    BY <1>0, LimitsArePositive DEF Walk
<1>c. {} \in Scopes
    BY DEF Scopes
<1>1. CASE StartWalk(r)
  <2>1. PICK p \in Principal, limit \in Limits : \E scope \in Listable(p) :
            walk' = [walk EXCEPT ![r] =
                        [pc |-> "count", by |-> {p}, scope |-> scope,
                         limit |-> limit, offset |-> 0, total |-> 0, items |-> {},
                         seen |-> {}, began |-> Matching(scope, log)]]
    BY <1>1 DEF StartWalk
  <2>2. PICK scope \in Listable(p) :
            walk' = [walk EXCEPT ![r] =
                        [pc |-> "count", by |-> {p}, scope |-> scope,
                         limit |-> limit, offset |-> 0, total |-> 0, items |-> {},
                         seen |-> {}, began |-> Matching(scope, log)]]
    BY <2>1
  <2> DEFINE y == [pc |-> "count", by |-> {p}, scope |-> scope, limit |-> limit,
                   offset |-> 0, total |-> 0, items |-> {}, seen |-> {},
                   began |-> Matching(scope, log)]
  <2>3. walk' = [walk EXCEPT ![r] = y]
    BY <2>2
  <2>4. scope \in Scopes /\ (p.role # "SYS_ADMIN" => scope = {p.tenant})
    <3>1. /\ p.role \in {"SYS_ADMIN", "TENANT_ADMIN", "USER"} /\ p.tenant \in Tenants
        BY DEF Principal
    <3>2. /\ p.role = "SYS_ADMIN" => Listable(p) = Scopes
          /\ p.role = "TENANT_ADMIN" => Listable(p) = {{p.tenant}}
          /\ p.role = "USER" => Listable(p) = {}
        BY DEF Listable
    <3> QED BY <2>2, <3>1, <3>2 DEF Scopes
  <2>5. LogOK(Matching(scope, log)) /\ Matching(scope, log) \subseteq log
    BY <1>0, MatchingIsALog DEF Matching
  <2>6. \A e \in Matching(scope, log) : Rank(e, Matching(scope, log)) >= 0
    BY <2>5, RankIsSmall
  <2>7. y \in Walk(log) /\ y.limit \in Limits
    BY <2>4, <2>5 DEF Walk
  <2>8. Aware(y, log)
    BY <2>4, <2>6 DEF Aware, Unseen
  <2>9. WalkOK(y)
    BY <2>7, <2>8 DEF WalkOK
  <2> HIDE DEF y
  <2> QED BY <1>1, <2>3, <2>9, OneReaderMoves DEF StartWalk
<1>2. CASE Count(r)
  <2> DEFINE y == [x EXCEPT !.pc = "page", !.total = Cardinality(M)]
  <2>1. walk' = [walk EXCEPT ![r] = y] /\ x.pc = "count"
    BY <1>2 DEF Count
  <2>2. y \in Walk(log) /\ y.limit \in Limits
    BY <1>0, <1>a, <2>1 DEF Walk
  <2>3. /\ y.pc = "page" /\ y.by = x.by /\ y.scope = x.scope /\ y.offset = x.offset
        /\ y.total = Cardinality(M) /\ y.seen = x.seen /\ y.began = x.began
    BY <1>0 DEF Walk
  <2> HIDE DEF y
  <2>4. Aware(y, log)
    BY <1>0, <1>a, <2>1, <2>3 DEF Aware, Unseen
  <2>5. WalkOK(y)
    BY <2>2, <2>4 DEF WalkOK
  <2> QED BY <1>2, <2>1, <2>5, OneReaderMoves DEF Count
<1>3. CASE ReadPage(r)
  <2> DEFINE page == Page(M, x.offset, x.limit)
             y == [x EXCEPT !.pc = "answered", !.items = page, !.seen = x.seen \cup page]
  <2>1. walk' = [walk EXCEPT ![r] = y] /\ x.pc = "page"
    BY <1>3 DEF ReadPage
  <2>2. page \subseteq M
    BY DEF Page
  <2>3. y \in Walk(log) /\ y.limit \in Limits
    BY <1>0, <1>a, <2>1, <2>2 DEF Walk
  <2>4. /\ y.pc = "answered" /\ y.by = x.by /\ y.scope = x.scope /\ y.offset = x.offset
        /\ y.total = x.total /\ y.seen = x.seen \cup page /\ y.began = x.began
        /\ y.items = page /\ y.limit = x.limit
    BY <1>0 DEF Walk
  <2>5. ASSUME NEW e \in x.began, e \notin x.seen \cup page
        PROVE  Rank(e, M) >= x.offset + x.limit /\ Cardinality(M) > x.offset + x.limit
    <3>1. e \in M /\ Rank(e, M) >= x.offset
        BY <1>0, <2>1, <2>5 DEF Aware, Unseen
    <3>2. Rank(e, M) \in Nat /\ Rank(e, M) < Cardinality(M)
        BY <1>a, <3>1, RankIsSmall
    <3>3. ~(Rank(e, M) < x.offset + x.limit)
        BY <2>5, <3>1 DEF Page
    <3> QED BY <1>a, <1>b, <3>2, <3>3
  <2>6. /\ Cardinality(page) \in Nat /\ Cardinality(page) <= x.limit
        /\ x.offset + x.limit <= Cardinality(M) => Cardinality(page) = x.limit
        /\ x.offset + x.limit > Cardinality(M)
                => x.offset + Cardinality(page) >= Cardinality(M)
    BY <1>a, <1>b, PageIsFull
  <2>7. Cardinality(page) = x.limit \/ x.offset + Cardinality(page) >= x.total
    <3>1. x.total <= Cardinality(M)
        BY <1>0, <2>1 DEF Aware
    <3> HIDE DEF M, page
    <3> QED BY <1>a, <1>b, <2>6, <3>1
  <2>8. Cardinality(page) < x.limit => x.began \subseteq x.seen \cup page
    <3> SUFFICES ASSUME Cardinality(page) < x.limit,
                        NEW e \in x.began, e \notin x.seen \cup page
                 PROVE  FALSE
        OBVIOUS
    <3>1. x.offset + x.limit <= Cardinality(M)
        BY <1>a, <1>b, <2>5
    <3> HIDE DEF M, page
    <3> QED BY <1>b, <2>6, <3>1
  <2> HIDE DEF y
  <2>9. Aware(y, log)
    <3>1. x.seen \subseteq M /\ x.began \subseteq M
          /\ \A p \in x.by : p.role # "SYS_ADMIN" => x.scope = {p.tenant}
        BY <1>0 DEF Aware
    <3>2. \A e \in Unseen(y) : Rank(e, M) >= x.offset + x.limit
        BY <2>4, <2>5 DEF Unseen
    <3> HIDE DEF page
    <3> QED BY <2>2, <2>4, <2>6, <2>7, <2>8, <3>1, <3>2 DEF Aware
  <2>10. WalkOK(y)
    BY <2>3, <2>4, <2>9 DEF WalkOK
  <2> QED BY <1>3, <2>1, <2>10, OneReaderMoves DEF ReadPage
<1>4. CASE NextPage(r)
  <2>0. x.pc = "answered"
    BY <1>4 DEF NextPage
  <2>1. CASE Cardinality(x.items) < x.limit
    <3> DEFINE y == [x EXCEPT !.pc = "done"]
    <3>1. walk' = [walk EXCEPT ![r] = y]
        BY <1>4, <2>1 DEF NextPage
    <3>2. y \in Walk(log) /\ y.limit \in Limits
        BY <1>0, <2>0 DEF Walk
    <3>3. /\ y.pc = "done" /\ y.by = x.by /\ y.scope = x.scope
          /\ y.seen = x.seen /\ y.began = x.began
        BY <1>0 DEF Walk
    <3> HIDE DEF y
    <3>4. Aware(y, log)
        BY <1>0, <2>0, <2>1, <3>3 DEF Aware
    <3>5. WalkOK(y)
        BY <3>2, <3>4 DEF WalkOK
    <3> QED BY <1>4, <3>1, <3>5, OneReaderMoves DEF NextPage
  <2>2. CASE ~(Cardinality(x.items) < x.limit)
    <3> DEFINE y == [x EXCEPT !.pc = "count", !.offset = x.offset + x.limit]
    <3>1. walk' = [walk EXCEPT ![r] = y]
        BY <1>4, <2>2 DEF NextPage
    <3>2. y \in Walk(log) /\ y.limit \in Limits
      <4>1. x.offset + x.limit \in Nat
        BY <1>b
      <4> QED BY <1>0, <2>0, <4>1 DEF Walk
    <3>3. /\ y.pc = "count" /\ y.by = x.by /\ y.scope = x.scope
          /\ y.offset = x.offset + x.limit
          /\ y.seen = x.seen /\ y.began = x.began
        BY <1>0 DEF Walk
    <3> HIDE DEF y
    <3>4. Aware(y, log)
        BY <1>0, <2>0, <3>3 DEF Aware, Unseen
    <3>5. WalkOK(y)
        BY <3>2, <3>4 DEF WalkOK
    <3> QED BY <1>4, <3>1, <3>5, OneReaderMoves DEF NextPage
  <2> QED BY <2>1, <2>2
<1>5. CASE Leave(r)
  <2>1. WalkOK(NoWalk)
    BY <1>c DEF WalkOK, NoWalk, Walk, Aware, Unseen
  <2> QED BY <1>5, <2>1, OneReaderMoves DEF Leave
<1> QED BY <1>1, <1>2, <1>3, <1>4, <1>5 DEF Read

LEMMA WritesKeep ==
    ASSUME TypeOK, WalksOK, NEW w \in Writers, Begin(w) \/ Commit(w)
    PROVE  TypeOK' /\ WalksOK'
<1>0. now \in Nat /\ now <= MaxTime
    BY MaxTimeNat DEF TypeOK
<1>1. CASE Begin(w)
  <2>1. open' \in [Writers -> {NoTime} \cup {{at} : at \in 0 .. now}]
    BY <1>0, <1>1 DEF Begin, TypeOK
  <2> QED BY <1>1, <2>1 DEF Begin, TypeOK, WalksOK
<1>2. CASE Commit(w)
  <2>1. PICK at \in open[w], i \in Ids, j \in Ids, tenant \in Scopes :
            /\ \A e \in log : e.id \notin {i, j}
            /\ log' = log \cup {[at |-> at, id |-> k, tenant |-> tenant] : k \in {i, j}}
    BY <1>2 DEF Commit
  <2>2. at \in 0 .. MaxTime
    <3>1. open[w] \in {NoTime} \cup {{a} : a \in 0 .. now}
        BY DEF TypeOK
    <3>2. at \in 0 .. now
        BY <3>1 DEF NoTime
    <3> QED BY <1>0, <3>2, MaxTimeNat
  <2> DEFINE a == [at |-> at, id |-> i, tenant |-> tenant]
             b == [at |-> at, id |-> j, tenant |-> tenant]
  <2>3. log' = (log \cup {a}) \cup {b}
    BY <2>1
  <2>4. a \in Entry /\ b \in Entry
    BY <2>2 DEF Entry
  <2>5. LogOK(log')
    <3>1. IsFiniteSet(log')
        BY <2>3, FS_AddElement DEF TypeOK, LogOK
    <3>2. log' \subseteq Entry
        BY <2>3, <2>4 DEF TypeOK, LogOK
    <3>3. \A e, f \in log' : e.id = f.id => e = f
        BY <2>1, <2>3 DEF TypeOK, LogOK
    <3> QED BY <3>1, <3>2, <3>3 DEF LogOK
  <2> HIDE DEF a, b
  <2>6. log \subseteq log'
    BY <2>3
  <2>7. \A r \in Readers : walk[r] \in Walk(log') /\ Aware(walk[r], log')
    BY <2>5, <2>6, GrowingKeepsAware DEF TypeOK, WalksOK
  <2>8. open' \in [Writers -> {NoTime} \cup {{t} : t \in 0 .. now}]
    BY <1>2 DEF Commit, TypeOK
  <2>9. walk' = walk /\ now' = now
    BY <1>2 DEF Commit
  <2>10. walk \in [Readers -> Walk(log')]
    BY <2>7 DEF TypeOK
  <2> QED BY <2>5, <2>7, <2>8, <2>9, <2>10 DEF TypeOK, WalksOK
<1> QED BY <1>1, <1>2

LEMMA WalksAreSound == Spec => [](TypeOK /\ WalksOK)
<1>1. Init => TypeOK /\ WalksOK
  <2> SUFFICES ASSUME Init PROVE TypeOK /\ WalksOK
    OBVIOUS
  <2>1. LogOK(log)
    BY FS_EmptySet DEF Init, LogOK
  <2>2. NoWalk \in Walk(log) /\ NoWalk.pc = "idle" /\ Aware(NoWalk, log)
    BY DEF NoWalk, Walk, Aware, Unseen, Scopes
  <2> HIDE DEF NoWalk
  <2> QED BY <2>1, <2>2, MaxTimeNat DEF Init, TypeOK, WalksOK
<1>2. TypeOK /\ WalksOK /\ [Next]_vars => (TypeOK /\ WalksOK)'
  <2> SUFFICES ASSUME TypeOK, WalksOK, [Next]_vars PROVE (TypeOK /\ WalksOK)'
    OBVIOUS
  <2>1. CASE Tick
    <3>1. now \in Nat /\ now' \in 0 .. MaxTime /\ now' = now + 1
        BY <2>1, MaxTimeNat DEF Tick, TypeOK
    <3>2. open' \in [Writers -> {NoTime} \cup {{at} : at \in 0 .. now'}]
        BY <2>1, <3>1 DEF Tick, TypeOK
    <3> QED BY <2>1, <3>1, <3>2 DEF Tick, TypeOK, WalksOK
  <2>2. CASE UNCHANGED vars
    BY <2>2 DEF vars, TypeOK, WalksOK
  <2> QED BY <2>1, <2>2, ReadsKeep, WritesKeep DEF Next
<1> QED BY <1>1, <1>2, PTL DEF Spec

(* Types, and entries with ids of their own in the log.                    *)
THEOREM LogTyping == Spec => []TypeOK
BY WalksAreSound, PTL

(* Whatever is committed meanwhile, and however the times of the entries   *)
(* disagree with the order of their commits, a reader that follows the     *)
(* pages to the end sees every entry that was there when it began.         *)
THEOREM NoEntryIsSkipped == Spec => []WalksAreComplete
<1>1. WalksOK => WalksAreComplete
    BY DEF WalksOK, Aware, WalksAreComplete
<1> QED BY <1>1, WalksAreSound, PTL

(* A page is full or reaches the total that came with it.                  *)
THEOREM TotalsHold == Spec => []TotalsAreReached
<1>1. WalksOK => TotalsAreReached
    BY DEF WalksOK, Aware, TotalsAreReached
<1> QED BY <1>1, WalksAreSound, PTL

(* Only system administrators are shown entries of other tenants or none.  *)
THEOREM ReadsAreIsolated == Spec => []ReadersStayInTheirTenant
<1>1. WalksOK => ReadersStayInTheirTenant
    BY DEF WalksOK, Aware, Matching, ReadersStayInTheirTenant
<1> QED BY <1>1, WalksAreSound, PTL

====
