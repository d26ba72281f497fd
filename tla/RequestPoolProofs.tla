---- MODULE RequestPoolProofs ----
(***************************************************************************)
(* Proofs about RequestPool for any number of requests, threads and        *)
(* connections: where every request is, and that no connection is lost.    *)
(***************************************************************************)
EXTENDS RequestPool, FiniteSetTheorems, TLAPS

(* What a step of a request does to the queue, one lemma per change.       *)
LEMMA AppendQueues ==
    ASSUME NEW q \in Seq(Requests), NEW r \in Requests,
           \A i \in 1 .. Len(q) : q[i] # r,
           \A i, j \in 1 .. Len(q) : q[i] = q[j] => i = j
    PROVE  /\ Append(q, r) \in Seq(Requests)
           /\ \A s : (\E i \in 1 .. Len(Append(q, r)) : Append(q, r)[i] = s)
                        <=> s = r \/ \E i \in 1 .. Len(q) : q[i] = s
           /\ \A i, j \in 1 .. Len(Append(q, r)) :
                Append(q, r)[i] = Append(q, r)[j] => i = j
<1> DEFINE a == Append(q, r)
<1>1. /\ a \in Seq(Requests) /\ Len(a) = Len(q) + 1 /\ Len(q) \in Nat
      /\ \A i \in 1 .. Len(a) : a[i] = IF i = Len(a) THEN r ELSE q[i]
    OBVIOUS
<1> HIDE DEF a
<1>2. \A i \in 1 .. Len(a) : i = Len(a) \/ i \in 1 .. Len(q)
    BY <1>1
<1>3. \A i, j \in 1 .. Len(a) : a[i] = a[j] => i = j
    BY <1>1, <1>2
<1>4. ASSUME NEW s
      PROVE  (\E i \in 1 .. Len(a) : a[i] = s)
                <=> s = r \/ \E i \in 1 .. Len(q) : q[i] = s
  <2>1. \A i \in 1 .. Len(q) : i \in 1 .. Len(a) /\ a[i] = q[i]
    BY <1>1
  <2>2. Len(a) \in 1 .. Len(a) /\ a[Len(a)] = r
    BY <1>1
  <2> QED BY <1>1, <1>2, <2>1, <2>2
<1> QED BY <1>1, <1>3, <1>4 DEF a

LEMMA TailDequeues ==
    ASSUME NEW q \in Seq(Requests), q # <<>>,
           \A i, j \in 1 .. Len(q) : q[i] = q[j] => i = j
    PROVE  /\ Tail(q) \in Seq(Requests) /\ Head(q) \in Requests
           /\ \A s : (\E i \in 1 .. Len(Tail(q)) : Tail(q)[i] = s)
                        <=> s # Head(q) /\ \E i \in 1 .. Len(q) : q[i] = s
           /\ \E i \in 1 .. Len(q) : q[i] = Head(q)
           /\ \A i, j \in 1 .. Len(Tail(q)) : Tail(q)[i] = Tail(q)[j] => i = j
<1> DEFINE b == Tail(q)
<1>1. /\ b \in Seq(Requests) /\ Len(b) = Len(q) - 1 /\ Len(q) \in Nat \ {0}
      /\ \A i \in 1 .. Len(b) : b[i] = q[i + 1]
      /\ Head(q) = q[1]
    OBVIOUS
<1> HIDE DEF b
<1>2. 1 \in 1 .. Len(q) /\ q[1] \in Requests
    BY <1>1
<1>3. \A i \in 1 .. Len(b) : i + 1 \in 1 .. Len(q) /\ i + 1 # 1
    BY <1>1
<1>4. \A i, j \in 1 .. Len(b) : b[i] = b[j] => i = j
    BY <1>1, <1>3
<1>5. ASSUME NEW s
      PROVE  (\E i \in 1 .. Len(b) : b[i] = s)
                <=> s # Head(q) /\ \E i \in 1 .. Len(q) : q[i] = s
  <2>1. ASSUME NEW i \in 1 .. Len(b), b[i] = s
        PROVE  s # Head(q) /\ \E j \in 1 .. Len(q) : q[j] = s
    BY <1>1, <1>2, <1>3, <2>1
  <2>2. ASSUME NEW i \in 1 .. Len(q), q[i] = s, s # Head(q)
        PROVE  \E j \in 1 .. Len(b) : b[j] = s
    <3>1. i # 1 /\ i - 1 \in 1 .. Len(b) /\ (i - 1) + 1 = i
        BY <1>1, <2>2
    <3> QED BY <1>1, <2>2, <3>1
  <2> QED BY <2>1, <2>2
<1> QED BY <1>1, <1>2, <1>4, <1>5 DEF b

(* What the invariants below need of the constants and of finite sets.     *)
LEMMA Adding ==
    ASSUME NEW S \in SUBSET Requests, NEW r \in Requests
    PROVE  /\ S \cup {r} \subseteq Requests /\ S \ {r} \subseteq Requests
           /\ Cardinality(S) \in Nat
           /\ Cardinality(S \cup {r}) =
                IF r \in S THEN Cardinality(S) ELSE Cardinality(S) + 1
           /\ Cardinality(S \ {r}) =
                IF r \in S THEN Cardinality(S) - 1 ELSE Cardinality(S)
<1>1. IsFiniteSet(S)
    BY RequestsFinite, FS_Subset
<1> QED BY <1>1, FS_CardinalityType, FS_AddElement, FS_RemoveElement

(* The queue and the threads, apart from what every request is at.         *)
Places(h, q, on) ==
    /\ h \in [Requests -> Hops \cup {"idle", "closing"}]
    /\ q \in Seq(Requests)
    /\ on \subseteq Requests /\ Cardinality(on) <= Workers
    /\ \A r \in Requests :
        h[r] \in Hops <=> (\E i \in 1 .. Len(q) : q[i] = r) \/ r \in on
    /\ \A r \in on : ~\E i \in 1 .. Len(q) : q[i] = r
    /\ \A i, j \in 1 .. Len(q) : q[i] = q[j] => i = j

LEMMA TypeIsPlaces ==
    TypeOK <=> /\ Places(hop, queue, running)
               /\ holders \subseteq Requests /\ free \in 0 .. PoolSize
BY DEF TypeOK, Places, Queued

LEMMA HopNames ==
    /\ Hops = {"session", "principal", "role", "handler", "reload", "response"}
    /\ \A x \in Hops : NextHops[x] \subseteq Hops
    /\ Querying \subseteq Hops
BY DEF Hops, NextHops, Querying

(* A hop that ends leaves the request at the end of the queue or out of it.*)
LEMMA MovesKeepPlaces ==
    ASSUME NEW h, NEW q, NEW on, Places(h, q, on),
           NEW r \in on, NEW next \in Hops \cup {"closing"}
    PROVE  Places([h EXCEPT ![r] = next],
                  IF next = "closing" THEN q ELSE Append(q, r), on \ {r})
<1>1. r \in Requests /\ h \in [Requests -> Hops \cup {"idle", "closing"}]
      /\ q \in Seq(Requests) /\ on \in SUBSET Requests
    BY DEF Places
<1>2. Cardinality(on \ {r}) <= Workers
    BY <1>1, Adding, CapacityPositive DEF Places
<1>3. "closing" \notin Hops
    BY HopNames
<1>4. CASE next = "closing"
    BY <1>1, <1>2, <1>3, <1>4 DEF Places
<1>5. CASE next # "closing"
  <2>1. \A i \in 1 .. Len(q) : q[i] # r
    BY DEF Places
  <2>2. /\ Append(q, r) \in Seq(Requests)
        /\ \A s : (\E i \in 1 .. Len(Append(q, r)) : Append(q, r)[i] = s)
                        <=> s = r \/ \E i \in 1 .. Len(q) : q[i] = s
        /\ \A i, j \in 1 .. Len(Append(q, r)) :
                Append(q, r)[i] = Append(q, r)[j] => i = j
    BY <1>1, <2>1, AppendQueues DEF Places
  <2> QED BY <1>1, <1>2, <1>5, <2>1, <2>2 DEF Places
<1> QED BY <1>4, <1>5

(* A returned connection fits in the pool.                                 *)
LEMMA Returning ==
    ASSUME TypeOK, ConnectionsAreAccountedFor, NEW r \in holders, Release(r)
    PROVE  /\ holders' \subseteq holders /\ free' \in 0 .. PoolSize
           /\ free' + Cardinality(holders') = PoolSize
<1>1. holders \in SUBSET Requests /\ r \in Requests /\ free \in 0 .. PoolSize
    BY DEF TypeOK
<1>2. holders \ {r} \in SUBSET Requests
    BY <1>1
<1>3. /\ Cardinality(holders \ {r}) \in Nat
      /\ Cardinality(holders \ {r}) = Cardinality(holders) - 1
      /\ Cardinality(holders) \in Nat
    BY <1>1, <1>2, Adding
<1> QED BY <1>1, <1>3, CapacityPositive DEF Release, ConnectionsAreAccountedFor

(* Every action keeps the places and the bounds of the pool.               *)
LEMMA TypeKept == TypeOK /\ ConnectionsAreAccountedFor /\ [Next]_vars => TypeOK'
<1> SUFFICES ASSUME TypeOK, ConnectionsAreAccountedFor, [Next]_vars PROVE TypeOK'
    OBVIOUS
<1> USE CapacityPositive
<1>0. /\ Places(hop, queue, running)
      /\ holders \in SUBSET Requests /\ running \in SUBSET Requests
      /\ free \in 0 .. PoolSize
      /\ queue \in Seq(Requests)
      /\ hop \in [Requests -> Hops \cup {"idle", "closing"}]
    BY TypeIsPlaces DEF Places
<1>g. ASSUME Places(hop', queue', running'),
             holders' \subseteq Requests, free' \in 0 .. PoolSize
      PROVE  TypeOK'
    BY <1>g DEF TypeOK, Places, Queued
<1>1. ASSUME NEW r \in Requests, Arrive(r) PROVE TypeOK'
  <2>1. "idle" \notin Hops /\ "session" \in Hops
    BY HopNames
  <2>2. r \notin running /\ \A i \in 1 .. Len(queue) : queue[i] # r
    BY <1>0, <1>1, <2>1 DEF Arrive, Places
  <2>3. /\ Append(queue, r) \in Seq(Requests)
        /\ \A s : (\E i \in 1 .. Len(Append(queue, r)) : Append(queue, r)[i] = s)
                        <=> s = r \/ \E i \in 1 .. Len(queue) : queue[i] = s
        /\ \A i, j \in 1 .. Len(Append(queue, r)) :
                Append(queue, r)[i] = Append(queue, r)[j] => i = j
    BY <1>0, <2>2, AppendQueues DEF Places
  <2>4. Places(hop', queue', running')
    BY <1>0, <1>1, <2>1, <2>2, <2>3 DEF Arrive, Places
  <2> QED BY <1>0, <1>1, <1>g, <2>4 DEF Arrive
<1>2. ASSUME NEW r \in Requests, Start(r) PROVE TypeOK'
  <2>1. queue # <<>> /\ r = Head(queue)
    BY <1>2 DEF Start
  <2>2. /\ Tail(queue) \in Seq(Requests)
        /\ \A s : (\E i \in 1 .. Len(Tail(queue)) : Tail(queue)[i] = s)
                        <=> s # r /\ \E i \in 1 .. Len(queue) : queue[i] = s
        /\ \E i \in 1 .. Len(queue) : queue[i] = r
        /\ \A i, j \in 1 .. Len(Tail(queue)) :
                Tail(queue)[i] = Tail(queue)[j] => i = j
    BY <1>0, <2>1, TailDequeues DEF Places
  <2>3. r \notin running
    BY <1>0, <2>2 DEF Places
  <2>4. Cardinality(running \cup {r}) <= Workers
    BY <1>0, <1>2, <2>3, Adding DEF Start
  <2>5. Places(hop', queue', running')
    BY <1>0, <1>2, <2>2, <2>3, <2>4 DEF Start, Places
  <2> QED BY <1>0, <1>2, <1>g, <2>5 DEF Start
<1>3. ASSUME NEW r \in Requests, Connect(r) PROVE TypeOK'
    BY <1>0, <1>3, <1>g DEF Connect
<1>4. ASSUME NEW r \in running, NEW next \in Hops \cup {"closing"}, MoveOn(r, next)
      PROVE  Places(hop', queue', running')
    BY <1>0, <1>4, MovesKeepPlaces DEF MoveOn
<1>5. ASSUME NEW r \in Requests, PoolTimeout(r) PROVE TypeOK'
  <2>1. r \in running
    BY <1>5 DEF PoolTimeout, WaitsForConnection
  <2>2. \E next \in Hops \cup {"closing"} : MoveOn(r, next)
    BY <1>5, HopNames DEF PoolTimeout
  <2> QED BY <1>0, <1>4, <1>5, <1>g, <2>1, <2>2 DEF PoolTimeout
<1>6. ASSUME NEW r \in Requests, Finish(r) PROVE TypeOK'
  <2>1. r \in running /\ hop[r] \in Hops
    BY <1>0, <1>6 DEF Finish, Places
  <2>2. \E next \in Hops \cup {"closing"} : MoveOn(r, next)
    BY <1>6, <2>1, HopNames DEF Finish
  <2> QED BY <1>0, <1>4, <1>6, <1>g, <2>1, <2>2 DEF Finish
<1>7. ASSUME NEW r \in Requests, Commit(r) PROVE TypeOK'
  <2>1. holders' \subseteq Requests /\ free' \in 0 .. PoolSize
    BY <1>0, <1>7, Returning DEF Commit
  <2>2. CASE hop' = [hop EXCEPT ![r] = "reload"] /\ UNCHANGED <<queue, running>>
    <3>1. hop[r] \in Hops /\ "reload" \in Hops
        BY <1>7, HopNames DEF Commit
    <3>2. Places(hop', queue', running')
        BY <1>0, <2>2, <3>1 DEF Places
    <3> QED BY <1>g, <2>1, <3>2
  <2>3. CASE \E next \in {"response", "closing"} : MoveOn(r, next)
    BY <1>4, <1>7, <1>g, <2>1, <2>3, HopNames DEF Commit
  <2> QED BY <1>7, <2>2, <2>3 DEF Commit
<1>8. ASSUME NEW r \in Requests, Close(r) PROVE TypeOK'
  <2>1. holders' \subseteq Requests /\ free' \in 0 .. PoolSize
    BY <1>0, <1>8, Returning DEF Close
  <2>2. "closing" \notin Hops /\ "idle" \notin Hops
    BY HopNames
  <2>3. Places(hop', queue', running')
    BY <1>0, <1>8, <2>2 DEF Close, Places
  <2> QED BY <1>g, <2>1, <2>3
<1>9. CASE UNCHANGED vars
    BY <1>0, <1>9, <1>g DEF vars
<1> QED BY <1>1, <1>2, <1>3, <1>5, <1>6, <1>7, <1>8, <1>9 DEF Next, Serve

(* A connection leaves the pool for a request and comes back from it.      *)
LEMMA AccountsKept ==
    TypeOK /\ ConnectionsAreAccountedFor /\ [Next]_vars
        => ConnectionsAreAccountedFor'
<1> SUFFICES ASSUME TypeOK, ConnectionsAreAccountedFor, [Next]_vars
             PROVE  ConnectionsAreAccountedFor'
    OBVIOUS
<1>0. /\ holders \in SUBSET Requests /\ running \subseteq Requests
      /\ free \in 0 .. PoolSize /\ PoolSize \in Nat
      /\ hop \in [Requests -> Hops \cup {"idle", "closing"}]
      /\ \A r \in running : hop[r] \in Hops
    BY CapacityPositive DEF TypeOK
<1>1. ASSUME NEW r \in Requests, NEW h, h \notin {"idle", "session"},
             hop' = [hop EXCEPT ![r] = h], holders' \subseteq holders,
             free' + Cardinality(holders') = PoolSize
      PROVE  ConnectionsAreAccountedFor'
    BY <1>0, <1>1 DEF ConnectionsAreAccountedFor
<1>2. ASSUME NEW r \in Requests, Arrive(r) PROVE ConnectionsAreAccountedFor'
    BY <1>0, <1>2 DEF Arrive, ConnectionsAreAccountedFor
<1>3. ASSUME NEW r \in Requests, Connect(r) PROVE ConnectionsAreAccountedFor'
  <2>1. Cardinality(holders') = Cardinality(holders) + 1 /\ Cardinality(holders) \in Nat
    BY <1>0, <1>3, Adding DEF Connect, WaitsForConnection
  <2> QED BY <1>0, <1>3, <2>1
        DEF Connect, WaitsForConnection, Querying, ConnectionsAreAccountedFor
<1>4. ASSUME NEW r \in Requests, PoolTimeout(r) PROVE ConnectionsAreAccountedFor'
    BY <1>1, <1>4 DEF PoolTimeout, MoveOn, ConnectionsAreAccountedFor
<1>5. ASSUME NEW r \in Requests, Finish(r) PROVE ConnectionsAreAccountedFor'
  <2>1. hop[r] \in Hops
    BY <1>0, <1>5 DEF Finish
  <2>2. \A next \in NextHops[hop[r]] \cup {"closing"} : next \notin {"idle", "session"}
    BY <2>1 DEF Hops, NextHops
  <2> QED BY <1>1, <1>5, <2>2 DEF Finish, MoveOn, ConnectionsAreAccountedFor
<1>6. ASSUME NEW r \in Requests, Commit(r) PROVE ConnectionsAreAccountedFor'
    BY <1>1, <1>6, Returning DEF Commit, MoveOn
<1>7. ASSUME NEW r \in Requests, Close(r) PROVE ConnectionsAreAccountedFor'
  <2>1. CASE r \in holders
    BY <1>0, <1>7, <2>1, Returning DEF Close, Release, ConnectionsAreAccountedFor
  <2>2. CASE r \notin holders
    BY <1>0, <1>7, <2>2 DEF Close, ConnectionsAreAccountedFor
  <2> QED BY <2>1, <2>2
<1>8. ASSUME NEW r \in Requests, Start(r) PROVE ConnectionsAreAccountedFor'
    BY <1>8 DEF Start, ConnectionsAreAccountedFor
<1>9. CASE UNCHANGED vars
    BY <1>9 DEF vars, ConnectionsAreAccountedFor
<1> QED BY <1>2, <1>3, <1>4, <1>5, <1>6, <1>7, <1>8, <1>9 DEF Next, Serve

(* The two invariants need each other: a returned connection fits in the   *)
(* pool because they are accounted for.                                    *)
LEMMA PoolIsSound == Spec => [](TypeOK /\ ConnectionsAreAccountedFor)
<1>1. Init => TypeOK /\ ConnectionsAreAccountedFor
  <2> SUFFICES ASSUME Init PROVE TypeOK /\ ConnectionsAreAccountedFor
    OBVIOUS
  <2>1. "idle" \notin Hops
    BY HopNames
  <2>2. Cardinality({}) = 0
    BY FS_EmptySet
  <2>3. <<>> \in Seq(Requests) /\ 1 .. Len(<<>>) = {}
    OBVIOUS
  <2> QED BY <2>1, <2>2, <2>3, CapacityPositive
        DEF Init, TypeOK, Queued, ConnectionsAreAccountedFor
<1>2. TypeOK /\ ConnectionsAreAccountedFor /\ [Next]_vars
        => (TypeOK /\ ConnectionsAreAccountedFor)'
    BY TypeKept, AccountsKept
<1> QED BY <1>1, <1>2, PTL DEF Spec

(* A request waits for a thread or has one exactly while it is at a hop,   *)
(* it queues once, and neither threads nor connections are overcommitted.  *)
THEOREM PlacesAndBounds == Spec => []TypeOK
BY PoolIsSound, PTL

(* Every connection is in the pool or with a request that has issued a     *)
(* statement and has not been answered: whatever fails, get_db_session     *)
(* returns it.                                                             *)
THEOREM NoConnectionIsLost == Spec => []ConnectionsAreAccountedFor
BY PoolIsSound, PTL

====
