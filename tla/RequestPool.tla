---- MODULE RequestPool ----
(***************************************************************************)
(* What a request needs while it is served: a thread of the server for     *)
(* each of its synchronous parts (its hops), one hop at a time and first   *)
(* come, first served, and a connection of the engine's pool from its      *)
(* first statement until its session commits or is closed.  Between two    *)
(* hops a request keeps its connection and has no thread.                  *)
(***************************************************************************)
EXTENDS Integers, Sequences, FiniteSets

CONSTANTS
    Requests,  \* the requests that clients may have outstanding
    Workers,   \* threads that run hops (40 in the server)
    PoolSize   \* connections of the engine (5 and 10 overflow)

ASSUME RequestsFinite == IsFiniteSet(Requests)
ASSUME CapacityPositive == Workers \in Nat \ {0} /\ PoolSize \in Nat \ {0}

VARIABLES
    hop,       \* what every request is at
    queue,     \* the requests that wait for a thread, oldest first
    running,   \* the requests on a thread
    holders,   \* the requests with a connection
    free       \* connections the pool can still hand out

vars == <<hop, queue, running, holders, free>>

(* The hops that may follow each hop; any of them may also raise, which    *)
(* ends the request.  "session" enters get_db_session, "reload" is what a  *)
(* handler does after its commit.                                          *)
NextHops ==
    [session   |-> {"principal", "handler"},
     principal |-> {"role", "handler"},
     role      |-> {"handler"},
     handler   |-> {"response"},
     reload    |-> {"response"},
     response  |-> {}]
Hops == DOMAIN NextHops
Querying == {"principal", "handler", "reload"}

Init ==
    /\ hop = [r \in Requests |-> "idle"]
    /\ queue = <<>>
    /\ running = {}
    /\ holders = {}
    /\ free = PoolSize

(* A client sends a request: its first hop queues for a thread.            *)
Arrive(r) ==
    /\ hop[r] = "idle"
    /\ hop' = [hop EXCEPT ![r] = "session"]
    /\ queue' = Append(queue, r)
    /\ UNCHANGED <<running, holders, free>>

Start(r) ==
    /\ queue # <<>> /\ Head(queue) = r
    /\ Cardinality(running) < Workers
    /\ queue' = Tail(queue)
    /\ running' = running \cup {r}
    /\ UNCHANGED <<hop, holders, free>>

(* Mutant: the request keeps its thread while it waits for its next hop.   *)
MoveOnOnThread(r, next) ==
    /\ hop' = [hop EXCEPT ![r] = next]
    /\ running' = IF next = "closing" THEN running \ {r} ELSE running
    /\ queue' = IF next = "closing" THEN queue ELSE Append(queue, r)

WaitsForConnection(r) == r \in running /\ hop[r] \in Querying /\ r \notin holders

Connect(r) ==
    /\ WaitsForConnection(r)
    /\ free > 0
    /\ holders' = holders \cup {r}
    /\ free' = free - 1
    /\ UNCHANGED <<hop, queue, running>>

(* The end of a hop gives the thread back; the next hop queues for one.    *)
(* Closing the session needs none of them.                                 *)
MoveOn(r, next) ==
    /\ hop' = [hop EXCEPT ![r] = next]
    /\ running' = running \ {r}
    /\ queue' = IF next = "closing" THEN queue ELSE Append(queue, r)

(* Mutant: an engine whose pool has no timeout.                            *)
WaitForEver(r) ==
    /\ WaitsForConnection(r)
    /\ free = 0
    /\ UNCHANGED vars

(* The pool gives up on a thread that has waited too long, and the request *)
(* ends with an error; only the health check goes on, to report it.        *)
PoolTimeout(r) ==
    /\ WaitsForConnection(r)
    /\ free = 0
    /\ \/ MoveOn(r, "closing")
       \/ hop[r] = "handler" /\ MoveOn(r, "response")
    /\ UNCHANGED <<holders, free>>

(* A hop that ends with a result or an exception.  A bearer token that     *)
(* does not verify is refused before the first statement.                  *)
Finish(r) ==
    /\ r \in running
    /\ \E next \in NextHops[hop[r]] \cup {"closing"} :
        /\ WaitsForConnection(r) => hop[r] = "principal" /\ next = "closing"
        /\ MoveOn(r, next)
    /\ UNCHANGED <<holders, free>>

Release(r) == holders' = holders \ {r} /\ free' = free + 1

(* A handler's commit gives the connection back; some then read their row  *)
(* again, which takes a connection again.                                  *)
Commit(r) ==
    /\ r \in running /\ hop[r] = "handler" /\ r \in holders
    /\ Release(r)
    /\ \/ hop' = [hop EXCEPT ![r] = "reload"] /\ UNCHANGED <<queue, running>>
       \/ \E next \in {"response", "closing"} : MoveOn(r, next)

(* Mutant: the session of a request is not closed.                         *)
ForgetSession(r) ==
    /\ hop[r] = "closing"
    /\ hop' = [hop EXCEPT ![r] = "idle"]
    /\ UNCHANGED <<queue, running, holders, free>>

(* The session is closed when the request ends, however it ended.          *)
Close(r) ==
    /\ hop[r] = "closing"
    /\ hop' = [hop EXCEPT ![r] = "idle"]
    /\ IF r \in holders THEN Release(r) ELSE UNCHANGED <<holders, free>>
    /\ UNCHANGED <<queue, running>>

Serve(r) ==
    \/ Start(r) \/ Connect(r) \/ PoolTimeout(r)
    \/ Finish(r) \/ Commit(r) \/ Close(r)

Next == \E r \in Requests : Arrive(r) \/ Serve(r)

(* A request that can go on goes on: threads are scheduled, a statement    *)
(* ends, the pool's timeout fires.  Clients need not send anything.        *)
Fairness == \A r \in Requests : WF_vars(Serve(r))

Spec == Init /\ [][Next]_vars /\ Fairness

Queued(r) == \E i \in 1 .. Len(queue) : queue[i] = r

(* Types, and where a request is: in the queue or on a thread exactly      *)
(* while it is at a hop, and in the queue once.                            *)
TypeOK ==
    /\ hop \in [Requests -> Hops \cup {"idle", "closing"}]
    /\ queue \in Seq(Requests)
    /\ running \subseteq Requests /\ Cardinality(running) <= Workers
    /\ holders \subseteq Requests
    /\ free \in 0 .. PoolSize
    /\ \A r \in Requests : hop[r] \in Hops <=> Queued(r) \/ r \in running
    /\ \A r \in running : ~Queued(r)
    /\ \A i, j \in 1 .. Len(queue) : queue[i] = queue[j] => i = j

(* No connection is lost or handed out twice, and none is kept by a        *)
(* request that has been answered or has issued no statement yet.          *)
ConnectionsAreAccountedFor ==
    /\ free + Cardinality(holders) = PoolSize
    /\ \A r \in holders : hop[r] \notin {"idle", "session"}

(* Requests that hold a connection may all wait for a thread while every   *)
(* thread waits for a connection; even so every request is answered.       *)
EveryRequestIsAnswered ==
    \A r \in Requests : hop[r] # "idle" ~> hop[r] = "idle"

====
