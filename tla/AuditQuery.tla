---- MODULE AuditQuery ----
(***************************************************************************)
(* Reading the audit log page by page while requests keep writing to it.   *)
(* An entry bears the time at which its transaction began and appears when *)
(* the transaction commits, so entries do not appear in the order in which *)
(* they are listed; a page is two statements, the count and the entries,   *)
(* each with a snapshot of its own.                                        *)
(***************************************************************************)
EXTENDS Integers, FiniteSets

CONSTANTS
    Tenants,    \* the tenants that entries are about
    Writers,    \* transactions that may be open at once
    Readers,    \* clients that may be walking through the log
    Ids,        \* the entry ids, drawn at random
    Limits,     \* the page sizes that the endpoints accept
    MaxTime     \* bound on the clock

ASSUME IdsAreOrdered == \A i \in Ids : i \in Nat
ASSUME LimitsArePositive == \A n \in Limits : n \in Nat \ {0}
ASSUME MaxTimeNat == MaxTime \in Nat

(* A tenant filter, or the tenant of an entry: none or one.                *)
Scopes == {{}} \cup {{t} : t \in Tenants}
Entry == [at : 0 .. MaxTime, id : Ids, tenant : Scopes]
Principal == [role : {"SYS_ADMIN", "TENANT_ADMIN", "USER"}, tenant : Tenants]

VARIABLES
    now,     \* the clock of the database
    open,    \* the start of every open transaction, or no time
    log,     \* the committed entries
    walk     \* how far every reader has come

vars == <<now, open, log, walk>>

NoTime == {}
NoWalk == [pc |-> "idle", by |-> {}, scope |-> {}, limit |-> 0, offset |-> 0,
           total |-> 0, items |-> {}, seen |-> {}, began |-> {}]

Init ==
    /\ now = 0
    /\ open = [w \in Writers |-> NoTime]
    /\ log = {}
    /\ walk = [r \in Readers |-> NoWalk]

Tick == now < MaxTime /\ now' = now + 1 /\ UNCHANGED <<open, log, walk>>

(* A transaction begins; BeginAhead takes the time of a clock that is      *)
(* ahead of the database's.                                                *)
BeginAhead(w) ==
    /\ open[w] = NoTime
    /\ open' = [open EXCEPT ![w] = {now + 1}]
    /\ UNCHANGED <<now, log, walk>>
Begin(w) ==
    /\ open[w] = NoTime
    /\ open' = [open EXCEPT ![w] = {now}]
    /\ UNCHANGED <<now, log, walk>>

(* A commit adds the one or two entries of its request; all of them bear   *)
(* the time of Begin.                                                      *)
Commit(w) ==
    /\ \E at \in open[w], i, j \in Ids, tenant \in Scopes :
        /\ \A e \in log : e.id \notin {i, j}
        /\ log' = log \cup {[at |-> at, id |-> k, tenant |-> tenant] : k \in {i, j}}
    /\ open' = [open EXCEPT ![w] = NoTime]
    /\ UNCHANGED <<now, walk>>

(***************************************************************************)
(* One page.                                                               *)
(***************************************************************************)

(* _build_statement: the entries that the filter lets through.             *)
Everything(scope, S) == S
Matching(scope, S) == {e \in S : scope = {} \/ e.tenant = scope}

(* order_by(created_at desc, id desc); BeforeByTime leaves out the id.     *)
BeforeByTime(e, f) == e.at > f.at
Before(e, f) == e.at > f.at \/ (e.at = f.at /\ e.id > f.id)
Rank(e, S) == Cardinality({f \in S : Before(f, e)})

(* offset(...).limit(...)                                                  *)
Page(S, offset, limit) ==
    {e \in S : offset <= Rank(e, S) /\ Rank(e, S) < offset + limit}

(* The system endpoint is for system administrators, with or without a     *)
(* tenant; the tenant endpoint for them and the tenant's administrators.   *)
ListableByRole(p) == IF p.role = "USER" THEN {} ELSE Scopes
Listable(p) ==
    CASE p.role = "SYS_ADMIN"    -> Scopes
      [] p.role = "TENANT_ADMIN" -> {{p.tenant}}
      [] p.role = "USER"         -> {}

(* A client starts to read the log from its newest entry.                  *)
StartWalk(r) ==
    /\ walk[r].pc = "idle"
    /\ \E p \in Principal, limit \in Limits : \E scope \in Listable(p) :
        walk' = [walk EXCEPT ![r] =
                    [pc |-> "count", by |-> {p}, scope |-> scope,
                     limit |-> limit, offset |-> 0, total |-> 0, items |-> {},
                     seen |-> {}, began |-> Matching(scope, log)]]
    /\ UNCHANGED <<now, open, log>>

(* The count statement; CountAll counts what the filter leaves out too.    *)
CountAll(r) ==
    /\ walk[r].pc = "count"
    /\ walk' = [walk EXCEPT ![r].pc = "page", ![r].total = Cardinality(log)]
    /\ UNCHANGED <<now, open, log>>
Count(r) ==
    /\ walk[r].pc = "count"
    /\ walk' = [walk EXCEPT ![r].pc = "page",
                            ![r].total = Cardinality(Matching(walk[r].scope, log))]
    /\ UNCHANGED <<now, open, log>>

(* The page statement and the response.                                    *)
ReadPage(r) ==
    /\ walk[r].pc = "page"
    /\ LET x == walk[r]
           page == Page(Matching(x.scope, log), x.offset, x.limit)
       IN  walk' = [walk EXCEPT ![r].pc = "answered", ![r].items = page,
                                ![r].seen = x.seen \cup page]
    /\ UNCHANGED <<now, open, log>>

(* The client asks for the next page, or has reached the end: a page that  *)
(* is not full.                                                            *)
NextPage(r) ==
    /\ walk[r].pc = "answered"
    /\ walk' = IF Cardinality(walk[r].items) < walk[r].limit
               THEN [walk EXCEPT ![r].pc = "done"]
               ELSE [walk EXCEPT ![r].pc = "count",
                                 ![r].offset = walk[r].offset + walk[r].limit]
    /\ UNCHANGED <<now, open, log>>

(* The client has what it wants, or gives up or is refused a page.         *)
Leave(r) ==
    /\ walk[r].pc # "idle"
    /\ walk' = [walk EXCEPT ![r] = NoWalk]
    /\ UNCHANGED <<now, open, log>>

Read(r) == StartWalk(r) \/ Count(r) \/ ReadPage(r) \/ NextPage(r) \/ Leave(r)

Next ==
    \/ Tick
    \/ \E w \in Writers : Begin(w) \/ Commit(w)
    \/ \E r \in Readers : Read(r)

Spec == Init /\ [][Next]_vars

Walk(S) ==
    [pc : {"idle", "count", "page", "answered", "done"}, by : SUBSET Principal,
     scope : Scopes, limit : Limits \cup {0}, offset : Nat, total : Nat,
     items : SUBSET S, seen : SUBSET S, began : SUBSET S]

(* Types; the log is a finite set of entries with ids of their own, and    *)
(* what a reader was shown is in it.                                       *)
LogOK(S) ==
    /\ S \subseteq Entry /\ IsFiniteSet(S)
    /\ \A e, f \in S : e.id = f.id => e = f
TypeOK ==
    /\ now \in 0 .. MaxTime
    /\ open \in [Writers -> {NoTime} \cup {{at} : at \in 0 .. now}]
    /\ LogOK(log)
    /\ walk \in [Readers -> Walk(log)]
    /\ \A r \in Readers : walk[r].pc # "idle" => walk[r].limit \in Limits

(* Entries shift to later pages while a reader walks, and some appear with *)
(* a time that is already behind it; even so a walk that has reached its   *)
(* end has shown every entry that was in the log when it began.            *)
WalksAreComplete ==
    \A r \in Readers : walk[r].pc = "done" => walk[r].began \subseteq walk[r].seen

(* The total is counted before the page is read, so it never promises more *)
(* than the page shows: a page is full or reaches the total.               *)
TotalsAreReached ==
    \A r \in Readers : walk[r].pc = "answered" =>
        \/ Cardinality(walk[r].items) = walk[r].limit
        \/ walk[r].offset + Cardinality(walk[r].items) >= walk[r].total

(* What a reader is ever shown is of its tenant, unless it is a system     *)
(* administrator; entries of no tenant are shown to those alone.           *)
ReadersStayInTheirTenant ==
    \A r \in Readers : \A p \in walk[r].by :
        p.role # "SYS_ADMIN" => \A e \in walk[r].seen : e.tenant = {p.tenant}

====
