---- MODULE RateLimiter ----
(***************************************************************************)
(* core/rate_limit.py: the in-memory limiter of the auth entry points.     *)
(* The middleware is a coroutine and evaluate() holds a lock, so one       *)
(* evaluation is one step.  Time is counted in ticks, TicksPerSecond to a  *)
(* second, so that a Retry-After of whole seconds has something to round.  *)
(***************************************************************************)
EXTENDS Integers, FiniteSets

CONSTANTS
    Clients,        \* client addresses
    LoginLimit,     \* settings.login_rate_limit_requests
    RegisterLimit,  \* settings.register_rate_limit_requests
    RefreshLimit,   \* settings.refresh_rate_limit_requests
    WindowSeconds,  \* settings.rate_limit_window_seconds
    TicksPerSecond, \* resolution of the clock
    PruneThreshold, \* number of counters at which expired ones are dropped
    PruneAge,       \* age, in ticks, from which the pruning takes them as expired
    MaxTime         \* bound on the clock

ASSUME LimiterAssumption ==
    /\ LoginLimit \in Nat /\ RegisterLimit \in Nat /\ RefreshLimit \in Nat
    /\ WindowSeconds \in Nat \ {0}
    /\ TicksPerSecond \in Nat \ {0}
    /\ PruneThreshold \in Nat \ {0}
    /\ PruneAge \in Nat \ {0}
    /\ MaxTime \in Nat

Window == WindowSeconds * TicksPerSecond

RuleLimit ==
    [auth_login |-> LoginLimit, auth_register |-> RegisterLimit,
     auth_refresh |-> RefreshLimit]

(* _build_rules: a limit of 0 switches the rule off.                       *)
Rules == {r \in DOMAIN RuleLimit : RuleLimit[r] > 0}

Keys == Rules \X Clients
Limit(k) == RuleLimit[k[1]]

VARIABLES
    now,        \* monotonic()
    counters,   \* _counters, a function from the keys in use
    decision,   \* the last RateLimitDecision, with ghosts: its key, its time
                \* and the end of the window it was taken in
    spent       \* ghost: for each key, when its last window was opened and
                \* how many requests went through since

vars == <<now, counters, decision, spent>>

NoDecision ==
    [key |-> {}, allowed |-> TRUE, remaining |-> 0, retryAfter |-> 1,
     at |-> 0, until |-> 0]

NoCounters == [k \in {} |-> {}]
NothingSpent == [k \in Keys |-> [start |-> -Window, count |-> 0]]

Init ==
    /\ now = 0
    /\ counters = NoCounters
    /\ decision = NoDecision
    /\ spent = NothingSpent

(* Whether a counter's window is over; ExpiredLate, a tick too late.       *)
ExpiredLate(counter) == now - counter.start > Window
Expired(counter) == now - counter.start >= Window

(* The counter a request is measured against: a new one when there is none *)
(* or its window is over.                                                  *)
Current(k) ==
    IF k \notin DOMAIN counters \/ Expired(counters[k])
    THEN [start |-> now, count |-> 0] ELSE counters[k]

(* _build_retry_after: whole seconds until the window is over, rounded up  *)
(* (FloorSeconds rounds down).                                             *)
FloorSeconds(ticks) == ticks \div TicksPerSecond
CeilSeconds(ticks) == (ticks + TicksPerSecond - 1) \div TicksPerSecond
AtLeast(low, x) == IF x < low THEN low ELSE x
RetryAfter(start) == AtLeast(1, CeilSeconds(AtLeast(0, Window - (now - start))))

Decide(k, allowed, counter) ==
    [key |-> {k}, allowed |-> allowed,
     remaining |-> AtLeast(0, Limit(k) - counter.count),
     retryAfter |-> RetryAfter(counter.start),
     at |-> now, until |-> counter.start + Window]

(* _prune_expired_counters: the age is fixed, whatever the window.         *)
(* PruneAll drops every counter, expired or not.                           *)
PruneAll(c) == IF Cardinality(DOMAIN c) < PruneThreshold THEN c ELSE NoCounters
Prune(c) ==
    LET kept == IF Cardinality(DOMAIN c) < PruneThreshold THEN DOMAIN c
                ELSE {k \in DOMAIN c : now - c[k].start < PruneAge}
    IN  [k \in kept |-> c[k]]

(* The counter of a key is created or replaced.                            *)
Put(c, k, counter) ==
    [j \in DOMAIN c \cup {k} |-> IF j = k THEN counter ELSE c[j]]

(* The limit is not reached yet; HasOneMore lets one more through.         *)
HasOneMore(k) == Current(k).count <= Limit(k)
HasRoom(k) == Current(k).count < Limit(k)

(* What the ghost notes when a request goes through.                       *)
Noted(k) ==
    IF Expired(spent[k]) THEN [start |-> now, count |-> 1]
    ELSE [spent[k] EXCEPT !.count = @ + 1]

(* evaluate: the request goes through and is counted, then old counters    *)
(* may be dropped.                                                         *)
Allow(k) ==
    /\ HasRoom(k)
    /\ LET counted == [Current(k) EXCEPT !.count = @ + 1]
       IN  /\ counters' = Prune(Put(counters, k, counted))
           /\ decision' = Decide(k, TRUE, counted)
    /\ spent' = [spent EXCEPT ![k] = Noted(k)]
    /\ UNCHANGED now

(* evaluate: the request is answered 429.                                  *)
Refuse(k) ==
    /\ ~HasRoom(k)
    /\ counters' = Put(counters, k, Current(k))
    /\ decision' = Decide(k, FALSE, Current(k))
    /\ UNCHANGED <<now, spent>>

Tick ==
    /\ now < MaxTime
    /\ now' = now + 1
    /\ UNCHANGED <<counters, decision, spent>>

(* The process restarts: install_rate_limit_middleware makes a new limiter.*)
Restart ==
    /\ counters' = NoCounters
    /\ decision' = NoDecision
    /\ spent' = NothingSpent
    /\ UNCHANGED now

Next == Tick \/ Restart \/ \E k \in Keys : Allow(k) \/ Refuse(k)

Spec == Init /\ [][Next]_vars

(***************************************************************************)
(* Properties.                                                             *)
(***************************************************************************)

(* The type invariant: no counter counts past its rule's limit, so there   *)
(* is never a negative number of requests remaining.                       *)
CountersOK ==
    /\ now \in 0 .. MaxTime
    /\ DOMAIN counters \subseteq Keys
    /\ \A k \in DOMAIN counters :
        counters[k].start \in 0 .. now /\ counters[k].count \in 1 .. Limit(k)

(* From the opening of a window to its end no client gets more requests    *)
(* through than the rule allows, whatever the pruning drops meanwhile.     *)
WithinLimit == \A k \in Keys : spent[k].count <= Limit(k)

(* A client that waits for the seconds in Retry-After finds its window     *)
(* over, and a second less would not do.                                   *)
RetryAfterIsTight ==
    LET wait == decision.retryAfter * TicksPerSecond
        left == decision.until - decision.at
    IN  decision.key # {} => left <= wait /\ wait < left + TicksPerSecond

(* The limiter keeps the promise of FixedWindow: counters of windows that  *)
(* are over, kept or pruned, do not matter.                                *)
OpenWindow ==
    [k \in Keys |->
        IF k \in DOMAIN counters /\ ~Expired(counters[k]) THEN {counters[k]} ELSE {}]

Promise == INSTANCE FixedWindow WITH
    window <- OpenWindow,
    decision <- [key |-> decision.key, allowed |-> decision.allowed]

KeepsPromise == Promise!Spec

====
