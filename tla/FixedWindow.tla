---- MODULE FixedWindow ----
(***************************************************************************)
(* What the rate limiter promises.  The requests of one client under one   *)
(* rule are counted in windows: the first request opens a window, no more  *)
(* than the rule's limit of them are let through before it is over, and no *)
(* request is refused unless the limit has been reached.                   *)
(***************************************************************************)
EXTENDS Integers

CONSTANTS
    Keys,           \* pairs of a rule and a client
    Limit(_),       \* how many requests of a key one window lets through
    Window,         \* length of a window
    MaxTime         \* bound on the clock

VARIABLES
    now,
    window,         \* for each key, its current window, if any
    decision        \* the last answer: the key and whether it was let through

vars == <<now, window, decision>>

Init ==
    /\ now = 0
    /\ window = [k \in Keys |-> {}]
    /\ decision = [key |-> {}, allowed |-> TRUE]

Allow(k) ==
    /\ \/ window[k] = {} /\ window' = [window EXCEPT ![k] = {[start |-> now, count |-> 1]}]
       \/ \E w \in window[k] :
            /\ w.count < Limit(k)
            /\ window' = [window EXCEPT ![k] = {[w EXCEPT !.count = @ + 1]}]
    /\ decision' = [key |-> {k}, allowed |-> TRUE]
    /\ UNCHANGED now

Refuse(k) ==
    /\ \E w \in window[k] : w.count >= Limit(k)
    /\ decision' = [key |-> {k}, allowed |-> FALSE]
    /\ UNCHANGED <<now, window>>

(* Windows whose time is over close.                                       *)
Tick ==
    /\ now < MaxTime
    /\ now' = now + 1
    /\ window' = [k \in Keys |-> {w \in window[k] : now' - w.start < Window}]
    /\ UNCHANGED decision

(* The counters live in the process and die with it.                       *)
Restart ==
    /\ window' = [k \in Keys |-> {}]
    /\ decision' = [key |-> {}, allowed |-> TRUE]
    /\ UNCHANGED now

Next == Tick \/ Restart \/ \E k \in Keys : Allow(k) \/ Refuse(k)

Spec == Init /\ [][Next]_vars

====
