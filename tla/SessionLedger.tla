---- MODULE SessionLedger ----
(***************************************************************************)
(* The ledger of sessions that the service keeps while the requests on one *)
(* user's sessions do not overlap.  A session is opened by a login and     *)
(* named by the token it was opened with; while it is open exactly one     *)
(* token is good for it, which every rotation replaces by one never used   *)
(* before.  A closed session stays closed, and a user who is out opens,    *)
(* rotates and keeps none.                                                 *)
(***************************************************************************)
CONSTANTS
    Users,      \* who may own a session
    Ids         \* the tokens there are

VARIABLES
    issued,     \* the tokens handed out so far
    owner,      \* the user of every session
    current,    \* the token that is good for a session, if it is open
    out         \* the users who may have no session

vars == <<issued, owner, current, out>>

Init ==
    /\ issued = {}
    /\ owner = [f \in {} |-> {}]
    /\ current = [f \in {} |-> {}]
    /\ out = {}

Extend(table, id, row) ==
    [k \in DOMAIN table \cup {id} |-> IF k = id THEN row ELSE table[k]]

(* A login or a sign-up.                                                   *)
Open(k, u) ==
    /\ k \notin issued
    /\ u \notin out
    /\ issued' = issued \cup {k}
    /\ owner' = Extend(owner, k, u)
    /\ current' = Extend(current, k, {k})
    /\ UNCHANGED out

(* A refresh.                                                              *)
Rotate(f, k) ==
    /\ current[f] # {}
    /\ owner[f] \notin out
    /\ k \notin issued
    /\ issued' = issued \cup {k}
    /\ current' = [current EXCEPT ![f] = {k}]
    /\ UNCHANGED <<owner, out>>

(* A logout.                                                               *)
Close(f) ==
    /\ current' = [current EXCEPT ![f] = {}]
    /\ UNCHANGED <<issued, owner, out>>

CloseAll(u) == [f \in DOMAIN current |-> IF owner[f] = u THEN {} ELSE current[f]]

(* A user is deactivated, or created inactive.                             *)
Bar(u) ==
    /\ out' = out \cup {u}
    /\ current' = CloseAll(u)
    /\ UNCHANGED <<issued, owner>>

(* The operator's command activates a user, with or without a rotation of  *)
(* the password.                                                           *)
Readmit(u) ==
    /\ out' = out \ {u}
    /\ current' = current \/ current' = CloseAll(u)
    /\ UNCHANGED <<issued, owner>>

Next ==
    \/ \E k \in Ids, u \in Users : Open(k, u)
    \/ \E f \in DOMAIN current, k \in Ids : Rotate(f, k)
    \/ \E f \in DOMAIN current : Close(f)
    \/ \E u \in Users : Bar(u) \/ Readmit(u)

Spec == Init /\ [][Next]_vars

====
