---- MODULE Summaries ----
(***************************************************************************)
(* services/rbac.py: the summaries an administrator reads, beside the      *)
(* requests that change what they count.  Each number is a SELECT of its   *)
(* own, so each is a snapshot of its own; a summary writes nothing.        *)
(***************************************************************************)
EXTENDS IdentityProperties, FiniteSets, Sequences

CONSTANT Kinds      \* the summaries that are asked for, within AllKinds

AllKinds == {"tenant", "system"}
ASSUME KindsAssumption == Kinds \subseteq AllKinds

VARIABLE report     \* the summary that is being put together; drift is a ghost
summaryVars == <<vars, report>>

NoReport == [kind |-> "none"]
IsReporting(t) == report # NoReport /\ report.thread = t

(* The users that a count by role counts, active or not.  The variant      *)
(* counts the active ones, as if that were the default.                    *)
ActiveWithRole(members, role) ==
    {u \in members : users[u].role = role /\ users[u].active}
WithRole(members, role) == {u \in members : users[u].role = role}
Members(n) == {u \in DOMAIN users : users[u].tenant = n}

(* The rows that each statement counts, in the order of the code.          *)
TenantCounts(n) ==
    << Members(n),
       {u \in Members(n) : users[u].active},
       WithRole(Members(n), "TENANT_ADMIN"),
       WithRole(Members(n), "USER") >>
SystemCounts ==
    << DOMAIN tenants,
       {n \in DOMAIN tenants : tenants[n].active},
       DOMAIN users,
       WithRole(DOMAIN users, "SYS_ADMIN"),
       WithRole(DOMAIN users, "TENANT_ADMIN"),
       WithRole(DOMAIN users, "USER") >>
Counted(kind, n) == IF kind = "tenant" THEN TenantCounts(n) ELSE SystemCounts

(* require_roles: who may ask for which summary.                           *)
MayAsk(kind, role) ==
    role = "SYS_ADMIN" \/ (kind = "tenant" /\ role = "TENANT_ADMIN")

StartSummary(t) ==
    /\ report = NoReport
    /\ IsIdle(t)
    /\ \E kind \in Kinds, j \in jwts :
        /\ ClaimsHold(j)
        /\ MayAsk(kind, j.role)
        /\ report' = [kind |-> kind, thread |-> t, tenant |-> j.tenant,
                      numbers |-> << >>, drift |-> 0]
    /\ UNCHANGED vars

IsComplete ==
    report # NoReport
      /\ Len(report.numbers) = Len(Counted(report.kind, report.tenant))

CountNext ==
    /\ report # NoReport
    /\ ~IsComplete
    /\ LET rows == Counted(report.kind, report.tenant)[Len(report.numbers) + 1]
       IN  report' = [report EXCEPT !.numbers = Append(@, Cardinality(rows))]
    /\ UNCHANGED vars

Answer ==
    /\ IsComplete
    /\ report' = NoReport
    /\ UNCHANGED vars

(* Every other step of the service, which may change what is being         *)
(* counted: drift is the number of commits that did so since the start.    *)
(* The thread of the summary serves no other request until it has answered.*)
ServiceStep ==
    /\ Tick \/ \E t \in Threads : ~IsReporting(t) /\ Step(t)
    /\ report' = IF report = NoReport \/ (users' = users /\ tenants' = tenants)
                 THEN report ELSE [report EXCEPT !.drift = @ + 1]

SummaryNext ==
    \/ \E t \in Threads : StartSummary(t)
    \/ CountNext \/ Answer \/ ServiceStep

SummarySpec == Init /\ report = NoReport /\ [][SummaryNext]_summaryVars

(***************************************************************************)
(* A summary is off by at most what was committed while it was counted:    *)
(* the roles add up to the total (the tenant summary leaves its system     *)
(* administrators out), and no more is active than there is, each within   *)
(* one for every commit since the summary was started.                     *)
(***************************************************************************)
Within(d, x, y) == x - y <= d /\ y - x <= d
SummariesAddUp ==
    IsComplete =>
        LET n == report.numbers
            d == report.drift
        IN  /\ n[2] <= n[1] + d
            /\ report.kind = "tenant" =>
                LET unlisted == WithRole(Members(report.tenant), "SYS_ADMIN")
                IN  Within(d, n[1], n[3] + n[4] + Cardinality(unlisted))
            /\ report.kind = "system" => Within(d, n[3], n[4] + n[5] + n[6])

====
