---- MODULE MCSummaries ----
(***************************************************************************)
(* The instances of MCIdentity, whose administrators also ask for          *)
(* summaries.                                                              *)
(***************************************************************************)
EXTENDS MCIdentity, Summaries

CONSTANT MaxDrift   \* bound on the commits during a summary, for TLC

BoundedReport == report = NoReport \/ report.drift <= MaxDrift

SummarizedSpec ==
    (SignedUp \/ Bootstrapped) /\ report = NoReport /\ [][SummaryNext]_summaryVars

====
