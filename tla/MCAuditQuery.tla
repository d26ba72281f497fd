---- MODULE MCAuditQuery ----
(***************************************************************************)
(* Readers and writers over a few entries.  Transactions and tenants are   *)
(* interchangeable; ids are not, since they order the listing.             *)
(***************************************************************************)
EXTENDS AuditQuery, TLC

SymmetryOfNames == Permutations(Writers) \cup Permutations(Tenants)

====
