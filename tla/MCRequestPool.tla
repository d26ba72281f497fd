---- MODULE MCRequestPool ----
(***************************************************************************)
(* Requests, threads and connections in a small instance: fewer threads    *)
(* than requests, and fewer connections than threads, so that both run     *)
(* out at once.                                                            *)
(***************************************************************************)
EXTENDS RequestPool
====
