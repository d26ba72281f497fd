---- MODULE MCRateLimiter ----
(***************************************************************************)
(* The rate limiter with interchangeable clients.                          *)
(***************************************************************************)
EXTENDS RateLimiter, TLC

SymmetryOfClients == Permutations(Clients)

====
