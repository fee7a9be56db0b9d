----------------------------- MODULE MCRateLimit -----------------------------
(***************************************************************************)
(* The rate limit on a small instance: requests of one client are alike.   *)
(***************************************************************************)
EXTENDS RateLimit, TLC

CONSTANTS r1, r2

Alike == Permutations(Requests)
=============================================================================
