---------------------------- MODULE MCRateLimit ----------------------------
(***************************************************************************)
(* A small instance of RateLimit: two threads.                             *)
(***************************************************************************)
EXTENDS RateLimit, TLC

CONSTANTS r1, r2

MCRequests == {r1, r2}
RateSymmetry == Permutations(MCRequests)
=============================================================================
