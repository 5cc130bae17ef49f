---------------------------- MODULE MCRateLimiter ----------------------------
(* A finite instance of RateLimiter for TLC. *)
EXTENDS RateLimiter, TLC

Symmetry == Permutations(Jobs)
=============================================================================
