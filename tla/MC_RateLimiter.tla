---------------------------- MODULE MC_RateLimiter ----------------------------
(* Values for the runs of RateLimiter. *)
EXTENDS RateLimiter, TLC

CONSTANTS c1, c2, c3

MCCaller == {c1, c2, c3}

\* The callers are interchangeable.
MCSymmetry == Permutations(MCCaller)

=============================================================================
