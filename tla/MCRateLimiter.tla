---------------------------- MODULE MCRateLimiter ----------------------------
(* Instances of RateLimiter for TLC.                                       *)
EXTENDS RateLimiter, TLC

\* The goroutines are interchangeable.
Symmetry == Permutations(Queries) \cup Permutations(Conns)
==============================================================================
