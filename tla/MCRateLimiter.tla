--------------------------- MODULE MCRateLimiter ---------------------------
(* RateLimiter on small instances.                                         *)
EXTENDS RateLimiter, TLC

(* The requests of one client are interchangeable.                         *)
Symmetry == Permutations(Requests)

=============================================================================
