-------------------------- MODULE MCCircuitBreaker --------------------------
(* CircuitBreaker on small instances.                                      *)
EXTENDS CircuitBreaker, TLC

(* The coroutines that call through the breaker are interchangeable.       *)
Symmetry == Permutations(Calls)

=============================================================================
