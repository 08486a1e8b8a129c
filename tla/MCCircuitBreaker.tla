-------------------------- MODULE MCCircuitBreaker --------------------------
(* The circuit breaker for TLC.  The clock runs long enough for the breaker *)
(* to open, probe, reopen, probe again and close.                           *)
EXTENDS CircuitBreaker, TLC

Symmetry == Permutations(Requests)

=============================================================================
