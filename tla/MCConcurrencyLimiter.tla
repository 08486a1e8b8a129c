------------------------ MODULE MCConcurrencyLimiter ------------------------
(* The concurrency limiter for TLC: two connections more than slots, so     *)
(* that two requests queue and the order in which they are served shows.    *)
EXTENDS ConcurrencyLimiter

=============================================================================
