--------------------------- MODULE MCThrottleGate ---------------------------
(* The 429 delay gate for TLC: more requests than pacing slots, a clock that *)
(* allows several clean windows, and a maximum delay the doubling overshoots. *)
EXTENDS ThrottleGate, TLC

Symmetry == Permutations(Requests)

=============================================================================
