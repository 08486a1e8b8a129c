-------------------------- MODULE MCColdStartGate ---------------------------
(* The cold-start gate for TLC, without a controller (cold_gate) and with   *)
(* one (backpressure).                                                      *)
EXTENDS ColdStartGate

CONSTANTS r1, r2, r3, s1

MCRequests  == {r1, r2, r3}

\* Two requests of one session and one without a session.
MCSessionOf == r1 :> s1 @@ r2 :> s1 @@ r3 :> NoSession

\* With a ceiling of 2: one request that fills it, one whose body has no known
\* size and so an empty estimate, and one over it on its own.
MCSizes == r1 :> 2 @@ r2 :> 0 @@ r3 :> 3

\* Nobody carries a session: every request is cold.
MCAllCold == [r \in MCRequests |-> NoSession]

\* With a ceiling of 4: the first two fit next to each other under the ceiling
\* but not under half of it; the third is as large as the ceiling.
MCSizesControlled == r1 :> 2 @@ r2 :> 1 @@ r3 :> 4

=============================================================================
