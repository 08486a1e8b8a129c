---------------------------- MODULE MCModelPool -----------------------------
(* The model pool for TLC: three members, the first one heavier and ready to *)
(* overflow, the last one without a cap.                                     *)
EXTENDS ModelPool

MCWeight == <<2, 1, 1>>
MCCap    == <<2, 1, 0>>

=============================================================================
