----------------------------- MODULE MCReloader -----------------------------
(* The reloader for TLC: its configurations are model values.              *)
EXTENDS Reloader

=============================================================================
