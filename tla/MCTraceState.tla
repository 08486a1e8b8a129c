---------------------------- MODULE MCTraceState ----------------------------
(* The trace switch for TLC: three overlapping windows.                     *)
EXTENDS TraceState

=============================================================================
