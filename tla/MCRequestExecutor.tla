------------------------- MODULE MCRequestExecutor -------------------------
(* Small instances of RequestExecutor for TLC. *)
EXTENDS RequestExecutor, TLC

CONSTANTS c1, c2
=============================================================================
