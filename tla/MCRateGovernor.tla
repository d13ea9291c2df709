--------------------------- MODULE MCRateGovernor ---------------------------
(* Two callers of one bucket, for TLC.                                     *)
EXTENDS RateGovernor
=============================================================================
