----------------------------- MODULE MCMutexKV -----------------------------
(* A small instance of MutexKV for TLC. *)
EXTENDS MutexKV, TLC

=============================================================================
