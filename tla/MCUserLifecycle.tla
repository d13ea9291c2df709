-------------------------- MODULE MCUserLifecycle --------------------------
(***************************************************************************)
(* One user, with two values for the attributes besides none, and two      *)
(* passwords.                                                              *)
(***************************************************************************)
EXTENDS UserLifecycle
CONSTANTS x, y, v, w
=============================================================================
