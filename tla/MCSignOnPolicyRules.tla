------------------------- MODULE MCSignOnPolicyRules -------------------------
(* Small instances of SignOnPolicyRules for TLC. *)
EXTENDS SignOnPolicyRules, TLC

SameBodies == Permutations(Bodies)
=============================================================================
