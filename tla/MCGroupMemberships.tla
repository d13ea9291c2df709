------------------------- MODULE MCGroupMemberships -------------------------
(* One group and one user that is in it, for TLC.                          *)
EXTENDS GroupMemberships

CONSTANTS group, user, both, other, elsewhere

MCScope == [i \in {group, user} |->
              IF i = group THEN {both, other} ELSE {both, elsewhere} \cap Memberships]
=============================================================================
