------------------------- MODULE MCDatabaseResource -------------------------
(* Two option keys: Terraform may manage both, one or none of them, and the *)
(* server may supply a default for the second.                              *)
EXTENDS DatabaseResource

CONSTANTS k1, k2, v1, v2

MCKeys == {k1, k2}
NoDefaults == [k \in MCKeys |-> Absent]
OneDefault == [k \in MCKeys |-> IF k = k2 THEN v2 ELSE Absent]
=============================================================================
