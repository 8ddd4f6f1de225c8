------------------------ MODULE MCPermissionResource ------------------------
(* Three grants: one can be in state, one planned and one put there by      *)
(* somebody else; two handlers let a late request of the first one meet the *)
(* second.                                                                  *)
EXTENDS PermissionResource
=============================================================================
