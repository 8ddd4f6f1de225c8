-------------------------- MODULE MCPolicyResource --------------------------
(* The policy life cycle for TLC: three contents tell the previous, the     *)
(* planned and an unexpected one apart; two handlers let a late request of  *)
(* the first one meet the second.                                           *)
EXTENDS PolicyResource
=============================================================================
