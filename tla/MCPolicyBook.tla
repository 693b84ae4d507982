---------------------------- MODULE MCPolicyBook ----------------------------
(***************************************************************************)
(* The policy engine on small instances: two customers and an admin who    *)
(* may be handed a policy, two policies, two products that can compete for *)
(* one name and one key.                                                   *)
(***************************************************************************)
EXTENDS PolicyBook
=============================================================================
