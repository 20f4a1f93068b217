--------------------------- MODULE MCSqlPolicies ----------------------------
(* TLC instances of SqlPolicies. *)
EXTENDS SqlPolicies
=============================================================================
