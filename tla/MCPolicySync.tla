---------------------------- MODULE MCPolicySync ----------------------------
(* TLC instances of PolicySync. *)
EXTENDS PolicySync, TLC

(* The connection slots are interchangeable. *)
ConnSymmetry == Permutations(Conns)
=============================================================================
