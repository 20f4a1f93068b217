------------------------ MODULE MCPolicyController --------------------------
(* TLC instances of PolicyController: a /31 with one of its two /32s.      *)
EXTENDS PolicyController

MCNestedPrefixes == {{1, 2}, {2}}
MCNetAddr == [p \in Prefixes |-> CHOOSE x \in p : \A y \in p : x <= y]
=============================================================================
