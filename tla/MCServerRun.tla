---------------------------- MODULE MCServerRun -----------------------------
(* TLC instances of ServerRun. *)
EXTENDS ServerRun
=============================================================================
