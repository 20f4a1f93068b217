---------------------------- MODULE MCBgpEngine -----------------------------
(* TLC instances of BgpEngine. *)
EXTENDS BgpEngine
=============================================================================
