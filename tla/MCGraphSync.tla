---------------------------- MODULE MCGraphSync ----------------------------
(* Instance of GraphSync. *)
EXTENDS GraphSync
=============================================================================
