---------------------------- MODULE MCRootTrust ----------------------------
(* Instances of RootTrust for TLC. *)
EXTENDS RootTrust
=============================================================================
