--------------------------- MODULE MCEnvkeyFetch ---------------------------
(* Instances of EnvkeyFetch for TLC. *)
EXTENDS EnvkeyFetch
=============================================================================
