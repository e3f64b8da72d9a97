------------------------- MODULE MCOutdatedRetry -------------------------
(* Instances of OutdatedRetry for TLC. *)
EXTENDS OutdatedRetry, TLC
=============================================================================
