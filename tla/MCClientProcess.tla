------------------------- MODULE MCClientProcess -------------------------
(* Instances of ClientProcess for TLC.  The actions are interchangeable. *)
EXTENDS ClientProcess, TLC

Interchangeable == Permutations(Actions)
=============================================================================
