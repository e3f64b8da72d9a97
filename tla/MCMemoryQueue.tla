-------------------------- MODULE MCMemoryQueue --------------------------
(* Instances of MemoryQueue for TLC: the constants are given in the .cfg. *)
EXTENDS MemoryQueue
=============================================================================
