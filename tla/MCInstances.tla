---------------------------- MODULE MCInstances -----------------------------
(* Small instances of Instances for TLC: the bounds are in the cfg files. *)
EXTENDS Instances
=============================================================================
