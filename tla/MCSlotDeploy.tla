---------------------------- MODULE MCSlotDeploy ----------------------------
(* Small instances of SlotDeploy for TLC. *)
EXTENDS SlotDeploy, TLC

Symmetry == Permutations(Images)
=============================================================================
