--------------------------- MODULE MCControlServer ---------------------------
(* Instances of ControlServer for TLC; the .cfg files choose who takes part. *)
EXTENDS ControlServer
=============================================================================
