----------------------------- MODULE MCAdminShell -----------------------------
(***************************************************************************)
(* Instances of AdminShell for TLC.                                        *)
(***************************************************************************)
EXTENDS AdminShell
=============================================================================
