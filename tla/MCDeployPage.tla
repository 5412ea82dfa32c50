----------------------------- MODULE MCDeployPage -----------------------------
(***************************************************************************)
(* Instances of DeployPage for TLC.                                        *)
(***************************************************************************)
EXTENDS DeployPage

Few == [posts |-> 2, others |-> 1, faults |-> 1, leaves |-> 1]
=============================================================================
