------------------------------ MODULE MCCycleScan ------------------------------
(* Instances of CycleScan for TLC. *)
EXTENDS CycleScan
=============================================================================
