---------------------------- MODULE MCWitnessCtl ----------------------------
(* Instances of WitnessCtl for TLC. *)
EXTENDS WitnessCtl, TLC
=============================================================================
