------------------------------- MODULE MCHAB --------------------------------
(* Instances of HAB for TLC. *)
EXTENDS HAB, TLC
=============================================================================
