------------------------------ MODULE MCApplet ------------------------------
(* Instances of Applet for TLC. *)
EXTENDS Applet, TLC
=============================================================================
