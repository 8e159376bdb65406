-------------------------- MODULE MCFirmwareUpdate --------------------------
(* Instances of FirmwareUpdate for TLC. *)
EXTENDS FirmwareUpdate, TLC
CONSTANTS i1, i2

\* i2 is an image the OS verifier accepts and the applet's does not.
MCLogged == [t \in Type |-> IF t = "os" THEN {i1, i2} ELSE {i1}]
=============================================================================
