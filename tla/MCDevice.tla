------------------------------ MODULE MCDevice ------------------------------
(* Instances of Device for TLC. *)
EXTENDS Device
CONSTANTS i1, i2, i3, iu

\* iu is an OS image whose version does not parse.
MCLogged == [t \in VSector |-> IF t = "os" THEN {i1, i2, i3, iu} ELSE {i1, i2, i3}]
MCVersionOf == [i \in Image |-> CASE i = i1 -> 1 [] i = i2 -> 2 [] i = i3 -> 3 [] OTHER -> Unparsable]
=============================================================================
