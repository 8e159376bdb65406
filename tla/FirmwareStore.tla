--------------------------- MODULE FirmwareStore ---------------------------
(***************************************************************************)
(* What the firmware updates promise: the device boots exactly what was    *)
(* installed last, an update replaces one image by another that its        *)
(* verifier accepts, at one instant, and ends the run of the old one.      *)
(* Nothing is promised once the card has failed on a configuration.        *)
(***************************************************************************)
CONSTANTS Image,   \* firmware images
          None,    \* no image
          Logged   \* for each type, the images its verifier accepts

VARIABLES installed,  \* what the next boot starts
          running     \* what was booted

vars == <<installed, running>>

Type    == {"os", "ta"}
Nothing == [t \in Type |-> None]

Init == /\ installed \in [Type -> Image]
        /\ \A t \in Type : installed[t] \in Logged[t]
        /\ running = Nothing

Boot == /\ installed # Nothing /\ running = Nothing
        /\ running' = installed
        /\ UNCHANGED installed

PowerOff == /\ running # Nothing
            /\ running' = Nothing
            /\ UNCHANGED installed

Install(t, i) == /\ running # Nothing
                 /\ i \in Logged[t]
                 /\ installed' = [installed EXCEPT ![t] = i]
                 /\ running' = Nothing

Damage == /\ installed # Nothing
          /\ installed' = Nothing
          /\ running' = Nothing

Next == \/ Boot \/ PowerOff \/ Damage
        \/ \E t \in Type, i \in Image : Install(t, i)

Spec == Init /\ [][Next]_vars
=============================================================================
