------------------------------- MODULE Device -------------------------------
(***************************************************************************)
(* The device across updates and boots: the firmware that FirmwareStore    *)
(* installs and boots, with the versions its images carry, meets the       *)
(* versions that Rollback has stored.  FirmwareUpdate implements the       *)
(* former, so an update here is one step: the image has passed the         *)
(* verifier and has been flashed, its configuration is written and the     *)
(* device reboots.                                                         *)
(***************************************************************************)
EXTENDS Rollback

CONSTANTS Image, None,  \* firmware images, no image
          Logged,       \* for each type, the images its verifier accepts
          VersionOf     \* the version of an image

ASSUME ImageAssumption == /\ None \notin Image
                          /\ Logged \in [VSector -> SUBSET Image]
                          /\ VersionOf \in [Image -> Running]

VARIABLES installed,  \* eMMC: what the next boot starts
          running,    \* what was booted
          origin      \* history: how each installed image got there: put there
                      \* off-line, or by an update from an accepted image that is
                      \* not newer ("forward"), or by any other update ("other")

Store == INSTANCE FirmwareStore WITH installed <- installed, running <- running

dvars == <<vars, installed, running, origin>>

DInit == Init /\ Store!Init /\ origin = [t \in VSector |-> "offline"]

\* The boot loader starts the installed OS, which loads the installed applet
PowerOn == /\ Boot /\ Store!Boot
           /\ osv' = VersionOf[installed["os"]] /\ tav' = VersionOf[installed["ta"]]
           /\ UNCHANGED origin

PowerLoss == PowerCycle /\ Store!PowerOff /\ UNCHANGED origin

Inside == Step /\ UNCHANGED <<installed, running, origin>>

\* Was the running image of type t accepted, and is i not older?  Without SNVS
\* no version is checked or stored.
Forward(t, i) ==
  LET v == IF t = "os" THEN osv ELSE tav
  IN /\ t = "ta" => ta = "accepted"
     /\ {v, VersionOf[i]} \subseteq Version
     /\ VersionOf[i] >= v

\* updateOS and updateApplet: the verifier looks at the manifest, the signatures
\* and the inclusion proof of i, and at no version
UpdateVerifies(t, i) == i \in Logged[t]

Update(t, i) == /\ sm = "up" /\ ta \in {"running", "accepted"}
                /\ UpdateVerifies(t, i)
                /\ Store!Install(t, i) /\ PowerCycle
                /\ origin' = [origin EXCEPT ![t] = IF Forward(t, i) THEN "forward" ELSE "other"]

\* A fault of the card on a configuration: the device is down until provisioned
Damage == Store!Damage /\ PowerCycle /\ UNCHANGED origin

\* Provisioning or recovery: images are written while the OS is not running
Provision == /\ sm = "off"
             /\ installed' \in [VSector -> Image]
             /\ \A t \in VSector : installed'[t] \in Logged[t]
             /\ origin' = [t \in VSector |-> "offline"]
             /\ UNCHANGED <<vars, running>>

DNext == \/ PowerOn \/ PowerLoss \/ Inside \/ Damage \/ Provision
         \/ \E t \in VSector, i \in Image : Update(t, i)

DSpec == DInit /\ [][DNext]_dvars
-----------------------------------------------------------------------------
DTypeOK == /\ TypeOK
           /\ installed \in [VSector -> Image] \cup {Store!Nothing}
           /\ running \in {installed, Store!Nothing}
           /\ origin \in [VSector -> {"offline", "forward", "other"}]

\* Firmware of type t may be refused for a reason other than its own version
Excused(t) == fault \/ ~Decodes(t) \/ (flag /\ ~keyed)

\* An update installed by accepted firmware, to a version that is not older
\* than its own, is never refused at a later boot or by RPC.Version: whatever
\* is stored by then, by boots that failed or lost power half way and on a
\* device that was closed in between, is not newer than the update.
ForwardUpdatesLaunch ==
  /\ sm = "halted" /\ snvs /\ origin["os"] = "forward" => Excused("os")
  /\ ta = "stopping" /\ origin["ta"] = "forward" => Excused("ta")

\* updateOS: "First, verify everything is correct and that, as far as we can
\* tell, we would succeed in loadering and launching this applet upon next
\* boot": an OS update that was accepted is launched by the next boot.
UpdatesLaunch ==
  sm = "halted" /\ snvs /\ origin["os"] # "offline" /\ osv # Unparsable => Excused("os")
=============================================================================
