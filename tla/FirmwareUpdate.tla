--------------------------- MODULE FirmwareUpdate ---------------------------
(***************************************************************************)
(* Firmware updates: the InstallOS and InstallApplet RPCs                  *)
(* (trusted_os/rpc.go) and the A/B slots and configurations they write     *)
(* (trusted_os/flash.go), with the boot that reads them back.              *)
(*                                                                         *)
(* An image is N pieces; an RPC carries at most one and flash() writes one *)
(* piece per WriteBlocks call.  A piece names its image and its place, so  *)
(* a buffer hashes to what the manifest of image i says iff it consists of *)
(* the pieces of i in order.  Logged[t] are the images with a manifest,    *)
(* signatures and an inclusion proof that the verifier of type t accepts.  *)
(* A configuration is what config.Config records: slot and image.          *)
(***************************************************************************)
EXTENDS Naturals, Sequences

CONSTANTS Image,       \* firmware images
          None,        \* no image
          Unverified,  \* an image that is not what its manifest says
          Logged,      \* for each type, the images its verifier accepts
          N,           \* pieces per image
          BufMax,      \* bound: pieces in the two firmware buffers
          MaxFaults    \* bound: faults of the card on a configuration

Type  == {"os", "ta"}

ASSUME ConstantAssumption ==
  /\ {None, Unverified} \cap Image = {} /\ None # Unverified
  /\ Logged \in [Type -> SUBSET Image]
  /\ N \in Nat \ {0}
  /\ BufMax \in Nat
  /\ MaxFaults \in Nat

Slot  == {"A", "B"}
Piece == [image: Image, part: 1..N]
Chunk == {<< >>} \cup {<<p>> : p \in Piece}   \* the Image field of an RPC
Junk  == [part |-> 0]        \* a blank or half-written piece

VARIABLES slots,   \* eMMC: contents of the two slots of each type
          conf,    \* eMMC: configuration of each type
          power,   \* "off", "on" or, after an update, "reboot"
          loaded,  \* appletLoadedFromBlock, osLoadedFromBlock; "none" is 0
          run,     \* the image that was booted, None if none
          from,    \* history: the slot that image was started from
          buf,     \* osFirmwareBuffer, appletFirmwareBuffer
          job,     \* the update an RPC is flashing
          faults   \* history: configurations torn, written with a late error or
                   \* unreadable at boot so far

vars == <<slots, conf, power, loaded, run, from, buf, job, faults>>

PieceOf(i, k) == [image |-> i, part |-> k]
Holds(t, s, i) == \A k \in 1..N : slots[t][s][k] = PieceOf(i, k)

\* Decodable, in a slot that holds the image, which the verifier accepts
Bootable(t) == /\ conf[t].decodes
               /\ conf[t].image \in Logged[t]
               /\ Holds(t, conf[t].slot, conf[t].image)

Idle == [type |-> "none"]

\* A provisioned device
Init == \E first \in [Type -> Image] :
  /\ \A t \in Type : first[t] \in Logged[t]
  /\ slots = [t \in Type |-> [s \in Slot |-> [k \in 1..N |->
                IF s = "A" THEN PieceOf(first[t], k) ELSE Junk]]]
  /\ conf = [t \in Type |-> [decodes |-> TRUE, slot |-> "A", image |-> first[t]]]
  /\ power = "off"
  /\ loaded = [t \in Type |-> "none"]
  /\ run = [t \in Type |-> None]
  /\ from = [t \in Type |-> "none"]
  /\ buf = [t \in Type |-> << >>]
  /\ job = Idle
  /\ faults = 0

\* The card handles a configuration otherwise than whole or not at all
Fault == faults < MaxFaults /\ faults' = faults + 1

-----------------------------------------------------------------------------
(***************************************************************************)
(* Boot.  The boot loader (external) starts the OS its configuration names *)
(* if that verifies.  The OS then reads both configurations, and runs on   *)
(* when that fails, without a known slot or without an applet.  An applet  *)
(* that does not verify is reported and loaded all the same: the OS may    *)
(* also panic, on what is then missing from its manifest or on its ELF.    *)
(***************************************************************************)
Started(readable) ==
  IF ~readable \/ ~conf["ta"].decodes THEN {None}
  ELSE IF Bootable("ta") THEN {conf["ta"].image} ELSE {Unverified, None}

Boot ==
  /\ power = "off" /\ Bootable("os")
  /\ power' = "on"
  /\ \E readable \in [Type -> BOOLEAN] :
       /\ \/ (\A t \in Type : readable[t]) /\ UNCHANGED faults
          \/ (\E t \in Type : ~readable[t]) /\ Fault
       /\ loaded' = [t \in Type |-> IF readable[t] /\ conf[t].decodes
                                    THEN conf[t].slot ELSE "none"]
       /\ \E ta \in Started(readable["ta"]) :
            /\ run' = [t \in Type |-> IF t = "os" THEN conf[t].image ELSE ta]
            /\ from' = [t \in Type |-> IF t = "ta" /\ ta = None
                                       THEN "none" ELSE conf[t].slot]
  /\ UNCHANGED <<slots, conf, buf, job>>

PowerLoss ==
  /\ power # "off"
  /\ power' = "off"
  /\ loaded' = [t \in Type |-> "none"]
  /\ run' = [t \in Type |-> None]
  /\ from' = [t \in Type |-> "none"]
  /\ buf' = [t \in Type |-> << >>]
  /\ job' = Idle
  /\ UNCHANGED <<slots, conf, faults>>

-----------------------------------------------------------------------------
(***************************************************************************)
(* The RPCs.  Only Sequence 0 is told from the others.                     *)
(***************************************************************************)
Calls == power = "on" /\ job = Idle /\ run["ta"] # None

Append1Padded(t, first, chunk) == (IF first THEN << >> ELSE buf[t]) \o chunk \o <<Junk>>
Append1(t, first, chunk) == (IF first THEN << >> ELSE buf[t]) \o chunk

Fits(t, b) == \A u \in Type \ {t} : Len(b) + Len(buf[u]) <= BufMax

Verify(t, b, i) == /\ i \in Logged[t]
                   /\ Len(b) = N
                   /\ \A k \in 1..N : b[k] = PieceOf(i, k)

\* flashFirmware: the slot the running firmware was not loaded from, or A
TargetSame(t) == IF loaded[t] = "B" THEN "B" ELSE "A"
Target(t) == IF loaded[t] = "A" THEN "B" ELSE "A"

\* A chunk without a proof, or with one the verifier refuses: an error is
\* returned and the buffer keeps the chunk.  (An empty one is left out: with
\* Sequence 0 it empties the buffer, from which the next chunk goes on as if
\* it had Sequence 0 itself, and otherwise it does nothing.)
InstallChunk(t, first, chunk) ==
  LET b == Append1(t, first, chunk) IN
    /\ Calls /\ Fits(t, b)
    /\ buf' = [buf EXCEPT ![t] = b]
    /\ UNCHANGED <<slots, conf, power, loaded, run, from, job, faults>>

\* The last chunk, possibly empty, with a proof of image i that verifies: start flashing
InstallFinal(t, first, chunk, i) ==
  LET b == Append1(t, first, chunk) IN
    /\ Calls /\ Fits(t, b) /\ Verify(t, b, i)
    /\ buf' = [buf EXCEPT ![t] = b]
    /\ job' = [type |-> t, image |-> i, slot |-> Target(t), next |-> 1]
    /\ UNCHANGED <<slots, conf, power, loaded, run, from, faults>>

WriteSlot(piece) ==
  slots' = [slots EXCEPT ![job.type][job.slot][job.next] = piece]

FlashesConfFirst == job.next = 1
FlashesConf == job.next = N + 1

\* flash(storage, elf, elfBlock): one WriteBlocks call
FlashPiece ==
  /\ job # Idle /\ job.next <= N
  /\ \/ /\ WriteSlot(buf[job.type][job.next])
        /\ job' = [job EXCEPT !.next = @ + 1]
     \/ /\ \/ UNCHANGED slots
           \/ \E piece \in {buf[job.type][job.next], Junk} : WriteSlot(piece)
        /\ job' = Idle
  /\ UNCHANGED <<conf, power, loaded, run, from, buf, faults>>

\* The RPC reboots the device once the configuration is written
RebootNever == UNCHANGED power
Reboot == power' = "reboot"

\* flash(storage, confEnc, confBlock), then the RPC reboots the device
FlashConf ==
  /\ job # Idle /\ FlashesConf
  /\ LET new == [decodes |-> TRUE, slot |-> job.slot, image |-> job.image]
     IN \/ /\ conf' = [conf EXCEPT ![job.type] = new]
           /\ Reboot /\ UNCHANGED faults
        \/ UNCHANGED <<conf, power, faults>>
        \/ /\ \/ conf' = [conf EXCEPT ![job.type] = new]               \* late error
              \/ conf' = [conf EXCEPT ![job.type].decodes = FALSE]     \* torn
           /\ Fault /\ UNCHANGED power
  /\ job' = Idle
  /\ UNCHANGED <<slots, loaded, run, from, buf>>

\* The slots and configurations are written by updates alone: RPC.WriteBlocks
\* takes any LBA, and the applet is assumed to keep to other blocks.
Next == \/ Boot \/ PowerLoss \/ FlashPiece \/ FlashConf
        \/ \E t \in Type, first \in BOOLEAN, chunk \in Chunk :
              \/ chunk # << >> /\ InstallChunk(t, first, chunk)
              \/ \E i \in Image : InstallFinal(t, first, chunk, i)

Spec == Init /\ [][Next]_vars
-----------------------------------------------------------------------------
TypeOK ==
  /\ slots \in [Type -> [Slot -> [1..N -> Piece \cup {Junk}]]]
  /\ conf \in [Type -> [decodes: BOOLEAN, slot: Slot, image: Image]]
  /\ power \in {"off", "on", "reboot"}
  /\ loaded \in [Type -> Slot \cup {"none"}]
  /\ run \in [Type -> Image \cup {None, Unverified}]
  /\ from \in [Type -> Slot \cup {"none"}]
  /\ buf \in [Type -> Seq(Piece)]
  /\ job \in {Idle} \cup [type: Type, image: Image, slot: Slot, next: 1 .. N + 1]
  /\ faults \in 0..MaxFaults

\* "Flash firmware bytes first before updating config so that in case of any
\* error the unit will still boot the previous working firmware" (flash.go):
\* at every point, so also when power fails there, each configuration names a
\* complete image that its verifier accepts, in the slot where it says it is.
\* Only a fault on a configuration itself, which has no second copy, takes
\* that away.
AlwaysBootable == faults = 0 => \A t \in Type : Bootable(t)

\* No write goes to the slot the current configuration points to.
ConfiguredSlotUntouched ==
  [][faults = 0 => \A t \in Type :
        slots'[t][conf[t].slot] = slots[t][conf[t].slot]]_vars

\* No write goes to the slot that running firmware was started from, also after
\* its configuration was torn or was written although the RPC reported an error:
\* the slot of a further update then follows from what the OS read at boot, not
\* from the configuration on the card.  One case is excepted, as flashFirmware
\* says ("or there was no valid config, store in slot A"): an OS started from
\* slot A that could not read its configuration afterwards (main.go logs that
\* and goes on) does not know its slot and flashes an OS update over it.  An
\* applet whose configuration cannot be read is not started.
RunningSlotUntouched ==
  [][\A t \in Type : from[t] # "none" =>
        \/ slots'[t][from[t]] = slots[t][from[t]]
        \/ t = "os" /\ loaded[t] = "none" /\ from[t] = "A"]_vars

\* The slots and configurations implement FirmwareStore: an update takes effect
\* at the instant its configuration is written, whatever was flashed before, so
\* one that is refused, fails or loses power has no effect on what the next
\* boot starts, and the next boot starts all of the last one that did.
Nothing == [t \in Type |-> None]
Store == INSTANCE FirmwareStore
           WITH installed <- IF faults = 0 THEN [t \in Type |-> conf[t].image] ELSE Nothing,
                running   <- IF faults = 0 /\ power = "on" THEN run ELSE Nothing
ImplementsFirmwareStore == Store!Spec
=============================================================================
