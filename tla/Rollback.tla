------------------------------ MODULE Rollback ------------------------------
(***************************************************************************)
(* Rollback protection (trusted_os/rpmb.go, or trusted_os/rpmb_fake.go in  *)
(* a build with the tag fake_rpmb), as the boot sequence of the Trusted OS *)
(* (trusted_os/main.go) and the applet's RPCs (Version, WriteRPMB and      *)
(* ReadRPMB of trusted_os/rpc.go) use it.                                  *)
(*                                                                         *)
(* A version is a number, compared like its semantic version (0 is 0.0.0). *)
(* An RPMB transfer is one step with the outcomes AuthMemory allows.  The  *)
(* power may fail between any two steps.  A version in Long is one whose   *)
(* gob encoding exceeds versionLength bytes: updateVersion stores all of   *)
(* it, expectedVersion reads a prefix and gob reports an error.  The fake  *)
(* keeps everything in memory, and its expectedVersion never parses: it    *)
(* takes all of a sector, zero bytes included, for the version string.     *)
(***************************************************************************)
EXTENDS Naturals

CONSTANTS Version,     \* versions the installed images may have
          Unparsable,  \* a version string semver.NewVersion rejects
          Long,        \* versions whose encoding exceeds versionLength
          Value,       \* contents of the applet's own sector
          Blank        \* all zero bytes

ASSUME VersionAssumption == /\ Version \subseteq Nat \ {0}
                            /\ Unparsable \notin Nat
                            /\ Long \subseteq Version
                            /\ Blank \in Value

VARIABLES fake,   \* the OS is built with the fake RPMB
          \* persistent (epoch and user are not in a fake RPMB)
          hab,    \* the device is in closed configuration
          flag,   \* OTP bit: the RPMB key has been programmed
          keyed,  \* the card's RPMB key
          epoch,  \* version stored in osVersionSector and in taVersionSector
          user,   \* contents of taUserSector
          \* volatile
          sm,     \* progress of main(); "halted" after log.Fatal or a panic
          snvs,   \* SNVS.Available()
          osv,    \* version of the running OS
          ta,     \* the applet: "off", "running", "accepted" or "stopping"
          tav,    \* its version
          fault,  \* history: a hardware operation failed since power on
          reply,  \* result of its last RPMB transfer: the error and (history) had
                  \* the data been transferred
          \* history
          top     \* newest version accepted so far, per sector

persistent == <<fake, hab, flag, keyed, epoch, user>>
applet     == <<ta, tav, reply>>
vars == <<fake, hab, flag, keyed, epoch, user, sm, snvs, osv, ta, tav, fault, reply, top>>

VSector == {"os", "ta"}
Running == Version \cup {Unparsable}
NoReply == [err |-> TRUE, done |-> FALSE]

Init == /\ fake \in BOOLEAN
        /\ hab \in BOOLEAN /\ flag = FALSE /\ keyed = FALSE
        /\ epoch = [s \in VSector |-> 0] /\ user = Blank
        /\ sm = "off" /\ snvs = FALSE /\ osv = Unparsable
        /\ ta = "off" /\ tav = Unparsable
        /\ fault = FALSE /\ reply = NoReply
        /\ top = [s \in VSector |-> 0]

Fault == ~fake /\ fault' = TRUE
Fatal == sm' = "halted"

-----------------------------------------------------------------------------
(***************************************************************************)
(* main(): power on, RPMB.init, the version check of the OS.               *)
(***************************************************************************)
Boot == /\ sm = "off"
        /\ osv' \in Running /\ tav' \in Running
        /\ snvs' = hab
        /\ \/ sm' = (IF hab THEN "init" ELSE "up") /\ UNCHANGED fault
           \/ Fatal /\ fault' = TRUE             \* Storage.Detect failed
        /\ UNCHANGED <<persistent, ta, reply, top>>

\* The fake RPMB has nothing to initialise
FakeInit == fake /\ sm' = "check" /\ UNCHANGED fault

\* Key derivation, isProgrammed, rpmb.Init with its dummy write, Counter(false)
InitPartition ==
  /\ sm = "init"
  /\ \/ FakeInit
     \/ Fatal /\ Fault
     \/ ~fake /\ flag /\ ~keyed /\ Fatal /\ UNCHANGED fault    \* the dummy write is refused
     \/ ~fake /\ flag /\ keyed /\ sm' = "check" /\ UNCHANGED fault
     \/ ~fake /\ ~flag /\ sm' = "blow" /\ UNCHANGED fault
  /\ UNCHANGED <<persistent, applet, snvs, osv, top>>

BlowFlag ==
  /\ sm = "blow"
  /\ \/ flag' = TRUE /\ sm' = "program" /\ UNCHANGED fault
     \/ flag' \in BOOLEAN /\ Fatal /\ Fault
  /\ UNCHANGED <<fake, hab, keyed, epoch, user, applet, snvs, osv, top>>

ProgramKey ==
  /\ sm = "program"
  /\ \/ ~keyed /\ keyed' = TRUE /\ sm' = "check" /\ UNCHANGED fault
     \/ keyed /\ Fatal /\ UNCHANGED <<keyed, fault>>
     \/ keyed' \in {keyed, TRUE} /\ Fatal /\ Fault
  /\ UNCHANGED <<fake, hab, flag, epoch, user, applet, snvs, osv, top>>

\* expectedVersion can make a version of what the sector holds
Decodes(s) == ~fake /\ epoch[s] \notin Long

\* checkVersion's first case
LessThanOrEqual(v, s) == v <= epoch[s]
LessThan(v, s) == v < epoch[s]

UpdateVersionNever(s, v, ok) == ok /\ UNCHANGED <<epoch, fault>>
UpdateVersionErases(s, v, ok) ==
  \/ ok /\ epoch' = [epoch EXCEPT ![s] = v] /\ UNCHANGED fault
  \/ ~ok /\ epoch' = [epoch EXCEPT ![s] = 0] /\ Fault
UpdateVersionNext(s, v, ok) ==
  ok /\ epoch' = [epoch EXCEPT ![s] = v + 1] /\ UNCHANGED fault
UpdateVersionShared(s, v, ok) ==
  ok /\ epoch' = [x \in VSector |-> v] /\ UNCHANGED fault
UpdateVersion(s, v, ok) ==
  \/ ok /\ epoch' = [epoch EXCEPT ![s] = v] /\ UNCHANGED fault
  \/ ~ok /\ epoch' \in {epoch, [epoch EXCEPT ![s] = v]} /\ Fault

\* checkVersion(s, v) returns nil if ok, an error otherwise
CheckVersion(s, v, ok) ==
  \/ v = Unparsable /\ ~ok /\ UNCHANGED <<epoch, fault>>
  \/ v # Unparsable /\ ~ok /\ UNCHANGED epoch /\ Fault           \* Read failed
  \/ v # Unparsable /\ ~Decodes(s) /\ ~ok /\ UNCHANGED <<epoch, fault>>
  \/ /\ v # Unparsable /\ Decodes(s)
     /\ CASE LessThan(v, s) -> ~ok /\ UNCHANGED <<epoch, fault>>
          [] epoch[s] = v -> ok /\ UNCHANGED <<epoch, fault>>
          [] OTHER -> UpdateVersion(s, v, ok)

Accept(s, v) == top' = [top EXCEPT ![s] = IF @ < v THEN v ELSE @]

CheckOS ==
  /\ sm = "check"
  /\ \/ CheckVersion("os", osv, TRUE) /\ sm' = "up" /\ Accept("os", osv)
     \/ CheckVersion("os", osv, FALSE) /\ Fatal /\ UNCHANGED top
  /\ UNCHANGED <<fake, hab, flag, keyed, user, applet, snvs, osv>>

-----------------------------------------------------------------------------
(***************************************************************************)
(* The applet, restarted by main() whenever it stops, and its RPCs.        *)
(***************************************************************************)
StartApplet == /\ sm = "up" /\ ta = "off"
               /\ ta' = "running" /\ reply' = NoReply
               /\ UNCHANGED <<persistent, sm, snvs, osv, tav, fault, top>>

StopApplet == /\ sm = "up" /\ ta # "off"
              /\ ta' = "off"
              /\ UNCHANGED <<persistent, sm, snvs, osv, tav, fault, reply, top>>

\* RPC.Version: the applet reports its own version
VersionRPC ==
  /\ sm = "up" /\ ta \in {"running", "accepted"}
  /\ \/ /\ ~snvs /\ ta' = "accepted"
        /\ UNCHANGED <<epoch, fault, top>>
     \/ /\ snvs /\ CheckVersion("ta", tav, TRUE)
        /\ ta' = "accepted" /\ Accept("ta", tav)
     \/ /\ snvs /\ CheckVersion("ta", tav, FALSE)
        /\ ta' = "stopping" /\ UNCHANGED top
  /\ UNCHANGED <<fake, hab, flag, keyed, user, sm, snvs, osv, tav, reply>>

\* RPMB.transfer(taUserSector, buf, n, write): after a failed transfer the error
\* of Counter(true) replaces that of the transfer.  n is never nil: net/rpc
\* allocates the reply.  A transfer of more than 256 bytes is not made.
FakeTransfer(ok, done) == fake /\ reply' = [err |-> ~ok, done |-> done]
Transfer(ok, done) ==
  \/ FakeTransfer(ok, done)
  \/ ~fake /\ \E err \in {FALSE, ~ok} : reply' = [err |-> err, done |-> done]
TooLong == Transfer(FALSE, FALSE) /\ UNCHANGED <<user, fault>>

\* r.partition is nil unless RPMB.init ran: rpmb.RPMB.op locks a nil mutex
NilPartition == ~fake /\ ~snvs /\ Fatal /\ UNCHANGED <<user, fault, reply>>

WriteRPMB ==
  /\ sm = "up" /\ ta \in {"running", "accepted"}
  /\ \/ NilPartition
     \/ /\ fake \/ snvs
        /\ \/ TooLong
           \/ \E buf \in Value :
                \/ user' = buf /\ Transfer(TRUE, TRUE) /\ UNCHANGED fault
                \/ user' = buf /\ Transfer(FALSE, TRUE) /\ Fault
                \/ UNCHANGED user /\ Transfer(FALSE, buf = user) /\ Fault
        /\ UNCHANGED sm
  /\ UNCHANGED <<fake, hab, flag, keyed, epoch, snvs, osv, ta, tav, top>>

ReadRPMB ==
  /\ sm = "up" /\ ta \in {"running", "accepted"}
  /\ \/ NilPartition
     \/ /\ fake \/ snvs
        /\ \/ TooLong
           \/ Transfer(TRUE, TRUE) /\ UNCHANGED <<user, fault>>
           \/ Transfer(FALSE, FALSE) /\ Fault /\ UNCHANGED user
        /\ UNCHANGED sm
  /\ UNCHANGED <<fake, hab, flag, keyed, epoch, snvs, osv, ta, tav, top>>

\* HAB activation, over the control interface or by the applet
ActivateHAB == /\ sm = "up" /\ ~snvs
               /\ hab' = TRUE
               /\ UNCHANGED <<fake, flag, keyed, epoch, user, applet,
                              sm, snvs, osv, fault, top>>

PowerCycle == /\ sm' = "off" /\ snvs' = FALSE /\ osv' = Unparsable
              /\ ta' = "off" /\ tav' = Unparsable
              /\ fault' = FALSE /\ reply' = NoReply
              /\ user' = IF fake THEN Blank ELSE user
              /\ UNCHANGED <<fake, hab, flag, keyed, epoch, top>>

\* A step while the power is on
Step == \/ InitPartition \/ BlowFlag \/ ProgramKey \/ CheckOS
        \/ StartApplet \/ StopApplet \/ VersionRPC \/ WriteRPMB \/ ReadRPMB
        \/ ActivateHAB

Next == Boot \/ Step \/ PowerCycle

Spec == Init /\ [][Next]_vars
-----------------------------------------------------------------------------
TypeOK ==
  /\ fake \in BOOLEAN /\ hab \in BOOLEAN /\ flag \in BOOLEAN /\ keyed \in BOOLEAN
  /\ epoch \in [VSector -> Version \cup {0}] /\ user \in Value
  /\ sm \in {"off", "init", "blow", "program", "check", "up", "halted"}
  /\ snvs \in BOOLEAN /\ osv \in Running /\ tav \in Running
  /\ ta \in {"off", "running", "accepted", "stopping"}
  /\ fault \in BOOLEAN
  /\ reply \in [err: BOOLEAN, done: BOOLEAN]
  /\ top \in [VSector -> Version \cup {0}]

\* With secure boot on, the OS that is up, and the applet that Version has
\* accepted, are never older than one accepted before, in this or any earlier
\* power cycle: checkVersion refuses an older version and stores a newer one
\* before it returns nil, and a store that fails halfway is not accepted.
NoRollback ==
  snvs => /\ sm = "up" => osv # Unparsable /\ osv >= top["os"]
          /\ ta = "accepted" => tav # Unparsable /\ tav >= top["ta"]

\* No step, including failed and interrupted updates and the applet's own RPMB
\* writes, lowers a stored version.
EpochsMonotone == [][\A s \in VSector : epoch'[s] >= epoch[s]]_vars

\* The OS halts at boot only for a hardware failure in this boot, a version
\* that is older than the stored one or does not parse, a stored version
\* expectedVersion cannot decode (any, in a fake RPMB), or a flag blown without
\* a key: any other device, whatever failed in earlier boots, comes up.
HaltsForAReason ==
  sm = "halted" /\ snvs =>
    \/ fault
    \/ osv = Unparsable \/ osv < epoch["os"]
    \/ ~Decodes("os")
    \/ flag /\ ~keyed

\* WriteRPMB and ReadRPMB "perform an authenticated data transfer": when one
\* returns nil, the transfer has been done.
TransferReported == ~reply.err => reply.done
=============================================================================
