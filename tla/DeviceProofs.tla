---------------------------- MODULE DeviceProofs ----------------------------
(***************************************************************************)
(* Rollback protection for any set of versions, and its composition with   *)
(* updates and boots, for any images: what Rollback promises holds on the  *)
(* device, and an update to a version that is not older is never refused.  *)
(***************************************************************************)
EXTENDS Device, TLAPS

(***************************************************************************)
(* The inductive invariant of Rollback.  A version is accepted only when   *)
(* it equals the stored one, which bounds everything accepted before; the  *)
(* applet runs only while main() is past the boot sequence; the card gets  *)
(* its key only after the flag is blown.                                   *)
(***************************************************************************)
Stored == \A s \in VSector : top[s] <= epoch[s]
Accepted == snvs => /\ sm = "up" => osv # Unparsable /\ osv = epoch["os"]
                    /\ ta = "accepted" => tav # Unparsable /\ tav = epoch["ta"]
AppletLate == ta # "off" => sm \in {"up", "halted"}
KeyAfterFlag == /\ keyed => flag
                /\ sm = "blow" => ~flag
                /\ sm = "program" => flag /\ ~keyed

IInv == TypeOK /\ Stored /\ Accepted /\ AppletLate /\ KeyAfterFlag /\ HaltsForAReason

\* Stored versions are numbers.
LEMMA VersionsNat == \A v \in Version \cup {0} : v \in Nat
  BY VersionAssumption

\* checkVersion never lowers a stored version; it returns nil only with the
\* stored version equal to the one that was checked, and an error without a
\* hardware fault only for one of its three reasons.
LEMMA CheckVersionLemma ==
  ASSUME NEW s \in VSector, NEW v \in Running, NEW ok \in BOOLEAN,
         epoch \in [VSector -> Version \cup {0}], fault \in BOOLEAN,
         CheckVersion(s, v, ok)
  PROVE  /\ epoch' \in [VSector -> Version \cup {0}]
         /\ fault' \in BOOLEAN
         /\ epoch'[s] >= epoch[s]
         /\ \A r \in VSector \ {s} : epoch'[r] = epoch[r]
         /\ ok => v # Unparsable /\ v \in Version /\ epoch'[s] = v
         /\ ~ok => \/ fault'
                   \/ v = Unparsable
                   \/ ~Decodes(s) /\ epoch' = epoch
                   \/ v < epoch[s] /\ epoch' = epoch
         /\ fault => fault'
<1> USE VersionAssumption DEF Running, Decodes, Fault
<1>1. CASE v = Unparsable
  BY <1>1 DEF CheckVersion
<1>2. CASE v # Unparsable /\ ~ok /\ UNCHANGED epoch /\ Fault
  BY <1>2 DEF CheckVersion
<1>3. CASE v # Unparsable /\ ~Decodes(s) /\ ~ok /\ UNCHANGED <<epoch, fault>>
  BY <1>3 DEF CheckVersion
<1>4. CASE /\ v # Unparsable /\ Decodes(s)
           /\ CASE LessThan(v, s) -> ~ok /\ UNCHANGED <<epoch, fault>>
                [] epoch[s] = v -> ok /\ UNCHANGED <<epoch, fault>>
                [] OTHER -> UpdateVersion(s, v, ok)
  <2>1. v \in Version /\ v \in Nat /\ epoch[s] \in Nat
    BY <1>4
  <2>2. CASE LessThan(v, s)
    BY <1>4, <2>1, <2>2 DEF LessThan
  <2>3. CASE ~LessThan(v, s) /\ epoch[s] = v
    BY <1>4, <2>1, <2>3 DEF LessThan
  <2>4. CASE ~LessThan(v, s) /\ epoch[s] # v
    <3>1. UpdateVersion(s, v, ok) /\ v >= epoch[s]
      BY <1>4, <2>1, <2>4 DEF LessThan
    <3>2. [epoch EXCEPT ![s] = v] \in [VSector -> Version \cup {0}]
      BY <2>1
    <3>3. \/ ok /\ epoch' = [epoch EXCEPT ![s] = v] /\ fault' = fault
          \/ ~ok /\ epoch' = epoch /\ fault' = TRUE
          \/ ~ok /\ epoch' = [epoch EXCEPT ![s] = v] /\ fault' = TRUE
      BY <3>1 DEF UpdateVersion
    <3>4. CASE ~ok /\ epoch' = epoch /\ fault' = TRUE
      BY <3>4, <2>1
    <3>5. CASE ok /\ epoch' = [epoch EXCEPT ![s] = v] /\ fault' = fault
      BY <3>1, <3>2, <3>5, <2>1
    <3>6. CASE ~ok /\ epoch' = [epoch EXCEPT ![s] = v] /\ fault' = TRUE
      BY <3>1, <3>2, <3>6, <2>1
    <3> QED
      BY Zenon, <3>3, <3>4, <3>5, <3>6
  <2> QED
    BY <2>2, <2>3, <2>4
<1> QED
  BY Zenon, <1>1, <1>2, <1>3, <1>4 DEF CheckVersion

\* transfer() reports an error flag and (for the model)
\* whether the data was transferred.
LEMMA TransferType ==
  ASSUME NEW ok \in BOOLEAN, NEW done \in BOOLEAN, Transfer(ok, done)
  PROVE  reply' \in [err: BOOLEAN, done: BOOLEAN]
<1>1. \E e \in BOOLEAN : reply' = [err |-> e, done |-> done]
  BY Zenon DEF Transfer, FakeTransfer
<1> QED
  BY <1>1

\* A device that was never booted satisfies the invariant.
LEMMA InitInv == Init => IInv
<1> SUFFICES ASSUME Init PROVE IInv
  OBVIOUS
<1>1. TypeOK
  BY Zenon, VersionAssumption DEF Init, TypeOK, Running, NoReply, VSector
<1>2. Stored
  BY DEF Init, Stored, VSector
<1> QED
  BY <1>1, <1>2 DEF Init, IInv, Accepted, AppletLate, KeyAfterFlag, HaltsForAReason

\* Every step of the boot sequence, of the applet and of the environment keeps
\* the invariant.
LEMMA NextInv == IInv /\ [Next]_vars => IInv'
<1> SUFFICES ASSUME IInv, [Next]_vars PROVE IInv'
  OBVIOUS
<1> USE VersionAssumption DEF IInv
<1> USE DEF persistent, applet, Fatal, Fault
<1>0. \A s \in VSector : top[s] \in Nat /\ epoch[s] \in Nat /\ top[s] <= epoch[s]
  <2>1. top \in [VSector -> Version \cup {0}] /\ epoch \in [VSector -> Version \cup {0}]
    BY DEF TypeOK
  <2> QED
    BY Zenon, <2>1, VersionsNat DEF Stored
<1>1. CASE Boot
  BY Zenon, <1>1 DEF Boot, TypeOK, Stored, Accepted, AppletLate, KeyAfterFlag, HaltsForAReason, Decodes
<1>2. CASE InitPartition
  BY ZenonT(30), <1>2 DEF InitPartition, FakeInit, TypeOK, Stored, Accepted, AppletLate, KeyAfterFlag, HaltsForAReason, Decodes
<1>3. CASE BlowFlag
  BY Zenon, <1>3 DEF BlowFlag, TypeOK, Stored, Accepted, AppletLate, KeyAfterFlag, HaltsForAReason, Decodes
<1>4. CASE ProgramKey
  BY Zenon, <1>4 DEF ProgramKey, TypeOK, Stored, Accepted, AppletLate, KeyAfterFlag, HaltsForAReason, Decodes
<1>5. CASE CheckOS
  <2> USE <1>5 DEF CheckOS
  <2>1. sm = "check" /\ ta = "off" /\ "os" \in VSector /\ osv \in Running
    BY DEF AppletLate, TypeOK, VSector
  <2>2. CASE CheckVersion("os", osv, TRUE) /\ sm' = "up" /\ Accept("os", osv)
    <3>1. /\ epoch' \in [VSector -> Version \cup {0}] /\ fault' \in BOOLEAN
          /\ epoch'["os"] >= epoch["os"] /\ epoch'["ta"] = epoch["ta"]
          /\ osv # Unparsable /\ osv \in Version /\ epoch'["os"] = osv
      BY Zenon, <2>1, <2>2, CheckVersionLemma DEF TypeOK, VSector
    <3>2. top' \in [VSector -> Version \cup {0}]
      BY <3>1, <2>2 DEF Accept, TypeOK, VSector
    <3>3. \A s \in VSector : top'[s] <= epoch'[s]
      BY <1>0, <3>1, <2>2 DEF Accept, TypeOK, VSector
    <3> QED
      BY <2>1, <2>2, <3>1, <3>2, <3>3 DEF Stored, TypeOK, Accepted, AppletLate, KeyAfterFlag, HaltsForAReason
  <2>3. CASE CheckVersion("os", osv, FALSE) /\ Fatal /\ UNCHANGED top
    <3>1. /\ epoch' \in [VSector -> Version \cup {0}] /\ fault' \in BOOLEAN
          /\ epoch'["os"] >= epoch["os"] /\ epoch'["ta"] = epoch["ta"]
          /\ \/ fault' \/ osv = Unparsable
             \/ ~Decodes("os") /\ epoch' = epoch
             \/ osv < epoch["os"] /\ epoch' = epoch
      BY Zenon, <2>1, <2>3, CheckVersionLemma DEF TypeOK, VSector
    <3>2. \A s \in VSector : top'[s] <= epoch'[s]
      <4>1. \A s \in VSector : epoch'[s] \in Nat
        BY Zenon, <3>1, VersionsNat
      <4>2. \A s \in VSector : epoch[s] <= epoch'[s]
        BY <1>0, <3>1, <4>1 DEF VSector
      <4>3. top' = top
        BY <2>3
      <4> QED
        BY <1>0, <4>1, <4>2, <4>3
    <3> QED
      BY <2>1, <2>3, <3>1, <3>2 DEF Stored, TypeOK, Accepted, AppletLate, KeyAfterFlag, HaltsForAReason, Decodes
  <2> QED
    BY Zenon, <2>2, <2>3
<1>6. CASE StartApplet
  BY <1>6 DEF StartApplet, NoReply, TypeOK, Stored, Accepted, AppletLate, KeyAfterFlag, HaltsForAReason, Decodes
<1>7. CASE StopApplet
  BY <1>7 DEF StopApplet, TypeOK, Stored, Accepted, AppletLate, KeyAfterFlag, HaltsForAReason, Decodes
<1>8. CASE VersionRPC
  <2> USE <1>8 DEF VersionRPC
  <2>1. "ta" \in VSector /\ tav \in Running /\ sm = "up" /\ sm' = "up"
    BY DEF TypeOK, VSector
  <2>2. CASE ~snvs /\ ta' = "accepted" /\ UNCHANGED <<epoch, fault, top>>
    BY <2>1, <2>2 DEF TypeOK, Stored, Accepted, AppletLate, KeyAfterFlag, HaltsForAReason
  <2>3. CASE snvs /\ CheckVersion("ta", tav, TRUE) /\ ta' = "accepted" /\ Accept("ta", tav)
    <3>1. /\ epoch' \in [VSector -> Version \cup {0}] /\ fault' \in BOOLEAN
          /\ epoch'["ta"] >= epoch["ta"] /\ epoch'["os"] = epoch["os"]
          /\ tav # Unparsable /\ tav \in Version /\ epoch'["ta"] = tav
      BY Zenon, <2>1, <2>3, CheckVersionLemma DEF TypeOK, VSector
    <3>2. top' \in [VSector -> Version \cup {0}]
      BY <3>1, <2>3 DEF Accept, TypeOK, VSector
    <3>3. \A s \in VSector : top'[s] <= epoch'[s]
      BY <1>0, <3>1, <2>3 DEF Accept, TypeOK, VSector
    <3> QED
      BY <2>1, <2>3, <3>1, <3>2, <3>3 DEF Stored, TypeOK, Accepted, AppletLate, KeyAfterFlag, HaltsForAReason
  <2>4. CASE snvs /\ CheckVersion("ta", tav, FALSE) /\ ta' = "stopping" /\ UNCHANGED top
    <3>1. /\ epoch' \in [VSector -> Version \cup {0}] /\ fault' \in BOOLEAN
          /\ epoch'["ta"] >= epoch["ta"] /\ epoch'["os"] = epoch["os"]
      BY Zenon, <2>1, <2>4, CheckVersionLemma DEF TypeOK, VSector
    <3>2. \A s \in VSector : top'[s] <= epoch'[s]
      <4>1. \A s \in VSector : epoch'[s] \in Nat
        BY Zenon, <3>1, VersionsNat
      <4>2. \A s \in VSector : epoch[s] <= epoch'[s]
        BY <1>0, <3>1, <4>1 DEF VSector
      <4>3. top' = top
        BY <2>4
      <4> QED
        BY <1>0, <4>1, <4>2, <4>3
    <3> QED
      BY <2>1, <2>4, <3>1, <3>2 DEF Stored, TypeOK, Accepted, AppletLate, KeyAfterFlag, HaltsForAReason
  <2> QED
    BY Zenon, <2>2, <2>3, <2>4
<1>9. CASE WriteRPMB
  <2>1. /\ user' \in Value /\ fault' \in BOOLEAN
        /\ reply' \in [err: BOOLEAN, done: BOOLEAN]
    <3>1. \/ reply' = reply
          \/ \E ok \in BOOLEAN, done \in BOOLEAN : Transfer(ok, done)
      BY <1>9, Zenon DEF WriteRPMB, NilPartition, TooLong
    <3>2. user' \in Value /\ fault' \in BOOLEAN
      BY Zenon, <1>9 DEF WriteRPMB, NilPartition, TooLong, TypeOK
    <3> QED
      BY <3>1, <3>2, TransferType DEF TypeOK
  <2>2. \/ ~snvs /\ sm' = "halted"
        \/ sm' = sm
    BY Zenon, <1>9 DEF WriteRPMB, NilPartition, TooLong
  <2> QED
    BY <1>9, <2>1, <2>2 DEF WriteRPMB, TypeOK, Stored, Accepted, AppletLate,
       KeyAfterFlag, HaltsForAReason
<1>10. CASE ReadRPMB
  <2>1. /\ user' \in Value /\ fault' \in BOOLEAN
        /\ reply' \in [err: BOOLEAN, done: BOOLEAN]
    <3>1. \/ reply' = reply
          \/ \E ok \in BOOLEAN, done \in BOOLEAN : Transfer(ok, done)
      BY <1>10, Zenon DEF ReadRPMB, NilPartition, TooLong
    <3>2. user' \in Value /\ fault' \in BOOLEAN
      BY Zenon, <1>10 DEF ReadRPMB, NilPartition, TooLong, TypeOK
    <3> QED
      BY <3>1, <3>2, TransferType DEF TypeOK
  <2>2. \/ ~snvs /\ sm' = "halted"
        \/ sm' = sm
    BY Zenon, <1>10 DEF ReadRPMB, NilPartition, TooLong
  <2> QED
    BY <1>10, <2>1, <2>2 DEF ReadRPMB, TypeOK, Stored, Accepted, AppletLate,
       KeyAfterFlag, HaltsForAReason
<1>11. CASE ActivateHAB
  BY <1>11 DEF ActivateHAB, TypeOK, Stored, Accepted, AppletLate, KeyAfterFlag, HaltsForAReason, Decodes
<1>12. CASE PowerCycle
  BY Zenon, <1>12 DEF PowerCycle, NoReply, Running, TypeOK, Stored, Accepted, AppletLate, KeyAfterFlag, HaltsForAReason, Decodes
<1>13. CASE UNCHANGED vars
  BY <1>13 DEF vars, TypeOK, Stored, Accepted, AppletLate, KeyAfterFlag, HaltsForAReason, Decodes
<1> QED
  BY <1>1, <1>2, <1>3, <1>4, <1>5, <1>6, <1>7, <1>8, <1>9, <1>10, <1>11, <1>12, <1>13 DEF Next, Step

\* The invariant holds in every reachable state.
LEMMA Invariance == Spec => []IInv
  BY InitInv, NextInv, PTL DEF Spec

\* Every variable stays within its type.
THEOREM TypeCorrect == Spec => []TypeOK
  BY Invariance, PTL DEF IInv

\* With secure boot on, nothing older than a version accepted before is accepted.
THEOREM RollbackPrevented == Spec => []NoRollback
<1>1. IInv => NoRollback
  BY VersionAssumption DEF IInv, TypeOK, Stored, Accepted, NoRollback, VSector, Running
<1> QED
  BY <1>1, Invariance, PTL

\* A device whose card works, whose key was programmed and whose stored version
\* decodes halts at boot only for an OS that is too old.
THEOREM HaltsJustified == Spec => []HaltsForAReason
  BY Invariance, PTL DEF IInv

\* Stored versions only grow.
THEOREM EpochsGrow == Spec => EpochsMonotone
<1>1. IInv /\ [Next]_vars => [\A s \in VSector : epoch'[s] >= epoch[s]]_vars
  <2> SUFFICES ASSUME IInv, Next PROVE \A s \in VSector : epoch'[s] >= epoch[s]
    OBVIOUS
  <2> USE DEF persistent, applet
  <2>0. \A s \in VSector : epoch[s] \in Nat
    <3>1. epoch \in [VSector -> Version \cup {0}]
      BY DEF IInv, TypeOK
    <3> QED
      BY <3>1, VersionsNat
  <2>1. CASE CheckOS
    <3>1. PICK ok \in BOOLEAN : CheckVersion("os", osv, ok)
      BY Zenon, <2>1 DEF CheckOS
    <3> QED
      BY <3>1, <2>0, CheckVersionLemma DEF IInv, TypeOK, VSector
  <2>2. CASE VersionRPC
    <3>1. epoch' = epoch \/ \E ok \in BOOLEAN : CheckVersion("ta", tav, ok)
      BY Zenon, <2>2 DEF VersionRPC
    <3>2. CASE epoch' = epoch
      BY <3>2, <2>0
    <3>3. CASE \E ok \in BOOLEAN : CheckVersion("ta", tav, ok)
      BY <3>3, <2>0, CheckVersionLemma DEF IInv, TypeOK, VSector
    <3> QED
      BY <3>1, <3>2, <3>3
  <2>3. CASE epoch' = epoch
    BY <2>0, <2>3
  <2> QED
    BY Zenon, <2>1, <2>2, <2>3 DEF Next, Step, Boot, InitPartition, FakeInit, BlowFlag, ProgramKey, StartApplet,
       StopApplet, WriteRPMB, ReadRPMB, ActivateHAB, PowerCycle
<1> QED
  BY <1>1, Invariance, PTL DEF Spec, EpochsMonotone
-----------------------------------------------------------------------------
(***************************************************************************)
(* The inductive invariant of the device, on top of that of Rollback.  A   *)
(* version is stored only while an image of that version runs, and without *)
(* SNVS none is ever stored; so what is stored stays below an image that   *)
(* an accepted one installed, until that image itself runs and stores its  *)
(* own.                                                                    *)
(***************************************************************************)
Versions == /\ sm = "off" => running = Store!Nothing
            /\ sm # "off" => /\ installed \in [VSector -> Image]
                             /\ osv = VersionOf[installed["os"]]
                             /\ tav = VersionOf[installed["ta"]]
CheckedLate == sm \in {"init", "blow", "program", "check"} => snvs /\ ta = "off"
NoneStored == /\ snvs => hab
              /\ ~hab \/ (sm # "off" /\ ~snvs) => \A s \in VSector : epoch[s] = 0
Above == \A t \in VSector :
           origin[t] = "forward" /\ installed \in [VSector -> Image] =>
             VersionOf[installed[t]] \in Version /\ VersionOf[installed[t]] >= epoch[t]
StopsForAReason == ta = "stopping" =>
  fault \/ tav = Unparsable \/ tav < epoch["ta"] \/ ~Decodes("ta")

DInv == IInv /\ DTypeOK /\ Versions /\ CheckedLate /\ NoneStored /\ Above /\ StopsForAReason

\* Every step of the device is one of Rollback.
LEMMA DeviceStep == [DNext]_dvars => [Next]_vars
  BY DEF DNext, dvars, PowerOn, PowerLoss, Inside, Damage, Provision, Update, Next

\* The composition restricts Rollback: the versions that boot are those of the
\* installed images.
THEOREM DeviceImplementsRollback == DSpec => Spec
<1>1. DInit => Init
  BY DEF DInit
<1> QED
  BY <1>1, DeviceStep, PTL DEF DSpec, Spec

\* No update, boot or failure brings up an OS, or an applet that is accepted,
\* older than one accepted before.
THEOREM DeviceNoRollback == DSpec => []NoRollback
  BY DeviceImplementsRollback, RollbackPrevented, PTL

\* A stored version changes only to the version that is running, with SNVS.
LEMMA StoresRunning ==
  ASSUME IInv, CheckedLate, Step
  PROVE  \/ epoch' = epoch
         \/ /\ snvs /\ sm # "off"
            /\ osv \in Version /\ epoch'["os"] = osv /\ epoch'["ta"] = epoch["ta"]
         \/ /\ snvs /\ sm # "off"
            /\ tav \in Version /\ epoch'["ta"] = tav /\ epoch'["os"] = epoch["os"]
<1> USE DEF persistent, applet
<1>0. epoch \in [VSector -> Version \cup {0}] /\ osv \in Running /\ tav \in Running
  BY DEF IInv, TypeOK
<1>1. ASSUME NEW s \in VSector, NEW v \in Running, NEW ok \in BOOLEAN, CheckVersion(s, v, ok)
      PROVE  epoch' = epoch \/ (v \in Version /\ epoch' = [epoch EXCEPT ![s] = v])
  BY <1>1 DEF CheckVersion, UpdateVersion, Running
<1>2. CASE CheckOS
  <2>1. PICK ok \in BOOLEAN : CheckVersion("os", osv, ok)
    BY Zenon, <1>2 DEF CheckOS
  <2>2. epoch' = epoch \/ (osv \in Version /\ epoch' = [epoch EXCEPT !["os"] = osv])
    BY <1>0, <1>1, <2>1 DEF VSector
  <2> QED
    BY <1>0, <1>2, <2>2 DEF CheckOS, CheckedLate, VSector
<1>3. CASE VersionRPC
  <2>1. epoch' = epoch \/ (snvs /\ \E ok \in BOOLEAN : CheckVersion("ta", tav, ok))
    BY Zenon, <1>3 DEF VersionRPC
  <2>2. epoch' = epoch \/ (snvs /\ tav \in Version /\ epoch' = [epoch EXCEPT !["ta"] = tav])
    BY <1>0, <1>1, <2>1 DEF VSector
  <2> QED
    BY <1>0, <1>3, <2>2 DEF VersionRPC, VSector
<1> QED
  BY Zenon, <1>2, <1>3 DEF Step, InitPartition, FakeInit, BlowFlag, ProgramKey, StartApplet, StopApplet,
     WriteRPMB, ReadRPMB, ActivateHAB

\* A step of Rollback keeps the applet's refusal justified.
LEMMA StepStops ==
  ASSUME IInv, StopsForAReason, CheckedLate, Step
  PROVE  StopsForAReason'
<1> USE DEF persistent, applet, StopsForAReason, Decodes
<1>1. CASE VersionRPC
  <2>1. CASE ta' = "accepted"
    BY <2>1
  <2>2. CASE snvs /\ CheckVersion("ta", tav, FALSE)
    <3>1. \/ fault' \/ tav = Unparsable
          \/ ~Decodes("ta") /\ epoch' = epoch
          \/ tav < epoch["ta"] /\ epoch' = epoch
      BY Zenon, <2>2, CheckVersionLemma DEF IInv, TypeOK, VSector
    <3> QED
      BY <1>1, <3>1 DEF VersionRPC
  <2> QED
    BY <1>1, <2>1, <2>2 DEF VersionRPC
<1>2. CASE CheckOS
  BY <1>2 DEF CheckOS, CheckedLate
<1>3. CASE WriteRPMB \/ ReadRPMB
  BY Zenon, <1>3 DEF WriteRPMB, ReadRPMB, NilPartition, TooLong, Fault, IInv, TypeOK
<1> QED
  BY Zenon, <1>1, <1>2, <1>3 DEF Step, InitPartition, FakeInit, BlowFlag, ProgramKey, StartApplet, StopApplet,
     ActivateHAB, Fault, CheckedLate, Fatal

\* A device that was never booted satisfies the invariant.
LEMMA DInitInv == DInit => DInv
<1> SUFFICES ASSUME DInit PROVE DInv
  OBVIOUS
<1>1. IInv
  BY InitInv DEF DInit
<1>2. DTypeOK
  BY <1>1 DEF DInit, DTypeOK, IInv, Store!Init, Store!Type, VSector
<1> QED
  BY <1>1, <1>2 DEF DInit, Init, DInv, Versions, CheckedLate, NoneStored, Above, StopsForAReason,
     VSector, Store!Init

\* Every step of the device keeps the invariant.
LEMMA DNextInv == DInv /\ [DNext]_dvars => DInv'
<1> SUFFICES ASSUME DInv, [DNext]_dvars PROVE DInv'
  OBVIOUS
<1>0. IInv' /\ TypeOK'
  BY DeviceStep, NextInv DEF DInv, IInv
<1>1. CASE PowerOn
  <2> USE <1>1 DEF PowerOn, Boot, Store!Boot, DInv, persistent
  <2>1. DTypeOK' /\ Versions'
    <3>1. sm' # "off"
      BY DEF Fatal
    <3> QED
      BY <1>0, <3>1 DEF DTypeOK, Versions
  <2>2. CheckedLate' /\ NoneStored' /\ StopsForAReason'
    BY DEF CheckedLate, NoneStored, StopsForAReason, IInv, AppletLate, Fatal
  <2>3. Above'
    BY DEF Above
  <2> QED
    BY <1>0, <2>1, <2>2, <2>3
<1>2. CASE PowerLoss \/ Damage
  <2> USE <1>2 DEF PowerLoss, Damage, PowerCycle, Store!PowerOff, Store!Damage, DInv
  <2>1. DTypeOK' /\ Versions'
    BY <1>0 DEF DTypeOK, Versions
  <2>2. CheckedLate' /\ NoneStored' /\ StopsForAReason'
    BY DEF CheckedLate, NoneStored, StopsForAReason
  <2>3. Above'
    <3>1. CASE installed' = installed
      BY <3>1 DEF Above
    <3>2. CASE installed' = Store!Nothing
      BY <3>2, ImageAssumption DEF Above, Store!Nothing, Store!Type, VSector
    <3> QED
      BY <3>1, <3>2
  <2> QED
    BY <1>0, <2>1, <2>2, <2>3
<1>3. CASE Provision
  <2> USE <1>3 DEF Provision, DInv, vars
  <2>1. DTypeOK' /\ Versions' /\ Above'
    BY <1>0 DEF DTypeOK, Versions, Above
  <2>2. CheckedLate' /\ NoneStored' /\ StopsForAReason'
    BY DEF CheckedLate, NoneStored, StopsForAReason, Decodes
  <2> QED
    BY <1>0, <2>1, <2>2
<1>4. ASSUME NEW t \in VSector, NEW i \in Image, Update(t, i)
      PROVE  DInv'
  <2> USE <1>4 DEF Update, PowerCycle, Store!Install, DInv
  <2>1. installed \in [VSector -> Image]
    BY DEF Versions
  <2>2. DTypeOK' /\ Versions'
    BY <1>0, <2>1 DEF DTypeOK, Versions
  <2>3. CheckedLate' /\ NoneStored' /\ StopsForAReason'
    BY DEF CheckedLate, NoneStored, StopsForAReason
  <2>4. Above'
    <3> SUFFICES ASSUME NEW u \in VSector, origin'[u] = "forward"
                 PROVE  VersionOf[installed'[u]] \in Version /\ VersionOf[installed'[u]] >= epoch[u]
      BY DEF Above
    <3>1. CASE u # t
      BY <3>1, <2>1 DEF Above, DTypeOK
    <3>2. CASE u = t
      <4>1. Forward(t, i) /\ installed'[u] = i
        BY <3>2, <2>1 DEF DTypeOK
      <4> DEFINE v == IF t = "os" THEN osv ELSE tav
      <4>2. v \in Version /\ VersionOf[i] \in Version /\ VersionOf[i] >= v
        BY <4>1 DEF Forward
      <4>3. v \in Nat /\ VersionOf[i] \in Nat
        BY <4>2, VersionAssumption
      <4>4. CASE snvs
        <5>1. v = epoch[t]
          BY <4>1, <4>4 DEF Forward, IInv, Accepted, VSector
        <5> QED
          BY <3>2, <4>1, <4>2, <5>1
      <4>5. CASE ~snvs
        <5>1. epoch[t] = 0
          BY <4>5 DEF NoneStored
        <5> QED
          BY <3>2, <4>1, <4>2, <4>3, <5>1
      <4> QED
        BY <4>4, <4>5
    <3> QED
      BY <3>1, <3>2
  <2> QED
    BY <1>0, <2>2, <2>3, <2>4
<1>5. CASE Inside
  <2> USE <1>5 DEF Inside, DInv
  <2>1. StopsForAReason'
    BY StepStops
  <2>2. /\ sm # "off" /\ sm' # "off" /\ osv' = osv /\ tav' = tav /\ snvs' = snvs
        /\ hab' = hab \/ (sm = "up" /\ ~snvs)
        /\ sm' \in {"init", "blow", "program", "check"} => sm \in {"init", "blow", "program", "check"} /\ ta' = ta
    BY Zenon DEF Step, InitPartition, FakeInit, BlowFlag, ProgramKey, CheckOS, StartApplet, StopApplet, VersionRPC,
       WriteRPMB, ReadRPMB, NilPartition, ActivateHAB, Fatal, applet, persistent
  <2>3. DTypeOK' /\ Versions' /\ CheckedLate'
    BY <1>0, <2>2 DEF DTypeOK, Versions, CheckedLate
  <2>4. \/ epoch' = epoch
        \/ snvs /\ osv \in Version /\ epoch'["os"] = osv /\ epoch'["ta"] = epoch["ta"]
        \/ snvs /\ tav \in Version /\ epoch'["ta"] = tav /\ epoch'["os"] = epoch["os"]
    BY StoresRunning
  <2>5. NoneStored'
    BY <2>2, <2>4 DEF NoneStored
  <2>6. Above'
    <3> SUFFICES ASSUME NEW t \in VSector, origin[t] = "forward", installed \in [VSector -> Image]
                 PROVE  VersionOf[installed[t]] \in Version /\ VersionOf[installed[t]] >= epoch'[t]
      BY DEF Above
    <3>1. CASE epoch'[t] = epoch[t]
      BY <3>1 DEF Above
    <3>2. CASE epoch'[t] = VersionOf[installed[t]]
      <4>1. VersionOf[installed[t]] \in Version
        BY DEF Above
      <4>2. VersionOf[installed[t]] \in Nat
        BY Zenon, <4>1, VersionAssumption
      <4> QED
        BY <3>2, <4>1, <4>2
    <3> QED
      BY <2>2, <2>4, <3>1, <3>2 DEF Versions, VSector
  <2> QED
    BY <1>0, <2>1, <2>3, <2>5, <2>6
<1>6. CASE UNCHANGED dvars
  BY <1>0, <1>6 DEF dvars, vars, DInv, DTypeOK, Versions, CheckedLate, NoneStored, Above,
     StopsForAReason, Decodes
<1> QED
  BY <1>1, <1>2, <1>3, <1>4, <1>5, <1>6 DEF DNext

\* The invariant holds in every reachable state.
LEMMA DInvariance == DSpec => []DInv
  BY DInitInv, DNextInv, PTL DEF DSpec

\* The variables of the device keep their types; what runs is what is installed.
THEOREM DeviceTypes == DSpec => []DTypeOK
  BY DInvariance, PTL DEF DInv

\* A halt at boot always has one of the reasons of HaltsForAReason.
THEOREM DeviceHaltsJustified == DSpec => []HaltsForAReason
  BY DeviceImplementsRollback, HaltsJustified, PTL

\* No step of the device, updates and reflashing included, lowers a stored version.
THEOREM DeviceEpochsGrow == DSpec => EpochsMonotone
  BY DeviceImplementsRollback, EpochsGrow, PTL

\* An update installed by accepted firmware, to a version that is not older than
\* its own, is never refused because of its version.
THEOREM ForwardUpdates == DSpec => []ForwardUpdatesLaunch
<1>1. DInv => ForwardUpdatesLaunch
  <2> SUFFICES ASSUME DInv PROVE ForwardUpdatesLaunch
    OBVIOUS
  <2>1. ASSUME NEW t \in VSector, origin[t] = "forward", sm # "off"
        PROVE  LET v == IF t = "os" THEN osv ELSE tav
               IN v # Unparsable /\ ~(v < epoch[t])
    <3>1. epoch \in [VSector -> Version \cup {0}] /\ epoch[t] \in Nat
      BY VersionsNat DEF DInv, IInv, TypeOK
    <3> DEFINE v == IF t = "os" THEN osv ELSE tav
    <3>2. v \in Version /\ v >= epoch[t]
      BY <2>1 DEF DInv, Above, Versions, VSector
    <3>3. v \in Nat /\ v # Unparsable
      BY Zenon, <3>2, VersionAssumption
    <3> QED
      BY <3>1, <3>2, <3>3
  <2> QED
    BY <2>1 DEF ForwardUpdatesLaunch, Excused, DInv, IInv, HaltsForAReason, AppletLate,
       StopsForAReason, VSector
<1> QED
  BY <1>1, DInvariance, PTL
=============================================================================
