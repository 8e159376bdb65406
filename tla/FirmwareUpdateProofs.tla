------------------------ MODULE FirmwareUpdateProofs ------------------------
(***************************************************************************)
(* The A/B update scheme for any images, any number of pieces and any      *)
(* buffer size: first whatever the card does to the configurations, then   *)
(* as long as it has handled each of them whole or not at all.             *)
(***************************************************************************)
EXTENDS FirmwareUpdate, TLAPS

(***************************************************************************)
(* The inductive invariant.  Before the first fault, and while no update   *)
(* has completed, the OS knows the slot each configuration points to; a    *)
(* running update flashes a verified buffer into the other slot, whose     *)
(* first pieces it has written.                                            *)
(***************************************************************************)
SlotsKnown ==
  power = "on" => \A t \in Type : loaded[t] = conf[t].slot /\ run[t] = conf[t].image

JobSound ==
  job # Idle =>
    /\ power = "on"
    /\ job.slot # conf[job.type].slot
    /\ Verify(job.type, buf[job.type], job.image)
    /\ \A k \in 1..N : k < job.next =>
         slots[job.type][job.slot][k] = PieceOf(job.image, k)

\* The part of it that no fault disturbs: an update goes to the slot that follows
\* from what the OS read at boot, which is where the firmware was started from,
\* or nothing for an OS that could not read its configuration.
SlotRead(t) ==
  from[t] # "none" => loaded[t] = from[t] \/ (t = "os" /\ loaded[t] = "none")

JobVerified ==
  job # Idle => power = "on" /\ Verify(job.type, buf[job.type], job.image)

FInv == /\ TypeOK /\ JobVerified
        /\ job # Idle => job.slot = Target(job.type)
        /\ \A t \in Type : SlotRead(t)

AllBootable == \A t \in Type : Bootable(t)

Good == AllBootable /\ SlotsKnown /\ JobSound

IInv == FInv /\ (faults = 0 => Good)

\* A provisioned device satisfies the invariant.
LEMMA InitInv == Init => IInv
<1> SUFFICES ASSUME Init PROVE IInv
  BY Zenon
<1> USE ConstantAssumption
<1>1. PICK first \in [Type -> Image] :
        /\ \A t \in Type : first[t] \in Logged[t]
        /\ slots = [t \in Type |-> [s \in Slot |-> [k \in 1..N |->
                      IF s = "A" THEN PieceOf(first[t], k) ELSE Junk]]]
        /\ conf = [t \in Type |-> [decodes |-> TRUE, slot |-> "A", image |-> first[t]]]
        /\ power = "off"
        /\ loaded = [t \in Type |-> "none"]
        /\ run = [t \in Type |-> None]
        /\ from = [t \in Type |-> "none"]
        /\ buf = [t \in Type |-> << >>]
        /\ job = Idle /\ faults = 0
  BY Zenon DEF Init
<1>2. TypeOK
  <2>1. \A t \in Type, k \in 1..N : PieceOf(first[t], k) \in Piece
    BY Zenon, <1>1 DEF PieceOf, Piece
  <2>2. slots \in [Type -> [Slot -> [1..N -> Piece \cup {Junk}]]]
    BY Zenon, <1>1, <2>1
  <2>3. conf \in [Type -> [decodes: BOOLEAN, slot: Slot, image: Image]]
    BY Zenon, <1>1 DEF Slot
  <2> QED
    BY <1>1, <2>2, <2>3 DEF TypeOK
<1>3. AllBootable
  BY Zenon, <1>1 DEF AllBootable, Bootable, Holds, Slot
<1> QED
  BY Zenon, <1>1, <1>2, <1>3 DEF IInv, FInv, SlotRead, Good, SlotsKnown, JobSound, JobVerified

\* A firmware buffer extended by a chunk is a sequence of pieces.
LEMMA AppendType ==
  ASSUME TypeOK, NEW t \in Type, NEW first \in BOOLEAN, NEW chunk \in Chunk
  PROVE  buf[t] \in Seq(Piece) /\ Append1(t, first, chunk) \in Seq(Piece)
<1>1. buf[t] \in Seq(Piece)
  BY Zenon DEF TypeOK
<1>2. << >> \in Seq(Piece)
  OBVIOUS
<1>3. chunk \in Seq(Piece)
  <2>1. \A p \in Piece : <<p>> \in Seq(Piece)
    OBVIOUS
  <2> QED
    BY Zenon, <1>2, <2>1 DEF Chunk
<1>4. \A x, y \in Seq(Piece) : x \o y \in Seq(Piece)
  OBVIOUS
<1> QED
  BY Zenon, <1>1, <1>2, <1>3, <1>4 DEF Append1

\* Writing one piece of one slot changes no other slot.
LEMMA WriteSlotLemma ==
  ASSUME NEW sl \in [Type -> [Slot -> [1..N -> Piece \cup {Junk}]]],
         NEW t \in Type, NEW s \in Slot, NEW k \in 1..N, NEW piece \in Piece \cup {Junk}
  PROVE  LET new == [sl EXCEPT ![t][s][k] = piece]
         IN /\ new \in [Type -> [Slot -> [1..N -> Piece \cup {Junk}]]]
            /\ \A r \in Type, q \in Slot : r # t \/ q # s => new[r][q] = sl[r][q]
<1> DEFINE row == [sl[t][s] EXCEPT ![k] = piece]
           both == [sl[t] EXCEPT ![s] = row]
<1>1. sl[t] \in [Slot -> [1..N -> Piece \cup {Junk}]]
  BY Zenon
<1>2. row \in [1..N -> Piece \cup {Junk}]
  BY Zenon, <1>1
<1>3. both \in [Slot -> [1..N -> Piece \cup {Junk}]]
  BY Zenon, <1>1, <1>2
<1>4. [sl EXCEPT ![t][s][k] = piece] = [sl EXCEPT ![t] = both]
  BY Zenon
<1> HIDE DEF both
<1>5. [sl EXCEPT ![t] = both] \in [Type -> [Slot -> [1..N -> Piece \cup {Junk}]]]
  BY Zenon, <1>3
<1>6. \A q \in Slot : q # s => both[q] = sl[t][q]
  BY Zenon, <1>1 DEF both
<1> QED
  BY Zenon, <1>4, <1>5, <1>6

\* A step of flash() writes to the slot of the running update and to no other.
LEMMA FlashPieceLemma ==
  ASSUME TypeOK, JobVerified, FlashPiece
  PROVE  /\ job # Idle /\ job.next \in 1..N
         /\ job \in [type: Type, image: Image, slot: Slot, next: 1 .. N + 1]
         /\ buf[job.type][job.next] = PieceOf(job.image, job.next)
         /\ slots' \in [Type -> [Slot -> [1..N -> Piece \cup {Junk}]]]
         /\ \A r \in Type, q \in Slot :
               r # job.type \/ q # job.slot => slots'[r][q] = slots[r][q]
<1> USE ConstantAssumption
<1>1. /\ job # Idle /\ job.next \in 1..N
      /\ job \in [type: Type, image: Image, slot: Slot, next: 1 .. N + 1]
  BY DEF FlashPiece, TypeOK
<1>2. /\ buf[job.type][job.next] = PieceOf(job.image, job.next)
      /\ buf[job.type][job.next] \in Piece
  BY <1>1 DEF JobVerified, Verify, PieceOf, Piece
<1>3. \/ slots' = slots
      \/ \E piece \in Piece \cup {Junk} :
           slots' = [slots EXCEPT ![job.type][job.slot][job.next] = piece]
  BY Zenon, <1>2 DEF FlashPiece, WriteSlot
<1>4. CASE slots' = slots
  BY Zenon, <1>1, <1>2, <1>4 DEF TypeOK
<1>5. CASE \E piece \in Piece \cup {Junk} :
             slots' = [slots EXCEPT ![job.type][job.slot][job.next] = piece]
  <2>1. PICK piece \in Piece \cup {Junk} :
          slots' = [slots EXCEPT ![job.type][job.slot][job.next] = piece]
    BY Zenon, <1>5
  <2>2. slots \in [Type -> [Slot -> [1..N -> Piece \cup {Junk}]]]
    BY Zenon DEF TypeOK
  <2> QED
    BY <1>1, <1>2, <2>1, <2>2, WriteSlotLemma
<1> QED
  BY Zenon, <1>3, <1>4, <1>5

-----------------------------------------------------------------------------
(***************************************************************************)
(* Any card.                                                               *)
(***************************************************************************)
\* Every step keeps the part of the invariant that no fault disturbs.
LEMMA NextFInv == FInv /\ [Next]_vars => FInv'
<1> SUFFICES ASSUME FInv, [Next]_vars PROVE FInv'
  BY Zenon
<1> USE ConstantAssumption
<1>0. /\ TypeOK /\ JobVerified /\ (job # Idle => job.slot = Target(job.type))
      /\ \A t \in Type : SlotRead(t)
  BY Zenon DEF FInv
<1>1. CASE Boot
  <2>1. PICK readable \in [Type -> BOOLEAN] :
          /\ \/ (\A t \in Type : readable[t]) /\ UNCHANGED faults
             \/ (\E t \in Type : ~readable[t]) /\ Fault
          /\ loaded' = [t \in Type |-> IF readable[t] /\ conf[t].decodes
                                       THEN conf[t].slot ELSE "none"]
          /\ \E ta \in Started(readable["ta"]) :
               /\ run' = [t \in Type |-> IF t = "os" THEN conf[t].image ELSE ta]
               /\ from' = [t \in Type |-> IF t = "ta" /\ ta = None
                                          THEN "none" ELSE conf[t].slot]
    BY Zenon, <1>1 DEF Boot
  <2>2. loaded' \in [Type -> Slot \cup {"none"}]
    BY Zenon, <1>0, <2>1 DEF TypeOK
  <2>3. run' \in [Type -> Image \cup {None, Unverified}]
    BY <1>0, <2>1 DEF TypeOK, Started, Type
  <2>4. job = Idle
    BY Zenon, <1>0, <1>1 DEF Boot, JobVerified
  <2>5. faults' \in 0..MaxFaults
    BY <1>0, <2>1 DEF Fault, TypeOK
  <2>6. from' \in [Type -> Slot \cup {"none"}]
    <3>1. \A t \in Type : conf[t].slot \in Slot
      BY Zenon, <1>0 DEF TypeOK
    <3>2. PICK ta : from' = [t \in Type |-> IF t = "ta" /\ ta = None
                                            THEN "none" ELSE conf[t].slot]
      BY Zenon, <2>1
    <3> QED
      BY Zenon, <3>1, <3>2
  <2>7. \A t \in Type : SlotRead(t)'
    <3>1. loaded'["os"] = from'["os"] \/ loaded'["os"] = "none"
      BY Zenon, <2>1 DEF Type
    <3>2. from'["ta"] # "none" => readable["ta"] /\ conf["ta"].decodes
      BY Zenon, <2>1 DEF Started, Type
    <3>3. from'["ta"] # "none" => loaded'["ta"] = from'["ta"]
      BY Zenon, <2>1, <3>2 DEF Type
    <3> QED
      BY Zenon, <3>1, <3>3 DEF SlotRead, Type
  <2> QED
    BY Zenon, <1>0, <1>1, <2>2, <2>3, <2>4, <2>5, <2>6, <2>7 DEF Boot, FInv, TypeOK, JobVerified
<1>2. CASE PowerLoss
  BY <1>0, <1>2 DEF PowerLoss, FInv, TypeOK, JobVerified, SlotRead
<1>3. ASSUME NEW t \in Type, NEW first \in BOOLEAN, NEW chunk \in Chunk,
             InstallChunk(t, first, chunk)
      PROVE  FInv'
  <2>1. buf[t] \in Seq(Piece) /\ Append1(t, first, chunk) \in Seq(Piece)
    BY Zenon, <1>0, AppendType
  <2>2. job = Idle /\ job' = Idle
    BY Zenon, <1>3 DEF InstallChunk, Calls
  <2> QED
    BY Zenon, <1>0, <1>3, <2>1, <2>2 DEF InstallChunk, FInv, TypeOK, JobVerified, SlotRead
<1>4. ASSUME NEW t \in Type, NEW first \in BOOLEAN, NEW chunk \in Chunk,
             NEW i \in Image, InstallFinal(t, first, chunk, i)
      PROVE  FInv'
  <2> DEFINE b == Append1(t, first, chunk)
             j == [type |-> t, image |-> i, slot |-> Target(t), next |-> 1]
  <2>1. /\ buf' = [buf EXCEPT ![t] = b] /\ power = "on"
        /\ job' = j /\ Verify(t, b, i)
        /\ UNCHANGED <<slots, conf, power, loaded, run, from, faults>>
    BY Zenon, <1>4 DEF InstallFinal, Calls
  <2>2. buf[t] \in Seq(Piece) /\ b \in Seq(Piece)
    BY Zenon, <1>0, AppendType
  <2>3. Target(t) \in Slot /\ Target(t)' = Target(t)
    BY Zenon, <2>1 DEF Target, Slot
  <2>4. j \in [type: Type, image: Image, slot: Slot, next: 1 .. N + 1]
    BY <2>3
  <2>5. buf' \in [Type -> Seq(Piece)] /\ buf'[t] = b
    BY Zenon, <1>0, <2>1, <2>2 DEF TypeOK
  <2>6. TypeOK'
    BY Zenon, <1>0, <2>1, <2>4, <2>5 DEF TypeOK
  <2>7. job'.type = t /\ job'.image = i /\ job'.slot = Target(t)
    BY Zenon, <2>1
  <2>8. Verify(t, buf'[t], i)
    BY Zenon, <2>1, <2>5
  <2> QED
    BY Zenon, <1>0, <2>1, <2>3, <2>6, <2>7, <2>8 DEF FInv, JobVerified, Verify, SlotRead, Target
<1>5. CASE FlashPiece
  <2>1. /\ job # Idle /\ job.next \in 1..N
        /\ job \in [type: Type, image: Image, slot: Slot, next: 1 .. N + 1]
        /\ slots' \in [Type -> [Slot -> [1..N -> Piece \cup {Junk}]]]
    BY Zenon, <1>0, <1>5, FlashPieceLemma
  <2>2. UNCHANGED <<conf, power, loaded, run, from, buf, faults>>
    BY Zenon, <1>5 DEF FlashPiece
  <2>3. CASE job' = [job EXCEPT !.next = @ + 1]
    <3>1. /\ job'.type = job.type /\ job'.image = job.image /\ job'.slot = job.slot
          /\ job'.next = job.next + 1
      BY Zenon, <2>1, <2>3
    <3>2. job.next + 1 \in 1 .. N + 1
      BY <2>1
    <3>3. job' \in [type: Type, image: Image, slot: Slot, next: 1 .. N + 1]
      BY Zenon, <2>1, <2>3, <3>2
    <3> QED
      BY Zenon, <1>0, <2>1, <2>2, <3>1, <3>3 DEF FInv, TypeOK, JobVerified, Verify, SlotRead, Target
  <2>4. CASE job' = Idle
    BY Zenon, <1>0, <2>1, <2>2, <2>4 DEF FInv, TypeOK, JobVerified, SlotRead
  <2> QED
    BY Zenon, <1>5, <2>3, <2>4 DEF FlashPiece
<1>6. CASE FlashConf
  <2> DEFINE new == [decodes |-> TRUE, slot |-> job.slot, image |-> job.image]
  <2>1. job \in [type: Type, image: Image, slot: Slot, next: 1 .. N + 1]
    BY Zenon, <1>0, <1>6 DEF FlashConf, TypeOK
  <2>2. new \in [decodes: BOOLEAN, slot: Slot, image: Image]
    BY Zenon, <2>1
  <2>3. \/ conf' = [conf EXCEPT ![job.type] = new]
        \/ conf' = conf
        \/ conf' = [conf EXCEPT ![job.type] = [conf[job.type] EXCEPT !.decodes = FALSE]]
    BY Zenon, <1>6 DEF FlashConf
  <2>4. conf' \in [Type -> [decodes: BOOLEAN, slot: Slot, image: Image]]
    <3>1. conf \in [Type -> [decodes: BOOLEAN, slot: Slot, image: Image]]
      BY Zenon, <1>0 DEF TypeOK
    <3>2. conf[job.type] \in [decodes: BOOLEAN, slot: Slot, image: Image]
      BY Zenon, <2>1, <3>1
    <3>3. [conf[job.type] EXCEPT !.decodes = FALSE]
            \in [decodes: BOOLEAN, slot: Slot, image: Image]
      BY Zenon, <3>2
    <3> DEFINE R == [decodes: BOOLEAN, slot: Slot, image: Image]
               torn == [conf[job.type] EXCEPT !.decodes = FALSE]
    <3>4. conf \in [Type -> R] /\ job.type \in Type /\ new \in R /\ torn \in R
      BY Zenon, <2>1, <2>2, <3>1, <3>3
    <3>5. conf' \in {[conf EXCEPT ![job.type] = new], conf, [conf EXCEPT ![job.type] = torn]}
      BY Zenon, <2>3
    <3> HIDE DEF new, R, torn
    <3>6. conf' \in [Type -> R]
      BY Zenon, <3>4, <3>5
    <3> QED
      BY Zenon, <3>6 DEF R
  <2>5. power' \in {"off", "on", "reboot"}
    BY Zenon, <1>0, <1>6 DEF FlashConf, Reboot, TypeOK
  <2>6. job' = Idle /\ UNCHANGED <<slots, loaded, run, from, buf>>
    BY Zenon, <1>6 DEF FlashConf
  <2>7. faults' \in 0..MaxFaults
    BY SMTT(30), <1>0, <1>6 DEF FlashConf, Fault, TypeOK
  <2> QED
    BY Zenon, <1>0, <2>4, <2>5, <2>6, <2>7 DEF FInv, TypeOK, JobVerified, SlotRead
<1>7. CASE UNCHANGED vars
  BY Zenon, <1>0, <1>7 DEF vars, FInv, TypeOK, JobVerified, Verify, SlotRead, Target
<1> QED
  BY Zenon, <1>1, <1>2, <1>3, <1>4, <1>5, <1>6, <1>7 DEF Next

\* That part holds in every reachable state.
LEMMA FInvariance == Spec => []FInv
<1>1. Init => FInv
  BY Zenon, InitInv DEF IInv
<1>2. FInv /\ [Next]_vars => FInv'
  BY Zenon, NextFInv
<1> QED
  BY <1>1, <1>2, PTL DEF Spec

\* Every variable stays within its type, on any card.
THEOREM TypeCorrect == Spec => []TypeOK
<1>1. Spec => []FInv
  BY Zenon, FInvariance
<1> QED
  BY <1>1, PTL DEF FInv

\* On any card, no step writes to the slot that running firmware was started from,
\* except for an OS in slot A that could not read its configuration after it was
\* started.
THEOREM RunningSlotSafe == Spec => RunningSlotUntouched
<1>1. Spec => []FInv
  BY Zenon, FInvariance
<1>2. FInv /\ [Next]_vars =>
        [\A t \in Type : from[t] # "none" =>
            \/ slots'[t][from[t]] = slots[t][from[t]]
            \/ t = "os" /\ loaded[t] = "none" /\ from[t] = "A"]_vars
  <2> SUFFICES ASSUME FInv, Next, NEW r \in Type, from[r] # "none",
                      ~(r = "os" /\ loaded[r] = "none" /\ from[r] = "A")
               PROVE  slots'[r][from[r]] = slots[r][from[r]]
    BY Zenon
  <2>1. CASE FlashPiece
    <3>1. TypeOK /\ JobVerified /\ from[r] \in Slot
      BY Zenon DEF FInv, TypeOK
    <3>2. loaded[r] = from[r] \/ (loaded[r] = "none" /\ from[r] = "B")
      BY Zenon, <3>1 DEF FInv, SlotRead, Slot
    <3>3. from[r] # Target(r)
      BY Zenon, <3>1, <3>2 DEF Target, Slot
    <3>4. r # job.type \/ from[r] # job.slot
      BY Zenon, <2>1, <3>3 DEF FInv, FlashPiece
    <3> QED
      BY Zenon, <2>1, <3>1, <3>4, FlashPieceLemma
  <2>2. CASE slots' = slots
    BY Zenon, <2>2
  <2> QED
    BY Zenon, <2>1, <2>2 DEF Next, Boot, PowerLoss, FlashConf, InstallChunk, InstallFinal
<1> QED
  BY <1>1, <1>2, PTL DEF Spec, RunningSlotUntouched

-----------------------------------------------------------------------------
(***************************************************************************)
(* Before the first fault.                                                 *)
(***************************************************************************)
\* Steps that leave the card, the configurations and the power alone keep the
\* configurations bootable and the slots known.
LEMMA QuietStep ==
  ASSUME Good, UNCHANGED <<slots, conf, power, loaded, run>>
  PROVE  AllBootable' /\ SlotsKnown'
  BY Zenon DEF Good, AllBootable, Bootable, Holds, SlotsKnown

\* Every step without a fault keeps the rest of the invariant.
LEMMA NextGood ==
  ASSUME TypeOK, faults = 0, Good, [Next]_vars, faults' = 0
  PROVE  Good'
<1> USE ConstantAssumption
<1>0. TypeOK /\ AllBootable /\ SlotsKnown /\ JobSound /\ ~Fault
  BY DEF Good, Fault
<1>1. CASE Boot
  <2>1. \A t \in Type : conf[t].decodes /\ Bootable(t)
    BY Zenon, <1>0 DEF AllBootable, Bootable
  <2>2. PICK readable \in [Type -> BOOLEAN] :
          /\ \/ (\A t \in Type : readable[t]) /\ UNCHANGED faults
             \/ (\E t \in Type : ~readable[t]) /\ Fault
          /\ loaded' = [t \in Type |-> IF readable[t] /\ conf[t].decodes
                                       THEN conf[t].slot ELSE "none"]
          /\ \E ta \in Started(readable["ta"]) :
               run' = [t \in Type |-> IF t = "os" THEN conf[t].image ELSE ta]
    BY Zenon, <1>1 DEF Boot
  <2>3. \A t \in Type : readable[t]
    BY Zenon, <1>0, <2>2
  <2>4. /\ loaded' = [t \in Type |-> conf[t].slot]
        /\ run' = [t \in Type |-> conf[t].image]
    BY Zenon, <2>1, <2>2, <2>3 DEF Started, Type
  <2>5. power' = "on" /\ slots' = slots /\ conf' = conf /\ buf' = buf /\ job' = job
    BY Zenon, <1>1 DEF Boot
  <2>7. AllBootable'
    BY Zenon, <1>0, <2>5 DEF AllBootable, Bootable, Holds
  <2>8. SlotsKnown'
    BY Zenon, <2>4, <2>5 DEF SlotsKnown
  <2>9. JobSound'
    BY Zenon, <1>0, <1>1, <2>5 DEF JobSound, Boot
  <2> QED
    BY Zenon, <2>7, <2>8, <2>9 DEF Good
<1>2. CASE PowerLoss
  <2>1. AllBootable'
    BY Zenon, <1>0, <1>2 DEF AllBootable, Bootable, Holds, PowerLoss
  <2> QED
    BY Zenon, <2>1, <1>2 DEF Good, SlotsKnown, JobSound, PowerLoss
<1>3. ASSUME NEW t \in Type, NEW first \in BOOLEAN, NEW chunk \in Chunk,
             InstallChunk(t, first, chunk)
      PROVE  Good'
  <2>1. /\ buf' = [buf EXCEPT ![t] = Append1(t, first, chunk)]
        /\ UNCHANGED <<slots, conf, power, loaded, run, job>> /\ job = Idle
    BY Zenon, <1>3 DEF InstallChunk, Calls
  <2> QED
    BY Zenon, <2>1, QuietStep DEF Good, JobSound
<1>4. ASSUME NEW t \in Type, NEW first \in BOOLEAN, NEW chunk \in Chunk,
             NEW i \in Image, InstallFinal(t, first, chunk, i)
      PROVE  Good'
  <2> DEFINE b == Append1(t, first, chunk)
             j == [type |-> t, image |-> i, slot |-> Target(t), next |-> 1]
  <2>1. /\ buf' = [buf EXCEPT ![t] = b] /\ power = "on"
        /\ job' = j /\ Verify(t, b, i)
        /\ UNCHANGED <<slots, conf, power, loaded, run, from, faults>>
    BY Zenon, <1>4 DEF InstallFinal, Calls
  <2>2. buf[t] \in Seq(Piece) /\ b \in Seq(Piece)
    BY Zenon, <1>0, AppendType
  <2>3. Target(t) \in Slot /\ Target(t) # conf[t].slot
    BY Zenon, <1>0, <2>1 DEF Target, Slot, SlotsKnown, TypeOK
  <2>5. buf' \in [Type -> Seq(Piece)] /\ buf'[t] = b
    BY Zenon, <1>0, <2>1, <2>2 DEF TypeOK
  <2>7. JobSound'
    <3>1. /\ job'.type = t /\ job'.image = i /\ job'.slot = Target(t) /\ job'.next = 1
      BY Zenon, <2>1
    <3>2. Verify(t, buf'[t], i)
      BY Zenon, <2>1, <2>5
    <3> QED
      BY <2>1, <2>3, <3>1, <3>2 DEF JobSound, Verify
  <2> QED
    BY Zenon, <2>1, <2>7, QuietStep DEF Good
<1>5. CASE FlashPiece
  <2> DEFINE t == job.type
             s == job.slot
             k == job.next
  <2>1. /\ job # Idle /\ k \in 1..N /\ t \in Type /\ s \in Slot /\ job.image \in Image
        /\ power = "on" /\ s # conf[t].slot
        /\ job \in [type: Type, image: Image, slot: Slot, next: 1 .. N + 1]
    BY Zenon, <1>0, <1>5, FlashPieceLemma DEF JobSound, JobVerified
  <2>2. buf[t][k] = PieceOf(job.image, k)
    BY Zenon, <1>0, <1>5, FlashPieceLemma DEF JobSound, JobVerified
  <2>4. /\ slots' \in [Type -> [Slot -> [1..N -> Piece \cup {Junk}]]]
        /\ \A r \in Type, q \in Slot : r # t \/ q # s => slots'[r][q] = slots[r][q]
    BY Zenon, <1>0, <1>5, FlashPieceLemma DEF JobSound, JobVerified
  <2>5. UNCHANGED <<conf, power, loaded, run, from, buf, faults>>
    BY Zenon, <1>5 DEF FlashPiece
  <2>6. AllBootable'
    <3> SUFFICES ASSUME NEW r \in Type PROVE Bootable(r)'
      BY Zenon DEF AllBootable
    <3>1. conf[r].slot \in Slot /\ (r # t \/ conf[r].slot # s)
      BY Zenon, <1>0, <2>1 DEF TypeOK
    <3>2. slots'[r][conf[r].slot] = slots[r][conf[r].slot]
      BY Zenon, <2>1, <2>4, <3>1
    <3> QED
      BY <1>0, <2>5, <3>2 DEF AllBootable, Bootable, Holds
  <2>7. SlotsKnown'
    BY Zenon, <1>0, <2>5 DEF SlotsKnown
  <2>8. JobSound'
    <3>1. CASE /\ slots' = [slots EXCEPT ![t][s][k] = buf[t][k]]
               /\ job' = [job EXCEPT !.next = @ + 1]
      <4>1. /\ job'.type = t /\ job'.image = job.image /\ job'.slot = s /\ job'.next = k + 1
        BY Zenon, <2>1, <3>1
      <4>2. \A m \in 1..N : m < k + 1 => slots'[t][s][m] = PieceOf(job.image, m)
        <5> SUFFICES ASSUME NEW m \in 1..N, m < k + 1
                     PROVE  slots'[t][s][m] = PieceOf(job.image, m)
          BY Zenon
        <5>1. slots'[t][s] = [slots[t][s] EXCEPT ![k] = buf[t][k]]
          BY ZenonT(30), <1>0, <2>1, <3>1 DEF TypeOK
        <5>2. slots[t][s] \in [1..N -> Piece \cup {Junk}]
          BY <1>0, <2>1 DEF TypeOK
        <5>3. CASE m = k
          BY Zenon, <2>1, <2>2, <5>1, <5>2, <5>3
        <5>4. CASE m < k
          BY <1>0, <2>1, <5>1, <5>2, <5>4 DEF JobSound
        <5> QED
          BY <2>1, <5>3, <5>4
      <4> QED
        BY Zenon, <1>0, <2>1, <2>4, <2>5, <4>1, <4>2 DEF JobSound, Verify
    <3>2. CASE job' = Idle
      BY Zenon, <3>2 DEF JobSound
    <3> QED
      BY Zenon, <1>5, <3>1, <3>2 DEF FlashPiece, WriteSlot
  <2> QED
    BY Zenon, <2>6, <2>7, <2>8 DEF Good
<1>6. CASE FlashConf
  <2> DEFINE t == job.type
             new == [decodes |-> TRUE, slot |-> job.slot, image |-> job.image]
  <2>1. /\ job # Idle /\ job.next = N + 1 /\ t \in Type
        /\ job.slot \in Slot /\ job.image \in Image /\ job.image \in Logged[t]
    BY Zenon, <1>0, <1>6 DEF FlashConf, FlashesConf, TypeOK, JobSound, Verify
  <2>2. /\ job' = Idle /\ UNCHANGED <<slots, loaded, run, from, buf>>
        /\ \/ conf' = [conf EXCEPT ![t] = new] /\ power' = "reboot"
           \/ conf' = conf /\ power' = power
    BY Zenon, <1>0, <1>6 DEF FlashConf, Reboot
  <2>3. CASE conf' = [conf EXCEPT ![t] = new] /\ power' = "reboot"
    <3>2. \A k \in 1..N : slots[t][job.slot][k] = PieceOf(job.image, k)
      BY <1>0, <2>1 DEF JobSound
    <3>3. AllBootable'
      <4> SUFFICES ASSUME NEW r \in Type PROVE Bootable(r)'
        BY Zenon DEF AllBootable
      <4>1. CASE r = t
        <5>1. conf'[r] = new
          BY Zenon, <1>0, <2>3, <4>1 DEF TypeOK
        <5> QED
          BY <2>1, <2>2, <3>2, <4>1, <5>1 DEF Bootable, Holds
      <4>2. CASE r # t
        <5>1. conf'[r] = conf[r]
          BY Zenon, <1>0, <2>3, <4>2 DEF TypeOK
        <5> QED
          BY Zenon, <1>0, <2>2, <5>1 DEF AllBootable, Bootable, Holds
      <4> QED
        BY Zenon, <4>1, <4>2
    <3> QED
      BY Zenon, <2>2, <2>3, <3>3 DEF Good, SlotsKnown, JobSound
  <2>4. CASE conf' = conf /\ power' = power
    BY Zenon, <1>0, <2>2, <2>4 DEF Good, AllBootable, Bootable, Holds, SlotsKnown, JobSound
  <2> QED
    BY Zenon, <2>2, <2>3, <2>4
<1>7. CASE UNCHANGED vars
  BY <1>0, <1>7 DEF vars, Good, AllBootable, Bootable, Holds, SlotsKnown,
     JobSound, Verify
<1> QED
  BY Zenon, <1>1, <1>2, <1>3, <1>4, <1>5, <1>6, <1>7 DEF Next

\* The invariant holds in every reachable state.
LEMMA Invariance == Spec => []IInv
<1>1. Init => IInv
  BY Zenon, InitInv
<1>2. IInv /\ [Next]_vars => IInv'
  <2> SUFFICES ASSUME IInv, [Next]_vars PROVE IInv'
    BY Zenon
  <2>1. FInv'
    BY Zenon, NextFInv DEF IInv
  <2>2. ASSUME faults' = 0 PROVE faults = 0
    <3>1. faults \in Nat
      BY ConstantAssumption DEF IInv, FInv, TypeOK
    <3>2. faults' = faults \/ faults' = faults + 1
      BY Zenon DEF Next, vars, Boot, PowerLoss, FlashPiece, FlashConf, InstallChunk, InstallFinal,
         Fault
    <3> QED
      BY <2>2, <3>1, <3>2
  <2>3. ASSUME faults' = 0 PROVE Good'
    BY Zenon, <2>2, <2>3, NextGood DEF IInv, FInv
  <2> QED
    BY Zenon, <2>1, <2>3 DEF IInv
<1> QED
  BY <1>1, <1>2, PTL DEF Spec

\* Whatever images are installed and wherever an update fails or loses power,
\* the unit can boot complete, verified firmware.
THEOREM UpdatesKeepBootable == Spec => []AlwaysBootable
<1>1. Spec => []IInv
  BY Zenon, Invariance
<1>2. IInv => AlwaysBootable
  BY Zenon DEF IInv, Good, AllBootable, AlwaysBootable
<1> QED
  BY <1>1, <1>2, PTL

\* Every step is a step of FirmwareStore or leaves it alone: the first fault is its
\* Damage, writing a configuration its Install.
LEMMA StoreStep ==
  ASSUME IInv, IInv', [Next]_vars
  PROVE  [Store!Next]_Store!vars
<1> DEFINE installed == IF faults = 0 THEN [t \in Type |-> conf[t].image] ELSE Nothing
           running == IF faults = 0 /\ power = "on" THEN run ELSE Nothing
<1>0. /\ TypeOK /\ TypeOK' /\ (faults = 0 => Good) /\ faults \in Nat /\ "os" \in Type
      /\ run \in [Type -> Image \cup {None, Unverified}]
      /\ conf \in [Type -> [decodes: BOOLEAN, slot: Slot, image: Image]]
  BY ConstantAssumption DEF IInv, FInv, TypeOK, Type
<1>1. faults = 0 => installed # Nothing
  BY Zenon, <1>0, ConstantAssumption DEF Nothing
<1>2. faults = 0 /\ power = "on" => run = [t \in Type |-> conf[t].image]
  BY Zenon, <1>0 DEF Good, SlotsKnown
<1>3. faults' = faults \/ (Fault /\ faults' = faults + 1)
  BY Zenon DEF Next, vars, Boot, PowerLoss, FlashPiece, FlashConf, InstallChunk, InstallFinal, Fault
<1>4. CASE faults # 0
  <2>1. faults' # 0
    BY <1>0, <1>3, <1>4
  <2> QED
    BY Zenon, <1>4, <2>1 DEF Store!vars
<1>5. CASE faults = 0 /\ faults' # 0
  BY Zenon, <1>1, <1>5 DEF Store!Next, Store!Damage, Store!Nothing, Store!Type, Nothing, Type
<1>6. CASE faults = 0 /\ faults' = 0
  <2>0. ~Fault
    BY <1>6 DEF Fault
  <2>1. CASE Boot
    <3>1. \A t \in Type : conf[t].decodes /\ Bootable(t)
      BY Zenon, <1>0, <1>6 DEF Good, AllBootable, Bootable
    <3>2. run' = [t \in Type |-> conf[t].image]
      BY Zenon, <2>0, <2>1, <3>1 DEF Boot, Started, Type
    <3>3. power = "off" /\ power' = "on" /\ conf' = conf
      BY Zenon, <2>1 DEF Boot
    <3>4. Store!Boot
      BY Zenon, <1>1, <1>6, <3>2, <3>3 DEF Store!Boot, Store!Nothing, Store!Type, Nothing, Type
    <3> QED
      BY Zenon, <3>4 DEF Store!Next
  <2>2. CASE PowerLoss
    <3>1. power # "off" /\ power' = "off" /\ conf' = conf
      BY Zenon, <2>2 DEF PowerLoss
    <3>2. CASE power = "on"
      <4>1. running = installed
        BY Zenon, <1>2, <1>6, <3>2
      <4>2. Store!PowerOff
        BY Zenon, <1>1, <1>6, <3>1, <4>1 DEF Store!PowerOff, Store!Nothing, Store!Type, Nothing, Type
      <4> QED
        BY Zenon, <4>2 DEF Store!Next
    <3>3. CASE power # "on"
      BY Zenon, <1>6, <3>1, <3>3 DEF Store!vars
    <3> QED
      BY Zenon, <3>2, <3>3
  <2>3. CASE UNCHANGED <<conf, power, run>>
    BY Zenon, <1>6, <2>3 DEF Store!vars
  <2>4. CASE FlashConf /\ power' = "reboot"
                       /\ conf' = [conf EXCEPT ![job.type] =
                                     [decodes |-> TRUE, slot |-> job.slot, image |-> job.image]]
    <3> DEFINE new == [decodes |-> TRUE, slot |-> job.slot, image |-> job.image]
    <3>1. job # Idle /\ job.type \in Type /\ job.image \in Image /\ power = "on"
          /\ job.image \in Logged[job.type]
      BY Zenon, <1>0, <1>6, <2>4 DEF FlashConf, TypeOK, Good, JobSound, Verify
    <3>2. new.image = job.image
      BY Zenon
    <3> HIDE DEF new
    <3>3. conf' = [conf EXCEPT ![job.type] = new]
      BY Zenon, <2>4 DEF new
    <3>4. [t \in Type |-> conf'[t].image] = [[t \in Type |-> conf[t].image] EXCEPT ![job.type] = job.image]
      BY Zenon, <1>0, <3>1, <3>2, <3>3
    <3>5. running = installed
      BY Zenon, <1>2, <1>6, <3>1
    <3>6. PICK t \in Type, i \in Image : t = job.type /\ i = job.image
      BY Zenon, <3>1
    <3>7. Store!Install(t, i)
      BY Zenon, <1>1, <1>6, <2>4, <3>1, <3>4, <3>5, <3>6 DEF Store!Install, Store!Nothing, Store!Type, Nothing, Type
    <3> QED
      BY Zenon, <3>7 DEF Store!Next, Store!Type, Type
  <2>5. CASE FlashConf
    BY Zenon, <2>0, <2>3, <2>4, <2>5 DEF FlashConf, Reboot
  <2>6. CASE FlashPiece \/ UNCHANGED vars
    BY Zenon, <2>3, <2>6 DEF FlashPiece, vars
  <2>7. ASSUME NEW t \in Type, NEW first \in BOOLEAN, NEW chunk \in Chunk, NEW i \in Image,
               InstallChunk(t, first, chunk) \/ InstallFinal(t, first, chunk, i)
        PROVE  [Store!Next]_Store!vars
    BY Zenon, <2>3, <2>7 DEF InstallChunk, InstallFinal
  <2>8. ASSUME NEW t \in Type, NEW first \in BOOLEAN, NEW chunk \in Chunk,
               InstallChunk(t, first, chunk)
        PROVE  [Store!Next]_Store!vars
    BY Zenon, <2>3, <2>8 DEF InstallChunk
  <2> QED
    BY Zenon, <2>1, <2>2, <2>5, <2>6, <2>7, <2>8 DEF Next
<1> QED
  BY Zenon, <1>4, <1>5, <1>6

\* The update scheme implements FirmwareStore, for any images, any number of pieces and
\* any buffer size: updates are atomic, the device boots exactly what was installed
\* last, and only images their verifier accepts get there.
THEOREM Refinement == Spec => ImplementsFirmwareStore
<1>1. Init => Store!Init
  <2> SUFFICES ASSUME Init PROVE Store!Init
    BY Zenon
  <2>1. PICK first \in [Type -> Image] :
          /\ \A t \in Type : first[t] \in Logged[t]
          /\ conf = [t \in Type |-> [decodes |-> TRUE, slot |-> "A", image |-> first[t]]]
          /\ power = "off" /\ faults = 0
    BY Zenon DEF Init
  <2>2. [t \in Type |-> conf[t].image] = first
    BY Zenon, <2>1
  <2> QED
    BY Zenon, <2>1, <2>2 DEF Store!Init, Store!Nothing, Store!Type, Nothing, Type
<1>2. IInv /\ IInv' /\ [Next]_vars => [Store!Next]_Store!vars
  BY Zenon, StoreStep
<1> QED
  BY <1>1, <1>2, Invariance, PTL DEF Spec, ImplementsFirmwareStore, Store!Spec

\* No step writes to a slot that a configuration points to.
THEOREM ConfiguredSlotSafe == Spec => ConfiguredSlotUntouched
<1>1. Spec => []IInv
  BY Zenon, Invariance
<1>2. IInv /\ [Next]_vars =>
        [faults = 0 => \A t \in Type :
            slots'[t][conf[t].slot] = slots[t][conf[t].slot]]_vars
  <2> SUFFICES ASSUME IInv, faults = 0, Next, NEW r \in Type
               PROVE  slots'[r][conf[r].slot] = slots[r][conf[r].slot]
    BY Zenon
  <2>1. CASE FlashPiece
    <3>1. TypeOK /\ JobSound /\ JobVerified
      BY Zenon DEF IInv, FInv, Good
    <3>2. conf[r].slot \in Slot /\ (r # job.type \/ conf[r].slot # job.slot)
      BY Zenon, <2>1, <3>1, FlashPieceLemma DEF TypeOK, JobSound
    <3> QED
      BY Zenon, <2>1, <3>1, <3>2, FlashPieceLemma
  <2>2. CASE slots' = slots
    BY Zenon, <2>2
  <2> QED
    BY Zenon, <2>1, <2>2 DEF Next, Boot, PowerLoss, FlashConf, InstallChunk, InstallFinal
<1> QED
  BY <1>1, <1>2, PTL DEF Spec, ConfiguredSlotUntouched
=============================================================================
