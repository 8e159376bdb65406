----------------------------- MODULE HABProofs ------------------------------
(***************************************************************************)
(* Activation of secure boot for any number of callers, any hashes and any *)
(* interruptions.                                                          *)
(***************************************************************************)
EXTENDS HAB, TLAPS

(***************************************************************************)
(* The inductive invariant.  The fuses before the next one of a running    *)
(* Activate are blown; callers that run at once pass the same hash, unless *)
(* mixed; past the first fuse that hash is the one in SRK_HASH, and once   *)
(* locked it stays.                                                        *)
(***************************************************************************)
Running == \A a \in Activator : step[a] > 0 => srk[a] \in SRK \ {{}}
Blown   == \A a \in Activator : \A i \in 2 .. Len(Procedure) : i < step[a] => Procedure[i] \in blown
Same    == ~mixed => \A a, b \in Activator : step[a] > 0 /\ step[b] > 0 => srk[a] = srk[b]
Fused   == ~mixed => \A a \in Activator : step[a] > 1 => srkHash = srk[a]
Locked  == ~mixed /\ "SRK_LOCK" \in blown => srkHash \in SRK \ {{}}
Order   == "SEC_CONFIG" \in blown => "SRK_LOCK" \in blown

IInv == TypeOK /\ Running /\ Blown /\ Same /\ Fused /\ Locked /\ Order /\ NilMeansComplete

\* The order of hab(): the hash, its lock, then the rest.
LEMMA ProcedureFacts ==
  /\ Len(Procedure) = 10 /\ Last = 10
  /\ Procedure[1] = "SRK_HASH" /\ Procedure[2] = "SRK_LOCK" /\ Procedure[3] = "SEC_CONFIG"
  /\ \A i \in 2 .. 10 : /\ Procedure[i] \in Fuses /\ Procedure[i] # "SRK_HASH"
                        /\ Procedure[i] = "SRK_LOCK" => i = 2
                        /\ Procedure[i] = "SEC_CONFIG" => i = 3
<1>1. Len(Procedure) = 10 /\ Last = 10
  BY DEF Procedure, Last
<1>2. Procedure[1] = "SRK_HASH" /\ Procedure[2] = "SRK_LOCK" /\ Procedure[3] = "SEC_CONFIG"
  BY DEF Procedure
<1>3. /\ Procedure[4] = "DIR_BT_DIS" /\ Procedure[5] = "SJC_DISABLE"
      /\ Procedure[6] = "JTAG_SMODE" /\ Procedure[7] = "JTAG_HEO" /\ Procedure[8] = "KTE"
      /\ Procedure[9] = "SDP_READ_DISABLE" /\ Procedure[10] = "UART_SERIAL_DOWNLOAD_DISABLE"
  BY DEF Procedure
<1>4. ASSUME NEW i \in 2 .. 10
      PROVE  i \in {2, 3, 4, 5, 6, 7, 8, 9, 10} /\ Procedure[i] \in Fuses
  BY <1>1 DEF Fuses
<1> HIDE DEF Procedure
<1> QED
  BY <1>1, <1>2, <1>3, <1>4

Completes(a) == BlowOCOTP(a, TRUE)

\* What one fuse does to the device, whether it succeeds or fails: bits are only
\* added, SRK_HASH only before the lock, and only bits of the caller's hash.
LEMMA BlowFacts ==
  ASSUME TypeOK, NEW a \in Activator, step[a] > 0, NEW complete \in BOOLEAN,
         BlowOCOTP(a, complete)
  PROVE  /\ blown \subseteq blown' /\ blown' \subseteq blown \cup {Procedure[step[a]]}
         /\ blown' \subseteq Fuses
         /\ step[a] > 1 => srkHash' = srkHash
         /\ step[a] = 1 => blown' = blown
         /\ "SRK_LOCK" \in blown => srkHash' = srkHash
         /\ srkHash \subseteq srkHash' /\ srkHash' \subseteq srkHash \cup srk[a]
<1> DEFINE name == Procedure[step[a]]
<1>1. step[a] \in 1 .. 10 /\ srk[a] \subseteq Bit
  BY ProcedureFacts DEF TypeOK
<1>2. step[a] = 1 => name = "SRK_HASH"
  BY ProcedureFacts
<1>3. step[a] > 1 => name # "SRK_HASH" /\ name \in Fuses
  BY <1>1, ProcedureFacts
<1> HIDE DEF name
<1>4. \/ /\ name = "SRK_HASH" /\ "SRK_LOCK" \notin blown
         /\ srkHash \subseteq srkHash' /\ srkHash' \subseteq srkHash \cup srk[a]
         /\ blown' = blown
      \/ name = "SRK_HASH" /\ srkHash' = srkHash /\ blown' = blown
      \/ /\ name # "SRK_HASH" /\ srkHash' = srkHash
         /\ blown' \in {blown, blown \cup {name}}
  BY DEF BlowOCOTP, otp, name
<1>5. step[a] = 1 \/ step[a] > 1
  BY <1>1
<1> QED
  BY <1>2, <1>3, <1>4, <1>5 DEF name, TypeOK

\* A fuse that BlowOCOTP completes is blown.
LEMMA CompleteFacts ==
  ASSUME TypeOK, NEW a \in Activator, step[a] > 1, Completes(a)
  PROVE  Procedure[step[a]] \in blown'
<1>1. step[a] \in 2 .. 10
  BY ProcedureFacts DEF TypeOK
<1>2. Procedure[step[a]] # "SRK_HASH"
  BY <1>1, ProcedureFacts
<1> QED
  BY <1>2 DEF Completes, BlowOCOTP

\* What fuse does to the caller: it returns an error, goes on to the next fuse, or
\* returns nil after the last; the others are not touched.
LEMMA CallerFacts ==
  ASSUME TypeOK, NEW a \in Activator, fuse(a)
  PROVE  /\ \A b \in Activator \ {a} : step'[b] = step[b] /\ srk'[b] = srk[b] /\ err'[b] = err[b]
         /\ \/ step'[a] = 0 /\ srk'[a] = {} /\ err'[a] = TRUE
            \/ /\ Completes(a) /\ ReadBack(a)
               /\ \/ step[a] = 10 /\ step'[a] = 0 /\ srk'[a] = {} /\ err'[a] = FALSE
                  \/ /\ step[a] < 10 /\ step'[a] = step[a] + 1
                     /\ srk'[a] = srk[a] /\ err'[a] = err[a]
         /\ step' \in [Activator -> 0 .. 10] /\ srk' \in [Activator -> SUBSET Bit]
         /\ err' \in [Activator -> BOOLEAN]
<1> USE ProcedureFacts
<1>0. /\ step \in [Activator -> 0 .. 10] /\ srk \in [Activator -> SUBSET Bit]
      /\ err \in [Activator -> BOOLEAN] /\ step[a] > 0
  BY DEF TypeOK, fuse
<1>1. CASE Completes(a) /\ ReadBack(a) /\ Advance(a)
  <2>1. CASE step[a] = 10
    <3>1. /\ step' = [step EXCEPT ![a] = 0] /\ srk' = [srk EXCEPT ![a] = {}]
          /\ err' = [err EXCEPT ![a] = FALSE]
      BY <1>1, <2>1 DEF Advance, Return
    <3>2. err'[a] = FALSE /\ err' \in [Activator -> BOOLEAN]
      BY <1>0, <3>1
    <3> QED
      BY <1>0, <1>1, <2>1, <3>1, <3>2
  <2>2. CASE step[a] # 10
    <3>1. step' = [step EXCEPT ![a] = step[a] + 1] /\ srk' = srk /\ err' = err
      BY <1>1, <2>2 DEF Advance
    <3>2. step[a] < 10 /\ step[a] + 1 \in 0 .. 10
      BY <1>0, <2>2
    <3> QED
      BY <1>0, <1>1, <3>1, <3>2
  <2> QED
    BY Zenon, <2>1, <2>2
<1>2. CASE Fail(a)
  BY <1>0, <1>2 DEF Fail, Return
<1> QED
  BY Zenon, <1>1, <1>2 DEF fuse, Completes

\* A fuse step of one caller keeps the invariant, for that caller and the others.
LEMMA FuseStep ==
  ASSUME IInv, NEW a \in Activator, fuse(a)
  PROVE  IInv'
<1> USE DEF IInv
<1>1. /\ mixed' = mixed /\ snvs' = snvs
      /\ step[a] \in 1 .. 10 /\ srk[a] \in SRK \ {{}} /\ srk[a] \subseteq Bit
      /\ step \in [Activator -> 0 .. 10]
  BY ProcedureFacts DEF fuse, TypeOK, Running
<1>2. /\ blown \subseteq blown' /\ blown' \subseteq blown \cup {Procedure[step[a]]}
      /\ blown' \subseteq Fuses
      /\ step[a] > 1 => srkHash' = srkHash
      /\ step[a] = 1 => blown' = blown
      /\ "SRK_LOCK" \in blown => srkHash' = srkHash
      /\ srkHash \subseteq srkHash' /\ srkHash' \subseteq srkHash \cup srk[a]
  <2>1. CASE \E complete \in BOOLEAN : BlowOCOTP(a, complete)
    BY <1>1, <2>1, BlowFacts
  <2>2. CASE UNCHANGED otp
    BY <2>2 DEF otp, TypeOK
  <2> QED
    BY Zenon, <2>1, <2>2 DEF fuse
<1>3. /\ \A b \in Activator \ {a} : step'[b] = step[b] /\ srk'[b] = srk[b] /\ err'[b] = err[b]
      /\ \/ step'[a] = 0 /\ srk'[a] = {} /\ err'[a] = TRUE
         \/ /\ Completes(a) /\ ReadBack(a)
            /\ \/ step[a] = 10 /\ step'[a] = 0 /\ srk'[a] = {} /\ err'[a] = FALSE
               \/ /\ step[a] < 10 /\ step'[a] = step[a] + 1
                  /\ srk'[a] = srk[a] /\ err'[a] = err[a]
      /\ step' \in [Activator -> 0 .. 10] /\ srk' \in [Activator -> SUBSET Bit]
      /\ err' \in [Activator -> BOOLEAN]
  BY Zenon, CallerFacts
<1>4. /\ Completes(a) /\ step[a] > 1 => Procedure[step[a]] \in blown'
      /\ ReadBack(a) /\ step[a] = 1 => srkHash' = srk[a]
  <2>1. Completes(a) /\ step[a] > 1 => Procedure[step[a]] \in blown'
    BY CompleteFacts
  <2>2. ReadBack(a) /\ step[a] = 1 => srkHash' = srk[a]
    BY ProcedureFacts DEF ReadBack
  <2> QED
    BY <2>1, <2>2
<1>s. /\ \A b \in Activator : step'[b] = 0 \/ srk'[b] = srk[b]
      /\ \A b \in Activator : step'[b] > 0 => step[b] > 0
      /\ step'[a] > 0 => step'[a] = step[a] + 1 /\ Completes(a) /\ ReadBack(a)
  <2>1. \A b \in Activator \ {a} : step'[b] = step[b] /\ srk'[b] = srk[b]
    BY <1>3
  <2>2. step'[a] = 0 \/ (step'[a] = step[a] + 1 /\ srk'[a] = srk[a] /\ Completes(a) /\ ReadBack(a))
    BY <1>3
  <2> QED
    <3>1. \A b \in Activator : b = a \/ b \in Activator \ {a}
      OBVIOUS
    <3>2. step[a] > 0 /\ step[a] + 1 > 0
      BY <1>1
    <3> QED
      BY <2>1, <2>2, <3>1, <3>2
<1>5. TypeOK'
  <2>1. srkHash' \subseteq Bit
    BY <1>1, <1>2 DEF TypeOK
  <2>2. step' \in [Activator -> 0 .. Len(Procedure)]
    BY <1>3, ProcedureFacts
  <2> QED
    BY <1>1, <1>2, <1>3, <2>1, <2>2 DEF TypeOK
<1>6. Running'
  BY <1>1, <1>s DEF Running
<1>7. Blown'
  <2> SUFFICES ASSUME NEW b \in Activator, NEW i \in 2 .. 10, i < step'[b]
               PROVE  Procedure[i] \in blown'
    BY ProcedureFacts DEF Blown
  <2>1. CASE i < step[b]
    BY <1>2, <2>1, ProcedureFacts DEF Blown
  <2>2. CASE ~(i < step[b])
    <3>1. b = a
      BY <1>3, <2>2
    <3>2. i = step[a] /\ Completes(a)
      <4>1. step'[a] \in 0 .. 10 /\ i < step'[a] /\ ~(i < step[a])
        BY <1>3, <2>2, <3>1
      <4> QED
        BY <1>1, <1>s, <4>1
    <3> QED
      BY <1>4, <3>2
  <2> QED
    BY <2>1, <2>2
<1>8. Same'
  BY <1>1, <1>s DEF Same
<1>9. Fused'
  <2> SUFFICES ASSUME ~mixed, NEW b \in Activator, step'[b] > 1 PROVE srkHash' = srk'[b]
    BY <1>1 DEF Fused
  <2>1. CASE b # a
    <3>1. step[b] > 1 /\ srk'[b] = srk[b] /\ srkHash = srk[b] /\ srk[a] = srk[b]
      BY <1>1, <1>3, <1>s, <2>1 DEF Fused, Same
    <3> QED
      BY Zenon, <1>2, <3>1
  <2>2. CASE b = a
    <3>1. srk'[a] = srk[a] /\ ReadBack(a) /\ (step[a] = 1 \/ step[a] > 1)
      <4>1. step'[a] \in 0 .. 10 /\ step'[a] > 1
        BY <1>3, <2>2
      <4> QED
        BY <1>1, <1>s, <4>1
    <3> QED
      BY <1>2, <1>4, <2>2, <3>1 DEF Fused
  <2> QED
    BY <2>1, <2>2
<1>10. Locked'
  <2> SUFFICES ASSUME ~mixed, "SRK_LOCK" \in blown' PROVE srkHash' \in SRK \ {{}}
    BY <1>1 DEF Locked
  <2>1. CASE "SRK_LOCK" \in blown
    BY <1>2, <2>1 DEF Locked
  <2>2. CASE "SRK_LOCK" \notin blown
    <3>1. step[a] = 2
      BY <1>1, <1>2, <2>2, ProcedureFacts
    <3> QED
      BY <1>1, <1>2, <3>1 DEF Fused
  <2> QED
    BY <2>1, <2>2
<1>11. Order'
  <2>1. CASE "SEC_CONFIG" \in blown
    BY <1>2, <2>1 DEF Order
  <2>2. CASE "SEC_CONFIG" \in blown' /\ "SEC_CONFIG" \notin blown
    <3>1. step[a] = 3
      BY <1>1, <1>2, <2>2, ProcedureFacts
    <3> QED
      <4>1. Procedure[2] \in blown
        BY <3>1, ProcedureFacts DEF Blown
      <4> QED
        BY <1>2, <4>1, ProcedureFacts DEF Order
  <2> QED
    BY <2>1, <2>2 DEF Order
<1>12. NilMeansComplete'
  <2> SUFFICES ASSUME NEW b \in Activator, ~err'[b] PROVE Fuses \subseteq blown'
    BY DEF NilMeansComplete
  <2>1. CASE ~err[b]
    BY <1>2, <2>1 DEF NilMeansComplete
  <2>2. CASE err[b]
    <3>1. b = a /\ Completes(a) /\ step[a] = 10
      BY <1>3, <2>2
    <3>2. ASSUME NEW i \in 2 .. 10 PROVE Procedure[i] \in blown'
      BY <1>2, <1>4, <3>1, ProcedureFacts DEF Blown
    <3> QED
      BY <3>2, ProcedureFacts DEF Fuses
  <2> QED
    BY <2>1, <2>2
<1> QED
  BY <1>5, <1>6, <1>7, <1>8, <1>9, <1>10, <1>11, <1>12

\* A new call keeps the invariant: it is recorded in mixed when another runs with a
\* different hash.
LEMMA ActivateStep ==
  ASSUME IInv, NEW a \in Activator, NEW s \in SRK, Activate(a, s)
  PROVE  IInv'
<1> USE ConstantAssumption DEF IInv
<1>1. /\ srkHash' = srkHash /\ blown' = blown /\ snvs' = snvs /\ step[a] = 0
      /\ s \subseteq Bit
      /\ step \in [Activator -> 0 .. 10] /\ srk \in [Activator -> SUBSET Bit]
      /\ err \in [Activator -> BOOLEAN] /\ mixed \in BOOLEAN
  BY ProcedureFacts DEF Activate, otp, TypeOK
<1>2. CASE /\ s # {} /\ step' = [step EXCEPT ![a] = 1] /\ srk' = [srk EXCEPT ![a] = s]
           /\ err' = [err EXCEPT ![a] = TRUE]
           /\ mixed' = (mixed \/ \E b \in Activator : step[b] > 0 /\ srk[b] # s)
  <2>1. /\ step' \in [Activator -> 0 .. 10] /\ srk' \in [Activator -> SUBSET Bit]
        /\ err' \in [Activator -> BOOLEAN] /\ mixed' \in BOOLEAN
    BY <1>1, <1>2
  <2>2. /\ step'[a] = 1 /\ srk'[a] = s /\ err'[a] = TRUE
        /\ \A b \in Activator \ {a} : step'[b] = step[b] /\ srk'[b] = srk[b] /\ err'[b] = err[b]
    BY <1>1, <1>2
  <2>3. ~mixed' => ~mixed /\ \A b \in Activator : step[b] > 0 => srk[b] = s
    BY Zenon, <1>2
  <2>4. TypeOK'
    BY <1>1, <2>1, ProcedureFacts DEF TypeOK
  <2>5. Running' /\ Blown' /\ Locked' /\ Order' /\ NilMeansComplete'
    BY <1>1, <1>2, <2>2, <2>3 DEF Running, Blown, Locked, Order, NilMeansComplete
  <2>6. Same'
    BY <2>2, <2>3 DEF Same
  <2>7. Fused'
    BY <1>1, <2>2, <2>3 DEF Fused
  <2> QED
    BY <2>4, <2>5, <2>6, <2>7
<1>3. CASE Return(a, TRUE) /\ UNCHANGED mixed
  <2>1. /\ step' \in [Activator -> 0 .. 10] /\ srk' \in [Activator -> SUBSET Bit]
        /\ err' \in [Activator -> BOOLEAN]
    BY <1>1, <1>3 DEF Return
  <2>2. /\ step'[a] = 0 /\ err'[a] = TRUE
        /\ \A b \in Activator \ {a} : step'[b] = step[b] /\ srk'[b] = srk[b] /\ err'[b] = err[b]
    BY <1>1, <1>3 DEF Return
  <2>3. TypeOK'
    BY <1>1, <1>3, <2>1, ProcedureFacts DEF TypeOK
  <2>4. Running' /\ Blown' /\ Locked' /\ Order' /\ NilMeansComplete'
    BY <1>1, <1>3, <2>2 DEF Running, Blown, Locked, Order, NilMeansComplete
  <2>5. Same' /\ Fused'
    BY <1>1, <1>3, <2>2 DEF Same, Fused
  <2> QED
    BY <2>3, <2>4, <2>5
<1> QED
  BY Zenon, <1>2, <1>3 DEF Activate

\* A power failure ends every call, and the boot ROM latches the configuration.
LEMMA PowerCycleStep == IInv /\ PowerCycle => IInv'
<1> SUFFICES ASSUME IInv, PowerCycle PROVE IInv'
  OBVIOUS
<1>1. /\ srkHash' = srkHash /\ blown' = blown /\ mixed' = mixed
      /\ snvs' \in BOOLEAN
      /\ step' \in [Activator -> 0 .. 10] /\ srk' \in [Activator -> SUBSET Bit]
      /\ err' \in [Activator -> BOOLEAN]
      /\ \A a \in Activator : step'[a] = 0 /\ err'[a] = TRUE
  BY DEF PowerCycle, otp
<1>2. TypeOK'
  BY <1>1, ProcedureFacts DEF IInv, TypeOK
<1> QED
  BY <1>1, <1>2 DEF IInv, Running, Blown, Same, Fused, Locked, Order, NilMeansComplete

\* The invariant holds in every reachable state.
LEMMA Invariance == Spec => []IInv
<1>1. Init => IInv
  <2> SUFFICES ASSUME Init PROVE IInv
    OBVIOUS
  <2>1. \A a \in Activator : step[a] = 0 /\ err[a] = TRUE
    BY Zenon DEF Init
  <2>2. TypeOK
    <3>1. step \in [Activator -> 0 .. Len(Procedure)]
      BY ProcedureFacts DEF Init
    <3>2. srk \in [Activator -> SUBSET Bit] /\ err \in [Activator -> BOOLEAN]
      BY DEF Init
    <3> QED
      BY Zenon, <3>1, <3>2 DEF Init, TypeOK
  <2>3. srkHash = {} /\ blown = {}
    BY DEF Init
  <2> QED
    BY <2>1, <2>2, <2>3 DEF IInv, Running, Blown, Same, Fused, Locked, Order, NilMeansComplete
<1>2. IInv /\ [Next]_vars => IInv'
  <2> SUFFICES ASSUME IInv, [Next]_vars PROVE IInv'
    OBVIOUS
  <2>1. CASE Next
    BY <2>1, FuseStep, ActivateStep, PowerCycleStep DEF Next
  <2>2. CASE UNCHANGED vars
    BY <2>2 DEF vars, IInv, TypeOK, Running, Blown, Same, Fused, Locked, Order, NilMeansComplete
  <2> QED
    BY <2>1, <2>2
<1> QED
  BY <1>1, <1>2, PTL DEF Spec

\* The state of the fuses and of every call of Activate has its type.
THEOREM TypeCorrect == Spec => []TypeOK
  BY Invariance, PTL DEF IInv

\* However many callers there are and wherever attempts are interrupted, the device
\* is closed only with a whole hash that a caller passed, locked; callers that pass
\* different hashes at once are excepted.
THEOREM KeyBeforeClosing == Spec => []ClosedWithKey
<1>1. IInv => ClosedWithKey
  BY DEF IInv, Locked, Order, ClosedWithKey
<1> QED
  BY <1>1, Invariance, PTL

\* Activate returns nil only when every fuse of the procedure is blown.
THEOREM ActivationComplete == Spec => []NilMeansComplete
  BY Invariance, PTL DEF IInv

=============================================================================
