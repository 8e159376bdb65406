-------------------------------- MODULE HAB ---------------------------------
(***************************************************************************)
(* Activation of secure boot (internal/hab/hab.go), requested by the       *)
(* control interface (HAB of trusted_os/ctl.go) or by the applet (HAB of   *)
(* trusted_os/rpc.go).  Each fuse is read, blown and read back in turn;    *)
(* each of these may fail and the power may fail at any point.  OTP fuses  *)
(* (external) only ever change from 0 to 1, and a locked SRK hash does not *)
(* change any more.                                                        *)
(***************************************************************************)
EXTENDS Naturals, Sequences

CONSTANTS Activator,  \* goroutines that may run Activate
          Bit,        \* bits of an SRK hash
          SRK         \* the hashes they may pass, as sets of bits

ASSUME ConstantAssumption == SRK \subseteq SUBSET Bit

\* The fuses of hab(), in its order
Procedure == <<"SRK_HASH", "SRK_LOCK", "SEC_CONFIG", "DIR_BT_DIS", "SJC_DISABLE",
               "JTAG_SMODE", "JTAG_HEO", "KTE", "SDP_READ_DISABLE",
               "UART_SERIAL_DOWNLOAD_DISABLE">>

Fuses == {Procedure[i] : i \in 2 .. Len(Procedure)}

VARIABLES srkHash,  \* OTP: SRK_HASH
          blown,    \* OTP: the other fuses of Procedure that are blown
          snvs,     \* SNVS.Available(), latched at reset
          srk,      \* argument of each running Activate
          step,     \* its next fuse, 0 when none is running
          err,      \* result of the last Activate
          mixed     \* history: two have run at once with different hashes

vars == <<srkHash, blown, snvs, srk, step, err, mixed>>
otp  == <<srkHash, blown>>

Init == /\ srkHash = {} /\ blown = {} /\ snvs = FALSE
        /\ srk = [a \in Activator |-> {}]
        /\ step = [a \in Activator |-> 0]
        /\ err = [a \in Activator |-> TRUE]
        /\ mixed = FALSE

Return(a, e) == /\ step' = [step EXCEPT ![a] = 0]
                /\ srk' = [srk EXCEPT ![a] = {}]
                /\ err' = [err EXCEPT ![a] = e]

\* The guards of Activate; the hash has its length
Activate(a, s) ==
  /\ step[a] = 0
  /\ \/ ~snvs /\ s # {}
        /\ step' = [step EXCEPT ![a] = 1]
        /\ srk' = [srk EXCEPT ![a] = s]
        /\ err' = [err EXCEPT ![a] = TRUE]
        /\ mixed' = (mixed \/ \E b \in Activator : step[b] > 0 /\ srk[b] # s)
     \/ (snvs \/ s = {}) /\ Return(a, TRUE) /\ UNCHANGED mixed
  /\ UNCHANGED <<otp, snvs>>

\* otp.BlowOCOTP; some of the bits, or none, may be blown when it fails
BlowOCOTP(a, complete) ==
  LET name == Procedure[step[a]] IN
  \/ /\ name = "SRK_HASH" /\ "SRK_LOCK" \notin blown
     /\ IF complete THEN srkHash' = srkHash \cup srk[a]
        ELSE \E bits \in SUBSET srk[a] : srkHash' = srkHash \cup bits
     /\ UNCHANGED blown
  \/ /\ name = "SRK_HASH" /\ "SRK_LOCK" \in blown
     /\ UNCHANGED otp
  \/ /\ name # "SRK_HASH"
     /\ blown' \in IF complete THEN {blown \cup {name}} ELSE {blown, blown \cup {name}}
     /\ UNCHANGED srkHash

\* bytes.Equal(val, res) of the value read back
ReadBackNever(a) == TRUE
ReadBack(a) == Procedure[step[a]] = "SRK_HASH" => srkHash' = srk[a]

LastLate == Len(Procedure) + 1
LastEarly == Len(Procedure) - 1
Last == Len(Procedure)

\* fuse() returned nil: the next one, or hab returns nil
Advance(a) == IF step[a] = Last THEN Return(a, FALSE)
              ELSE step' = [step EXCEPT ![a] = @ + 1] /\ UNCHANGED <<srk, err>>

Fail(a) == Return(a, TRUE)

\* fuse() for the next name of hab()
fuse(a) ==
  /\ step[a] > 0
  /\ \/ BlowOCOTP(a, TRUE) /\ ReadBack(a) /\ Advance(a)
     \/ BlowOCOTP(a, TRUE) /\ ~ReadBack(a) /\ Fail(a)
     \/ BlowOCOTP(a, FALSE) /\ Fail(a)
     \/ UNCHANGED otp /\ Fail(a)                 \* ReadOCOTP failed
  /\ UNCHANGED <<snvs, mixed>>

\* The boot ROM closes the device
PowerCycle == /\ snvs' = ("SEC_CONFIG" \in blown)
              /\ srk' = [a \in Activator |-> {}]
              /\ step' = [a \in Activator |-> 0]
              /\ err' = [a \in Activator |-> TRUE]
              /\ UNCHANGED <<otp, mixed>>

Next == \/ \E a \in Activator : fuse(a) \/ \E s \in SRK : Activate(a, s)
        \/ PowerCycle

Spec == Init /\ [][Next]_vars
-----------------------------------------------------------------------------
TypeOK == /\ srkHash \subseteq Bit
          /\ blown \subseteq Fuses
          /\ snvs \in BOOLEAN
          /\ srk \in [Activator -> SUBSET Bit]
          /\ step \in [Activator -> 0 .. Len(Procedure)]
          /\ err \in [Activator -> BOOLEAN]
          /\ mixed \in BOOLEAN

\* "Any errors in the process [...] will result in a bricked device" (hab.go):
\* a device is closed only with a hash fused that some caller passed, whole, and
\* locked, whatever attempts with other hashes were interrupted before.  Nothing
\* serialises two callers: those that pass different hashes at once are excepted.
ClosedWithKey ==
  ~mixed /\ "SEC_CONFIG" \in blown => srkHash \in SRK \ {{}} /\ "SRK_LOCK" \in blown

\* When Activate returns nil every fuse is blown, those of earlier attempts that
\* failed included.
NilMeansComplete ==
  \A a \in Activator : ~err[a] => Fuses \subseteq blown
=============================================================================
