----------------------------- MODULE RPMBProofs -----------------------------
(***************************************************************************)
(* The RPMB driver for any number of callers, sectors and values and any   *)
(* counter width: over a transport that loses, delays, reorders and        *)
(* repeats write frames; over one that loses requests but repeats none;    *)
(* and as an implementation of AuthMemory.                                 *)
(***************************************************************************)
EXTENDS RPMB, TLAPS

(***************************************************************************)
(* The inductive invariant.  Counter values only travel upwards from the   *)
(* card: those in frames and responses never exceed the card's, and those  *)
(* read since power on are at least those of the frames recorded before.   *)
(* Only a card with a key makes MACs, so a card without one has never seen *)
(* a write frame.                                                          *)
(***************************************************************************)
CountersBounded ==
  /\ result.counter <= counter /\ resp.counter <= counter
  /\ \A f \in sent \cup stale : f.counter <= counter
  /\ \A p \in Proc : req[p].counter <= counter

WriteResponses ==
  /\ result.type = "write" /\ result.result = "ok" => result.counter >= 1
  /\ resp.type = "write" /\ resp.result = "ok" => resp.counter >= 1
  /\ result.type # "counter"

ReadSincePowerOn ==
  /\ resp.type = "counter" => \A f \in stale : f.counter <= resp.counter
  /\ \A p \in Proc : req[p].type = "write" =>
       \A f \in stale : f.counter <= req[p].counter

MacsNeedKey ==
  /\ resp.mac \/ result.mac => keyed
  /\ (\E p \in Proc : req[p].type = "write") => keyed
  /\ sent \cup stale # {} => keyed

IInv == TypeOK /\ CountersBounded /\ WriteResponses /\ ReadSincePowerOn
        /\ MacsNeedKey /\ StaleFramesDead

LEMMA CounterLimit == CounterMax \in Nat \ {0}
  BY Zenon, ConstantAssumption

\* uint32 arithmetic: a successor that is not 0 did not wrap.
LEMMA Successor ==
  ASSUME NEW c \in Counters, NEW r \in Counters,
         r = (c + 1) % (CounterMax + 1), r >= 1
  PROVE  r = c + 1
  BY CounterLimit, Z3T(30) DEF Counters

LEMMA FrameType ==
  ASSUME NEW n \in Counters, NEW o \in Sector, NEW b \in Value,
         NEW type \in {"program", "counter", "write", "read"}
  PROVE  NewFrame(type, n, o, b) \in Frame
  BY Zenon DEF NewFrame, Frame

\* The fixed records have their types.
LEMMA Fixed ==
  /\ NoResponse \in Response /\ NoFrame \in Frame
  /\ NoCall \in [kind: Kind \cup {"none"}, offset: Sector, buf: Value]
  /\ Failed \in [err: BOOLEAN, buf: Value]
<1>1. 0 \in Counters
  BY CounterLimit DEF Counters
<1> QED
  BY Zenon, <1>1, ConstantAssumption DEF NoResponse, Response, NoFrame, NewFrame, Frame, NoCall, Kind, Failed

\* A card and a driver that were never used satisfy the invariant.
LEMMA InitInv == Init => IInv
<1> SUFFICES ASSUME Init PROVE IInv
  BY Zenon
<1>0. 0 \in Counters
  BY CounterLimit DEF Counters
<1>1. TypeOK
  <2>1. keyed \in BOOLEAN /\ counter \in Counters /\ mem \in [Sector -> Value]
    BY Zenon, <1>0, ConstantAssumption DEF Init
  <2>2. /\ result \in Response /\ resp \in Response
        /\ sent \subseteq Frame /\ stale \subseteq Frame
        /\ lock \in Proc \cup {NoProc} /\ inst \in {"none", "init", "up"}
    BY Zenon, Fixed DEF Init
  <2>3. pc \in [Proc -> {"idle", "send", "result", "receive"}]
    BY Zenon DEF Init
  <2>4. /\ call \in [Proc -> [kind: Kind \cup {"none"}, offset: Sector, buf: Value]]
        /\ req \in [Proc -> Frame]
        /\ ret \in [Proc -> [err: BOOLEAN, buf: Value]]
    BY Zenon, Fixed DEF Init
  <2>5. [callers |-> callers, transport |-> transport] \in Setups
    <3>1. PICK s \in Setups : callers = s.callers /\ transport = s.transport
      BY Zenon DEF Init
    <3>2. s = [callers |-> s.callers, transport |-> s.transport]
      BY Zenon, ConstantAssumption
    <3> QED
      BY Zenon, <3>1, <3>2
  <2> QED
    BY Zenon, <2>1, <2>2, <2>3, <2>4, <2>5 DEF TypeOK
<1>2. NoResponse.counter = 0 /\ NoResponse.type = "none" /\ NoResponse.mac = FALSE
  BY Zenon DEF NoResponse
<1>3. NoFrame.counter = 0 /\ NoFrame.type = "counter"
  BY Zenon DEF NoFrame, NewFrame
<1>4. \A p \in Proc : req[p] = NoFrame
  BY Zenon DEF Init
<1> QED
  BY <1>1, <1>2, <1>3, <1>4 DEF Init, IInv, CountersBounded, WriteResponses, ReadSincePowerOn,
     MacsNeedKey, StaleFramesDead

\* A write frame, on time or not, moves the counter by at most one and leaves a
\* result register that tells what it did.
LEMMA CardWriteLemma ==
  ASSUME TypeOK, NEW f \in Frame, CardWrite(f)
  PROVE  /\ counter' \in Counters /\ mem' \in [Sector -> Value] /\ result' \in Response
         /\ counter' >= counter
         /\ result'.type = "write" /\ result'.counter = counter' /\ result'.mac = keyed
         /\ result'.result = "ok" => counter' = counter + 1 /\ keyed
         /\ keyed' = keyed /\ resp' = resp
<1> DEFINE r == WriteResult(f)
           ok == r = "ok"
           n == IF ok THEN counter + 1 ELSE counter
<1>1. r \in {"ok", "nokey", "failure"} /\ (ok => keyed /\ counter < CounterMax)
  BY Zenon DEF WriteResult
<1>2. counter \in Nat /\ CounterMax \in Nat /\ counter <= CounterMax
  BY CounterLimit DEF TypeOK, Counters
<1>3. n \in Counters /\ n >= counter /\ (ok => n = counter + 1)
  BY <1>1, <1>2 DEF Counters
<1>4. mem' \in [Sector -> Value]
  BY Zenon DEF CardWrite, TypeOK, Frame
<1>5. /\ result' = [NoResponse EXCEPT !.type = "write", !.counter = n, !.result = r, !.mac = keyed]
      /\ counter' = n /\ keyed' = keyed /\ resp' = resp
  BY Zenon DEF CardWrite
<1> HIDE DEF r, n
<1>6. /\ result'.type = "write" /\ result'.counter = n /\ result'.result = r /\ result'.mac = keyed
      /\ result' \in Response
  BY Zenon, <1>1, <1>3, <1>5, ConstantAssumption DEF NoResponse, Response, TypeOK
<1> QED
  BY Zenon, <1>1, <1>3, <1>4, <1>5, <1>6

\* Programming the key, counter reads and data reads leave counter and memory alone.
LEMMA CardOtherLemma ==
  ASSUME TypeOK, NEW f \in Frame, f.type # "write", CardProcess(f)
  PROVE  /\ counter' = counter /\ mem' = mem
         /\ keyed' \in BOOLEAN /\ (keyed => keyed')
         /\ result' \in Response /\ resp' \in Response
         /\ \/ result' = result
            \/ result'.type = "program" /\ result'.counter = 0 /\ ~result'.mac
         /\ \/ resp' = resp
            \/ /\ resp'.type = f.type /\ resp'.counter \in {0, counter} /\ (resp'.mac => keyed)
               /\ f.type = "counter" => resp'.counter = counter
<1>0. 0 \in Counters /\ counter \in Counters /\ keyed \in BOOLEAN /\ mem \in [Sector -> Value]
      /\ result \in Response /\ resp \in Response
  BY CounterLimit DEF TypeOK, Counters
<1>1. CASE CardProgram
  <2>1. PICK r \in {"ok", "failure"} :
          result' = [NoResponse EXCEPT !.type = "program", !.result = r]
    BY Zenon, <1>1 DEF CardProgram
  <2>2. result' \in Response /\ result'.type = "program" /\ result'.counter = 0 /\ result'.mac = FALSE
    BY Zenon, <2>1, <1>0, ConstantAssumption DEF NoResponse, Response
  <2> QED
    BY Zenon, <2>2, <1>0, <1>1 DEF CardProgram
<1>2. CASE f.type \in {"counter", "read"} /\ CardAnswer(f)
  <2>1. PICK n \in {0, counter}, b \in Value, r \in {"ok", "nokey"} :
          /\ resp' = [type |-> f.type, nonce |-> f.nonce, counter |-> n, buf |-> b,
                      result |-> r, mac |-> keyed]
          /\ f.type = "counter" => n = counter
    <3>1. f.offset \in Sector /\ mem[f.offset] \in Value /\ Zero \in Value
      BY Zenon, <1>0, ConstantAssumption DEF Frame
    <3> QED
      BY Zenon, <3>1, <1>2 DEF CardAnswer
  <2>2. /\ resp' \in Response /\ resp'.type = f.type /\ resp'.counter = n
        /\ resp'.mac = keyed
    BY Zenon, <2>1, <1>0, <1>2 DEF Response, Frame
  <2> QED
    BY Zenon, <2>1, <2>2, <1>0, <1>2 DEF CardAnswer
<1> QED
  BY Zenon, <1>1, <1>2 DEF CardProcess

\* What a step of the card and the transport must leave true for the invariant to
\* survive, when the driver keeps the frames it is working on, drops them, or
\* goes on from an authenticated counter to a write frame.
LEMMA CardStep ==
  ASSUME IInv, TypeOK',
         counter' >= counter, keyed => keyed', stale' = stale,
         \/ result' = result
         \/ /\ result'.counter <= counter' /\ result'.type # "counter"
            /\ result'.mac => keyed'
            /\ result'.type = "write" /\ result'.result = "ok" => result'.counter >= 1,
         \/ resp' \in {resp, result}
         \/ /\ resp'.counter <= counter' /\ resp'.type # "write"
            /\ resp'.mac => keyed'
            /\ resp'.type = "counter" => resp'.counter = counter,
         \A f \in sent' \ sent : f.counter <= counter /\ keyed,
         \A p \in Proc : \/ req'[p].type # "write" /\ req'[p].counter = 0
                         \/ req'[p].type = req[p].type /\ req'[p].counter = req[p].counter
                         \/ req'[p].counter = resp.counter /\ resp.type = "counter" /\ keyed,
         inst' = "up" => \/ inst = "up"
                         \/ \A f \in stale : f.counter < counter
  PROVE  IInv'
<1>1. /\ counter \in Nat /\ counter' \in Nat
      /\ result.counter \in Nat /\ resp.counter \in Nat
      /\ \A f \in sent \cup stale \cup sent' : f.counter \in Nat
      /\ \A p \in Proc : req[p].counter \in Nat /\ req'[p].counter \in Nat
  BY CounterLimit DEF IInv, TypeOK, Counters, Response, Frame
<1>2. CountersBounded'
  BY <1>1 DEF IInv, CountersBounded
<1>3. WriteResponses'
  BY Zenon DEF IInv, WriteResponses
<1>4. ReadSincePowerOn'
  BY Zenon, <1>1 DEF IInv, ReadSincePowerOn, CountersBounded, WriteResponses
<1>5. MacsNeedKey'
  BY Zenon DEF IInv, MacsNeedKey
<1>6. StaleFramesDead'
  BY <1>1 DEF IInv, StaleFramesDead
<1> QED
  BY Zenon, <1>2, <1>3, <1>4, <1>5, <1>6 DEF IInv

\* The driver's part of TypeOK.
DriverType ==
  /\ lock \in Proc \cup {NoProc}
  /\ pc \in [Proc -> {"idle", "send", "result", "receive"}]
  /\ call \in [Proc -> [kind: Kind \cup {"none"}, offset: Sector, buf: Value]]
  /\ req \in [Proc -> Frame]
  /\ ret \in [Proc -> [err: BOOLEAN, buf: Value]]

\* A call that returns drops its frame.
LEMMA ReturnLemma ==
  ASSUME TypeOK, NEW p \in Proc, NEW err \in BOOLEAN, NEW b \in Value, Return(p, err, b)
  PROVE  /\ DriverType'
         /\ \A q \in Proc : \/ req'[q].type # "write" /\ req'[q].counter = 0
                            \/ req'[q].type = req[q].type /\ req'[q].counter = req[q].counter
<1>1. DriverType
  BY Zenon DEF TypeOK, DriverType
<1>2. [err |-> err, buf |-> b] \in [err: BOOLEAN, buf: Value]
  BY Zenon
<1>3. DriverType'
  BY Zenon, <1>1, <1>2, Fixed DEF DriverType, Return
<1>4. NoFrame.type = "counter" /\ NoFrame.counter = 0
  BY Zenon DEF NoFrame, NewFrame
<1> QED
  BY Zenon, <1>1, <1>3, <1>4 DEF Return, DriverType

\* A call that begins prepares a frame that writes nothing.
LEMMA BeginLemma ==
  ASSUME IInv, NEW p \in Proc, NEW kind \in Kind, NEW o \in Sector, NEW b \in Value,
         NEW f \in Frame, f.type # "write", f.counter = 0,
         Begin(p, kind, o, b, f), inst' = inst \/ inst' = "init"
  PROVE  IInv'
<1>1. DriverType /\ inst \in {"none", "init", "up"}
  BY Zenon DEF IInv, TypeOK, DriverType
<1>2. [kind |-> kind, offset |-> o, buf |-> b] \in [kind: Kind \cup {"none"}, offset: Sector, buf: Value]
  BY Zenon
<1>3. DriverType'
  BY Zenon, <1>1, <1>2 DEF DriverType, Begin
<1>4. TypeOK'
  BY Zenon, <1>1, <1>3 DEF IInv, TypeOK, DriverType, Begin, card, bus
<1>5. \A q \in Proc : req'[q] = IF q = p THEN f ELSE req[q]
  BY Zenon, <1>1 DEF DriverType, Begin
<1>6. counter' >= counter
  BY CounterLimit DEF IInv, TypeOK, Counters, Begin, card
<1> QED
  BY <1>4, <1>5, <1>6, CardStep DEF Begin, card, bus

\* rpmb.Init: without a key nothing was ever recorded, so nothing needs the dummy write.
LEMMA InitInstanceInv ==
  ASSUME IInv, NEW p \in Proc, InitInstance(p)
  PROVE  IInv'
<1>1. CASE Begin(p, "init", dummyBlock, Zero, NoFrame) /\ inst' = "init"
  <2>1. NoFrame.type # "write" /\ NoFrame.counter = 0 /\ "init" \in Kind
    BY Zenon DEF NoFrame, NewFrame, Kind
  <2> QED
    BY Zenon, <1>1, <2>1, Fixed, ConstantAssumption, BeginLemma
<1>2. CASE ~keyed /\ inst' = "up" /\ UNCHANGED <<card, bus, lock, pc, call, req, ret>>
  <2>1. TypeOK'
    BY Zenon, <1>2 DEF IInv, TypeOK, card, bus
  <2>2. stale = {}
    BY Zenon, <1>2 DEF IInv, MacsNeedKey
  <2>3. counter' >= counter
    BY <1>2, CounterLimit DEF IInv, TypeOK, Counters, card
  <2> QED
    BY Zenon, <1>2, <2>1, <2>2, <2>3, CardStep DEF card, bus
<1> QED
  BY Zenon, <1>1, <1>2 DEF InitInstance, MayOmitDummy

\* The calls of a driver that is up.
LEMMA UseInv ==
  ASSUME IInv, NEW p \in Proc, Use(p)
  PROVE  IInv'
<1>0. 0 \in Counters
  BY CounterLimit DEF Counters
<1>1. /\ NoFrame.type # "write" /\ NoFrame.counter = 0 /\ NoFrame \in Frame
      /\ {"read", "write", "counter", "peek", "program"} \subseteq Kind
  BY Zenon, Fixed DEF NoFrame, NewFrame, Kind
<1>2. ASSUME NEW o \in Sector, NEW type \in {"read", "program"}
      PROVE  /\ NewFrame(type, 0, o, Zero) \in Frame
             /\ NewFrame(type, 0, o, Zero).type # "write" /\ NewFrame(type, 0, o, Zero).counter = 0
  BY Zenon, <1>0, FrameType, ConstantAssumption DEF NewFrame
<1>3. ASSUME NEW o \in Sector, Read(p, o) PROVE IInv'
  BY Zenon, <1>1, <1>2, <1>3, ConstantAssumption, BeginLemma DEF Use, Read
<1>4. ASSUME NEW o \in Sector, NEW b \in Value, Write(p, o, b) PROVE IInv'
  BY Zenon, <1>1, <1>4, ConstantAssumption, BeginLemma DEF Use, Write
<1>5. ASSUME NEW auth \in BOOLEAN, Counter(p, auth) PROVE IInv'
  BY Zenon, <1>1, <1>5, ConstantAssumption, BeginLemma DEF Use, Counter
<1>6. CASE ProgramKey(p)
  BY Zenon, <1>1, <1>2, <1>6, ConstantAssumption, BeginLemma DEF Use, ProgramKey
<1> QED
  BY Zenon, <1>3, <1>4, <1>5, <1>6 DEF Use

\* card.WriteRPMB(req): the frame reaches the card or not, and the op goes on or fails.
LEMMA SendRequestInv ==
  ASSUME IInv, NEW p \in Proc, SendRequest(p)
  PROVE  IInv'
<1>0. TypeOK /\ DriverType /\ counter \in Nat /\ 0 \in Counters
  BY CounterLimit DEF IInv, TypeOK, DriverType, Counters
<1>1. PICK n \in Nonce \cup {NoNonce}, arrives \in BOOLEAN :
        LET f == [req[p] EXCEPT !.nonce = n] IN
          /\ IF arrives THEN CardProcess(f) ELSE UNCHANGED card
          /\ sent' \in Recorded(f)
          /\ UNCHANGED <<callers, transport, stale, inst>>
          /\ \/ /\ lock' = p
                /\ req' = [req EXCEPT ![p] = f]
                /\ pc' = [pc EXCEPT ![p] = IF ResultRead(f) THEN "result" ELSE "receive"]
                /\ UNCHANGED <<call, ret>>
             \/ Return(p, TRUE, Zero)
  BY Zenon DEF SendRequest
<1> DEFINE f == [req[p] EXCEPT !.nonce = n]
<1>2. f \in Frame /\ f.type = req[p].type /\ f.counter = req[p].counter
  BY <1>0 DEF DriverType, Frame
<1>3. f.counter <= counter /\ (f.type = "write" => keyed)
  BY Zenon, <1>2 DEF IInv, CountersBounded, MacsNeedKey
<1> HIDE DEF f
<1>4. /\ DriverType'
      /\ \A q \in Proc : \/ req'[q].type # "write" /\ req'[q].counter = 0
                         \/ req'[q].type = req[q].type /\ req'[q].counter = req[q].counter
  <2>1. CASE Return(p, TRUE, Zero)
    BY Zenon, <2>1, <1>0, ConstantAssumption, ReturnLemma
  <2>2. CASE /\ lock' = p
             /\ req' = [req EXCEPT ![p] = f]
             /\ pc' = [pc EXCEPT ![p] = IF ResultRead(f) THEN "result" ELSE "receive"]
             /\ UNCHANGED <<call, ret>>
    BY Zenon, <2>2, <1>0, <1>2 DEF DriverType
  <2> QED
    BY Zenon, <1>1, <2>1, <2>2 DEF f
<1>5. sent' \subseteq Frame /\ \A g \in sent' \ sent : g.counter <= counter /\ keyed
  BY ZenonT(30), <1>0, <1>1, <1>2, <1>3 DEF f, TypeOK, Recorded
<1>6. UNCHANGED <<callers, transport>> /\ stale' = stale /\ inst' = inst
  BY Zenon, <1>1
<1>7. CASE ~arrives
  <2>1. UNCHANGED card
    BY Zenon, <1>1, <1>7
  <2>2. TypeOK'
    BY Zenon, <2>1, <1>0, <1>4, <1>5, <1>6 DEF TypeOK, DriverType, card
  <2> QED
    BY <2>1, <2>2, <1>0, <1>4, <1>5, <1>6, CardStep DEF card
<1>8. CASE arrives /\ f.type = "write"
  <2>1. CardWrite(f)
    BY Zenon, <1>1, <1>8 DEF CardProcess, f
  <2>2. /\ counter' \in Counters /\ mem' \in [Sector -> Value] /\ result' \in Response
        /\ counter' >= counter
        /\ result'.type = "write" /\ result'.counter = counter' /\ result'.mac = keyed
        /\ result'.result = "ok" => counter' = counter + 1
        /\ keyed' = keyed /\ resp' = resp
    BY Zenon, <2>1, <1>0, <1>2, CardWriteLemma
  <2>3. TypeOK'
    BY Zenon, <2>2, <1>0, <1>4, <1>5, <1>6 DEF TypeOK, DriverType
  <2>4. counter' \in Nat
    BY <2>2, CounterLimit DEF Counters
  <2> QED
    BY <2>2, <2>3, <2>4, <1>0, <1>4, <1>5, <1>6, CardStep
<1>9. CASE arrives /\ f.type # "write"
  <2>1. CardProcess(f)
    BY Zenon, <1>1, <1>9 DEF f
  <2>2. /\ counter' = counter /\ mem' = mem
        /\ keyed' \in BOOLEAN /\ (keyed => keyed')
        /\ result' \in Response /\ resp' \in Response
        /\ \/ result' = result
           \/ result'.type = "program" /\ result'.counter = 0 /\ ~result'.mac
        /\ \/ resp' = resp
           \/ /\ resp'.type = f.type /\ resp'.counter \in {0, counter} /\ (resp'.mac => keyed)
              /\ f.type = "counter" => resp'.counter = counter
    BY Zenon, <2>1, <1>0, <1>2, <1>9, CardOtherLemma
  <2>3. TypeOK'
    BY Zenon, <2>2, <1>0, <1>4, <1>5, <1>6 DEF TypeOK, DriverType
  <2> QED
    BY <2>2, <2>3, <1>0, <1>4, <1>5, <1>6, <1>9, CardStep
<1> QED
  BY Zenon, <1>7, <1>8, <1>9

\* card.WriteRPMB(resReq): the response becomes the result register, or stays.
LEMMA SendResultReadInv ==
  ASSUME IInv, NEW p \in Proc, SendResultRead(p)
  PROVE  IInv'
<1>0. TypeOK /\ DriverType /\ counter \in Nat
  BY CounterLimit DEF IInv, TypeOK, DriverType, Counters
<1>1. /\ DriverType'
      /\ \A q \in Proc : \/ req'[q].type # "write" /\ req'[q].counter = 0
                         \/ req'[q].type = req[q].type /\ req'[q].counter = req[q].counter
  <2>1. CASE Return(p, TRUE, Zero)
    BY Zenon, <2>1, <1>0, ConstantAssumption, ReturnLemma
  <2>2. CASE pc' = [pc EXCEPT ![p] = "receive"] /\ UNCHANGED <<lock, call, req, ret>>
    BY Zenon, <2>2, <1>0 DEF DriverType
  <2> QED
    BY Zenon, <2>1, <2>2 DEF SendResultRead
<1>2. /\ resp' \in {resp, result}
      /\ UNCHANGED <<keyed, counter, mem, result, callers, transport, sent, stale, inst>>
  BY Zenon DEF SendResultRead, bus
<1>3. TypeOK'
  BY Zenon, <1>0, <1>1, <1>2 DEF TypeOK, DriverType
<1> QED
  BY <1>0, <1>1, <1>2, <1>3, CardStep

\* The response: an authenticated counter becomes the counter of a write frame, and
\* Init is done when the card has gone past the counter its dummy write used.
LEMMA ReceiveResponseInv ==
  ASSUME IInv, NEW p \in Proc, ReceiveResponse(p)
  PROVE  IInv'
<1>0. TypeOK /\ DriverType /\ counter \in Nat /\ resp.counter \in Counters
      /\ resp.buf \in Value /\ Zero \in Value /\ inst \in {"none", "init", "up"}
  <2>1. /\ TypeOK /\ DriverType /\ counter \in Counters /\ Zero \in Value
        /\ resp.counter \in Counters /\ resp.buf \in Value /\ inst \in {"none", "init", "up"}
    BY Zenon, ConstantAssumption DEF IInv, TypeOK, DriverType, Response
  <2>2. counter \in Nat
    BY <2>1, CounterLimit DEF Counters
  <2> QED
    BY Zenon, <2>1, <2>2
<1>1. UNCHANGED <<keyed, counter, mem, result, resp, callers, transport, sent, stale>>
  BY Zenon DEF ReceiveResponse, card, bus
<1>2. ASSUME NEW err \in BOOLEAN, NEW b \in Value, Return(p, err, b),
             inst' = inst \/ (inst' = "up" /\ \A f \in stale : f.counter < counter)
      PROVE  IInv'
  <2>1. /\ DriverType'
        /\ \A q \in Proc : \/ req'[q].type # "write" /\ req'[q].counter = 0
                           \/ req'[q].type = req[q].type /\ req'[q].counter = req[q].counter
    BY Zenon, <1>0, <1>2, ReturnLemma
  <2>2. TypeOK'
    BY Zenon, <1>0, <1>1, <1>2, <2>1 DEF TypeOK, DriverType
  <2> QED
    BY <1>0, <1>1, <1>2, <2>1, <2>2, CardStep
<1>3. CASE Return(p, TRUE, Zero) /\ UNCHANGED inst
  BY Zenon, <1>0, <1>2, <1>3
<1>4. CASE /\ Valid(p) /\ req[p].type = "counter" /\ call[p].kind \in {"init", "write"}
           /\ req' = [req EXCEPT ![p] = NewFrame("write", resp.counter,
                                                call[p].offset, call[p].buf)]
           /\ pc' = [pc EXCEPT ![p] = "send"]
           /\ lock' = NoProc
           /\ UNCHANGED <<inst, call, ret>>
  <2> DEFINE f == NewFrame("write", resp.counter, call[p].offset, call[p].buf)
  <2>1. f \in Frame
    BY Zenon, <1>0, FrameType DEF DriverType
  <2>2. f.counter = resp.counter
    BY Zenon DEF NewFrame
  <2>3. resp.type = "counter" /\ keyed
    <3>1. ResponseMAC(p)
      BY Zenon, <1>4 DEF ResponseMAC, RandomNonce
    <3> QED
      BY Zenon, <3>1, <1>4 DEF Valid, MacOK, IInv, MacsNeedKey
  <2> HIDE DEF f
  <2>4. DriverType'
    BY Zenon, <1>0, <1>4, <2>1 DEF DriverType, f
  <2>5. \A q \in Proc : req'[q] = IF q = p THEN f ELSE req[q]
    BY Zenon, <1>0, <1>4 DEF DriverType, f
  <2>6. TypeOK'
    BY Zenon, <1>0, <1>1, <1>4, <2>4 DEF TypeOK, DriverType
  <2> QED
    BY <1>0, <1>1, <1>4, <2>2, <2>3, <2>5, <2>6, CardStep
<1>5. CASE Return(p, FALSE, resp.buf) /\ UNCHANGED inst
  BY Zenon, <1>0, <1>2, <1>5
<1>6. CASE /\ Valid(p) /\ req[p].type = "write"
           /\ Return(p, ~CounterOK(p), Zero)
           /\ inst' = IF call[p].kind = "init" /\ CounterOK(p) THEN "up" ELSE inst
  <2>1. CASE ~CounterOK(p)
    BY Zenon, <1>0, <1>2, <1>6, <2>1
  <2>2. CASE CounterOK(p)
    <3>1. req[p].counter \in Counters /\ \A f \in stale : f.counter \in Counters
      BY Zenon, <1>0 DEF DriverType, Frame, TypeOK
    <3>2. resp.counter >= 1
      BY Zenon, <1>6 DEF Valid, IInv, WriteResponses
    <3>3. resp.counter = req[p].counter + 1
      BY Zenon, <1>0, <2>2, <3>1, <3>2, Successor DEF CounterOK
    <3>4. \A f \in stale : f.counter <= req[p].counter
      BY Zenon, <1>6 DEF IInv, ReadSincePowerOn
    <3>5. resp.counter <= counter
      BY Zenon DEF IInv, CountersBounded
    <3>6. \A f \in stale : f.counter < counter
      BY <1>0, <3>1, <3>3, <3>4, <3>5, CounterLimit DEF Counters
    <3> QED
      BY Zenon, <1>0, <1>2, <1>6, <2>2, <3>6
  <2> QED
    BY Zenon, <2>1, <2>2
<1> QED
  BY Zenon, <1>3, <1>4, <1>5, <1>6 DEF ReceiveResponse

\* Power on: frames recorded so far are old, and no response has been read.
LEMMA PowerCycleInv ==
  ASSUME IInv, PowerCycle
  PROVE  IInv'
<1>1. /\ NoResponse.counter = 0 /\ NoResponse.type = "none" /\ NoResponse.mac = FALSE
      /\ NoFrame.counter = 0 /\ NoFrame.type = "counter"
  BY Zenon DEF NoResponse, NoFrame, NewFrame
<1>2. DriverType'
  BY Zenon, Fixed DEF PowerCycle, DriverType
<1>3. TypeOK'
  BY Zenon, <1>2, Fixed DEF IInv, TypeOK, DriverType, PowerCycle
<1>4. \A p \in Proc : req'[p] = NoFrame
  BY Zenon DEF PowerCycle
<1>5. counter \in Nat
  BY CounterLimit DEF IInv, TypeOK, Counters
<1>6. CountersBounded'
  BY <1>1, <1>4, <1>5 DEF IInv, CountersBounded, PowerCycle
<1>7. WriteResponses' /\ ReadSincePowerOn' /\ StaleFramesDead'
  BY Zenon, <1>1, <1>4 DEF WriteResponses, ReadSincePowerOn, StaleFramesDead, PowerCycle
<1>8. MacsNeedKey'
  BY Zenon, <1>1, <1>4 DEF IInv, MacsNeedKey, PowerCycle
<1> QED
  BY Zenon, <1>3, <1>6, <1>7, <1>8 DEF IInv

\* A recorded frame that arrives late can only move the counter up.
LEMMA DeliverRecordedInv ==
  ASSUME IInv, NEW f \in sent \cup stale, DeliverRecorded(f)
  PROVE  IInv'
<1>0. TypeOK /\ f \in Frame /\ counter \in Nat
  BY CounterLimit DEF IInv, TypeOK, Counters
<1>1. /\ counter' \in Counters /\ mem' \in [Sector -> Value] /\ result' \in Response
      /\ counter' >= counter
      /\ result'.type = "write" /\ result'.counter = counter' /\ result'.mac = keyed
      /\ result'.result = "ok" => counter' = counter + 1
      /\ keyed' = keyed /\ resp' = resp
  BY Zenon, <1>0, CardWriteLemma DEF DeliverRecorded
<1>2. UNCHANGED <<callers, transport, sent, stale, lock, inst, pc, call, req, ret>>
  BY Zenon DEF DeliverRecorded, bus, driver
<1>3. TypeOK' /\ counter' \in Nat
  BY <1>0, <1>1, <1>2, CounterLimit DEF TypeOK, Counters
<1> QED
  BY <1>0, <1>1, <1>2, <1>3, CardStep

LEMMA CallersType == TypeOK => callers \subseteq Proc
<1>1. TypeOK => [callers |-> callers, transport |-> transport]
                  \in [callers: SUBSET Proc, transport: {"reporting", "lossy", "replaying"}]
  BY Zenon, ConstantAssumption DEF TypeOK
<1> QED
  BY <1>1

\* Every step preserves the invariant.
LEMMA NextInv == IInv /\ [Next]_vars => IInv'
<1> SUFFICES ASSUME IInv, [Next]_vars PROVE IInv'
  BY Zenon
<1>1. CASE UNCHANGED vars
  BY Zenon, <1>1 DEF vars, IInv, TypeOK, CountersBounded, WriteResponses, ReadSincePowerOn,
     MacsNeedKey, StaleFramesDead
<1>2. CASE Next
  BY Zenon, <1>2, InitInstanceInv, UseInv, SendRequestInv, SendResultReadInv, ReceiveResponseInv,
     PowerCycleInv, DeliverRecordedInv, CallersType DEF IInv, Next, Op
<1> QED
  BY Zenon, <1>1, <1>2

LEMMA Invariance == Spec => []IInv
  BY InitInv, NextInv, PTL DEF Spec

\* The driver, the card and the transport keep their types; in particular the card
\* never counts past CounterMax and no response carries a counter beyond it.
THEOREM TypeCorrect == Spec => []TypeOK
<1>1. IInv => TypeOK
  BY Zenon DEF IInv
<1> QED
  BY Invariance, <1>1, PTL

\* rpmb.Init invalidates uncommitted writes: once it has returned nil, a write frame
\* of an earlier boot that is still under way can never be committed, for any number
\* of callers, power cycles, losses and replays.
THEOREM DummyWriteInvalidates == Spec => []StaleFramesDead
<1>1. IInv => StaleFramesDead
  BY Zenon DEF IInv
<1> QED
  BY Invariance, <1>1, PTL

\* op() holds the mutex from its request to its response and releases it on every
\* path, for any number of callers, over any transport.
THEOREM MutexReleased == Spec => []MutexHeldInOp
<1>1. ASSUME Init PROVE MutexHeldInOp
  BY Zenon, <1>1, ConstantAssumption DEF Init, MutexHeldInOp
<1>2. ASSUME TypeOK, MutexHeldInOp, [Next]_vars PROVE MutexHeldInOp'
  <2>0. pc \in [Proc -> {"idle", "send", "result", "receive"}] /\ callers \subseteq Proc
    BY Zenon, <1>2, CallersType DEF TypeOK
  <2>1. ASSUME NEW p \in Proc, NEW err, NEW b, Return(p, err, b), lock \in {p, NoProc}
        PROVE  MutexHeldInOp'
    BY Zenon, <1>2, <2>0, <2>1, ConstantAssumption DEF MutexHeldInOp, Return
  <2>2. ASSUME NEW p \in Proc, NEW to, pc' = [pc EXCEPT ![p] = to], pc[p] \in {"idle", "send"},
               to \in {"idle", "send"}, lock' = lock
        PROVE  MutexHeldInOp'
    BY Zenon, <1>2, <2>0, <2>2 DEF MutexHeldInOp
  <2>3. ASSUME NEW p \in Proc, NEW to \in {"result", "receive"}, pc' = [pc EXCEPT ![p] = to],
               lock \in {p, NoProc}, lock' = p
        PROVE  MutexHeldInOp'
    BY Zenon, <1>2, <2>0, <2>3, ConstantAssumption DEF MutexHeldInOp
  <2>4. ASSUME NEW p \in Proc, InitInstance(p) \/ Use(p) PROVE MutexHeldInOp'
    <3>1. CASE UNCHANGED <<pc, lock>>
      BY Zenon, <1>2, <3>1 DEF MutexHeldInOp
    <3>2. ASSUME NEW kind, NEW o, NEW b, NEW f, Begin(p, kind, o, b, f) PROVE MutexHeldInOp'
      BY Zenon, <2>2, <3>2 DEF Begin
    <3> QED
      BY Zenon, <2>4, <3>1, <3>2 DEF InitInstance, Use, Read, Write, Counter, ProgramKey
  <2>5. ASSUME NEW p \in Proc, SendRequest(p) PROVE MutexHeldInOp'
    <3>1. lock = NoProc
      BY Zenon, <2>5 DEF SendRequest, MutexFree
    <3>2. \/ Return(p, TRUE, Zero)
          \/ lock' = p /\ \E to \in {"result", "receive"} : pc' = [pc EXCEPT ![p] = to]
      BY Zenon, <2>5 DEF SendRequest
    <3> QED
      BY Zenon, <2>1, <2>3, <3>1, <3>2
  <2>6. ASSUME NEW p \in Proc, SendResultRead(p) PROVE MutexHeldInOp'
    <3>1. lock = p
      BY Zenon, <1>2, <2>6 DEF SendResultRead, MutexHeldInOp
    <3>2. Return(p, TRUE, Zero) \/ (lock' = lock /\ pc' = [pc EXCEPT ![p] = "receive"])
      BY Zenon, <2>6 DEF SendResultRead
    <3> QED
      BY Zenon, <2>1, <2>3, <3>1, <3>2
  <2>7. ASSUME NEW p \in Proc, ReceiveResponse(p) PROVE MutexHeldInOp'
    <3>1. lock = p
      BY Zenon, <1>2, <2>7 DEF ReceiveResponse, MutexHeldInOp
    <3>2. \/ \E err \in BOOLEAN, b \in {Zero, resp.buf} : Return(p, err, b)
          \/ lock' = NoProc /\ pc' = [pc EXCEPT ![p] = "send"]
      BY Zenon, <2>7 DEF ReceiveResponse
    <3>3. CASE lock' = NoProc /\ pc' = [pc EXCEPT ![p] = "send"]
      BY Zenon, <1>2, <2>0, <3>1, <3>3, ConstantAssumption DEF MutexHeldInOp
    <3> QED
      BY Zenon, <2>1, <3>1, <3>2, <3>3
  <2>8. ASSUME PowerCycle PROVE MutexHeldInOp'
    BY Zenon, <2>8, ConstantAssumption DEF PowerCycle, MutexHeldInOp
  <2>9. ASSUME UNCHANGED <<pc, lock>> PROVE MutexHeldInOp'
    BY Zenon, <1>2, <2>9 DEF MutexHeldInOp
  <2> QED
    BY Zenon, <1>2, <2>0, <2>4, <2>5, <2>6, <2>7, <2>8, <2>9 DEF Next, Op, DeliverRecorded, driver, vars
<1> QED
  BY <1>1, <1>2, TypeCorrect, PTL DEF Spec
-----------------------------------------------------------------------------
(***************************************************************************)
(* The invariant over a transport that does not replay.  Whoever is        *)
(* between request and response has the mutex, and its frame is made from  *)
(* its call.  An answer with the nonce of its request is the answer to it, *)
(* since the nonce was not in the card before (Fresh).  Where requests are *)
(* lost silently a caller without competition sends the card's own counter *)
(* (Current), so what the card held before cannot name its successor       *)
(* (Stored).                                                               *)
(***************************************************************************)
InOp(p) == pc[p] \in {"result", "receive"}

FrameOfCall(p) ==
  \/ /\ call[p].kind \in {"init", "write"} /\ req[p].type = "write"
     /\ req[p].offset = call[p].offset /\ req[p].buf = call[p].buf
  \/ call[p].kind \in {"init", "write", "counter", "peek"} /\ req[p].type = "counter"
  \/ call[p].kind = "read" /\ req[p].type = "read" /\ req[p].offset = call[p].offset
  \/ call[p].kind = "program" /\ req[p].type = "program"

Fresh(p) == pc[p] = "receive" /\ RandomNonce(p) /\ resp.nonce = req[p].nonce =>
              /\ req[p].type = "read" => resp.buf = mem[call[p].offset]
              /\ req[p].type = "counter" => resp.counter = counter

\* What p may still take for the answer to its write frame
Answers(p) == IF pc[p] = "result" /\ ~SilentLoss THEN {result} ELSE {result, resp}
Names(r, p) == r.type = "write" /\ r.result = "ok" /\ r.counter = req[p].counter + 1
Stored(p) == InOp(p) /\ req[p].type = "write" => \A r \in Answers(p) : Names(r, p) =>
               Names(result, p) /\ mem[call[p].offset] = call[p].buf
Current(p) == SilentLoss /\ pc[p] = "send" /\ req[p].type = "write" => req[p].counter = counter

Local(p) == /\ InOp(p) => lock = p
            /\ pc[p] = "result" => ResultRead(req[p])
            /\ pc[p] # "idle" => p \in callers /\ FrameOfCall(p)
            /\ Fresh(p)
            /\ Exclusive => Stored(p) /\ Current(p)

\* Only the answer to a read carries data.
Bufs == /\ result.type # "read" /\ result.buf = Zero
        /\ resp.type # "read" => resp.buf = Zero

LInv == ~Replays => sent \cup stale = {} /\ Bufs /\ \A p \in Proc : Local(p)

\* What a frame that reaches the card does.
LEMMA CardEffect ==
  ASSUME TypeOK, NEW f \in Frame, CardProcess(f)
  PROVE  /\ Bufs => Bufs'
         /\ f.type # "write" => mem' = mem
         /\ f.type = "write" => /\ result'.type = "write"
                                /\ \/ /\ result'.result = "ok" /\ result'.counter = f.counter + 1
                                      /\ mem' = [mem EXCEPT ![f.offset] = f.buf]
                                   \/ result'.result # "ok" /\ mem' = mem
                                /\ resp' = resp
         /\ f.type \in {"read", "counter"} =>
              /\ resp'.type = f.type /\ resp'.nonce = f.nonce
              /\ resp'.buf = IF f.type = "read" THEN mem[f.offset] ELSE Zero
              /\ f.type = "counter" => resp'.counter = counter
              /\ mem' = mem /\ counter' = counter
<1>1. CASE f.type = "write"
  <2> DEFINE r == WriteResult(f)
             n == IF r = "ok" THEN counter + 1 ELSE counter
  <2>1. CardWrite(f)
    BY Zenon, <1>1 DEF CardProcess
  <2>2. r = "ok" => n = f.counter + 1
    BY Zenon DEF WriteResult
  <2>3. /\ result' = [NoResponse EXCEPT !.type = "write", !.counter = n, !.result = r, !.mac = keyed]
        /\ mem' = IF r = "ok" THEN [mem EXCEPT ![f.offset] = f.buf] ELSE mem
        /\ resp' = resp
    BY Zenon, <2>1 DEF CardWrite
  <2> HIDE DEF r, n
  <2>4. result'.type = "write" /\ result'.counter = n /\ result'.result = r /\ result'.buf = Zero
    BY Zenon, <2>3 DEF NoResponse
  <2> QED
    BY Zenon, <1>1, <2>2, <2>3, <2>4 DEF Bufs
<1>2. CASE f.type = "program"
  <2>1. CardProgram
    BY Zenon, <1>2 DEF CardProcess
  <2>2. PICK r : result' = [NoResponse EXCEPT !.type = "program", !.result = r]
    BY Zenon, <2>1 DEF CardProgram
  <2>3. result'.buf = Zero /\ result'.type = "program"
    BY Zenon, <2>2 DEF NoResponse
  <2> QED
    BY Zenon, <1>2, <2>1, <2>3 DEF CardProgram, Bufs
<1>3. CASE f.type \in {"counter", "read"}
  <2>1. CardAnswer(f)
    BY Zenon, <1>3 DEF CardProcess
  <2>2. /\ resp'.type = f.type /\ resp'.nonce = f.nonce
        /\ resp'.buf = IF f.type = "read" THEN mem[f.offset] ELSE Zero
        /\ f.type = "counter" => resp'.counter = counter
        /\ mem' = mem /\ counter' = counter /\ result' = result
    BY <2>1 DEF CardAnswer
  <2> QED
    BY Zenon, <1>3, <2>2 DEF Bufs
<1> QED
  BY Zenon, <1>1, <1>2, <1>3 DEF Frame

\* A goroutine that another's step does not touch, and that is not in an op() unless
\* the card is left alone too
LEMMA OthersLocal ==
  ASSUME NEW p \in callers, NEW q \in Proc \ {p}, Local(q), UNCHANGED <<callers, transport>>,
         pc'[q] = pc[q] /\ call'[q] = call[q] /\ req'[q] = req[q],
         InOp(q) => UNCHANGED <<counter, mem, result, resp, lock>>
  PROVE  Local(q)'
<1>1. (SilentLoss' <=> SilentLoss) /\ (Exclusive' <=> Exclusive)
  BY Zenon DEF SilentLoss, Exclusive
<1>2. (InOp(q)' <=> InOp(q)) /\ (FrameOfCall(q)' <=> FrameOfCall(q))
      /\ (ResultRead(req[q])' <=> ResultRead(req[q])) /\ (RandomNonce(q)' <=> RandomNonce(q))
  BY Zenon DEF InOp, FrameOfCall, ResultRead, RandomNonce
<1>3. CASE InOp(q)
  <2>1. Fresh(q)'
    BY Zenon, <1>2, <1>3 DEF Local, Fresh
  <2>2. Answers(q)' = Answers(q)
    BY Zenon, <1>1, <1>3 DEF Answers
  <2>3. Exclusive' => Stored(q)'
    BY Zenon, <1>1, <1>3, <2>2 DEF Local, Stored, Names
  <2>4. Current(q)'
    BY Zenon, <1>3 DEF InOp, Current
  <2> QED
    BY Zenon, <1>2, <1>3, <2>1, <2>3, <2>4 DEF Local
<1>4. CASE ~InOp(q)
  <2>1. Fresh(q)' /\ Stored(q)' /\ pc'[q] # "result"
    BY Zenon, <1>2, <1>4 DEF Fresh, Stored, InOp
  <2>2. Exclusive' => Current(q)'
    BY Zenon DEF Exclusive, SilentLoss, Current, Local
  <2> QED
    BY Zenon, <1>2, <1>4, <2>1, <2>2 DEF Local
<1> QED
  BY Zenon, <1>3, <1>4

\* A step of p, which has the mutex or takes it, if it changes anything that others look at
LEMMA LocalStep ==
  ASSUME LInv, NEW p \in Proc, p \in callers, UNCHANGED <<callers, transport>>, sent' \cup stale' = sent \cup stale,
         \A q \in Proc \ {p} : pc'[q] = pc[q] /\ call'[q] = call[q] /\ req'[q] = req[q],
         \/ UNCHANGED <<counter, mem, result, resp, lock>>
         \/ lock \in {p, NoProc},
         ~Replays => Local(p)', Bufs => Bufs'
  PROVE  LInv'
<1> SUFFICES ASSUME ~Replays PROVE sent' \cup stale' = {} /\ Bufs' /\ \A q \in Proc : Local(q)'
  BY Zenon DEF LInv, Replays
<1>1. ASSUME NEW q \in Proc \ {p} PROVE Local(q)'
  <2>1. Local(q)
    BY Zenon DEF LInv
  <2>2. InOp(q) => UNCHANGED <<counter, mem, result, resp, lock>>
    BY Zenon, <2>1, ConstantAssumption DEF Local
  <2> QED
    BY Zenon, <2>1, <2>2, OthersLocal
<1> QED
  BY Zenon, <1>1 DEF LInv

\* A goroutine outside an op() that has no write frame
LEMMA OutsideLocal ==
  ASSUME NEW p \in Proc, p \in callers', pc'[p] \in {"idle", "send"},
         pc'[p] = "send" => req'[p].type # "write" /\ FrameOfCall(p)'
  PROVE  Local(p)'
<1>1. ~InOp(p)' /\ pc'[p] # "receive" /\ pc'[p] # "result"
  BY Zenon DEF InOp
<1> QED
  BY Zenon, <1>1 DEF Local, Fresh, Stored, Current

LEMMA ReturnLocal ==
  ASSUME TypeOK, LInv, NEW p \in Proc, p \in callers, NEW err, NEW b, Return(p, err, b),
         UNCHANGED <<callers, transport>>, sent' \cup stale' = sent \cup stale, lock \in {p, NoProc}, Bufs => Bufs'
  PROVE  LInv'
<1>1. pc'[p] = "idle" /\ \A q \in Proc \ {p} : pc'[q] = pc[q] /\ call'[q] = call[q] /\ req'[q] = req[q]
  BY Zenon DEF TypeOK, Return
<1>2. Local(p)'
  BY Zenon, <1>1, OutsideLocal
<1> QED
  BY Zenon, <1>1, <1>2, LocalStep

LEMMA BeginLocal ==
  ASSUME TypeOK, LInv, NEW p \in Proc, p \in callers, NEW kind, NEW o, NEW b, NEW f,
         Begin(p, kind, o, b, f),
         \/ kind \in {"init", "write", "counter", "peek"} /\ f.type = "counter"
         \/ kind = "read" /\ f.type = "read" /\ f.offset = o
         \/ kind = "program" /\ f.type = "program"
  PROVE  LInv'
<1>1. /\ pc'[p] = "send" /\ req'[p] = f /\ call'[p] = [kind |-> kind, offset |-> o, buf |-> b]
      /\ \A q \in Proc \ {p} : pc'[q] = pc[q] /\ call'[q] = call[q] /\ req'[q] = req[q]
  BY Zenon DEF TypeOK, Begin
<1>2. call'[p].kind = kind /\ call'[p].offset = o
  BY <1>1
<1>3. FrameOfCall(p)' /\ req'[p].type # "write" /\ p \in callers'
  BY Zenon, <1>1, <1>2 DEF FrameOfCall, Begin, bus
<1>4. Local(p)'
  BY Zenon, <1>1, <1>3, OutsideLocal
<1>5. Bufs => Bufs'
  BY Zenon DEF Bufs, Begin, card
<1> QED
  BY Zenon, <1>1, <1>4, <1>5, LocalStep DEF Begin, card, bus

LEMMA CallLocal ==
  ASSUME TypeOK, LInv, NEW p \in Proc, p \in callers, InitInstance(p) \/ Use(p)
  PROVE  LInv'
<1>1. NoFrame.type = "counter"
  BY Zenon DEF NoFrame, NewFrame
<1>2. ASSUME NEW type, NEW o PROVE NewFrame(type, 0, o, Zero).type = type /\ NewFrame(type, 0, o, Zero).offset = o
  BY Zenon DEF NewFrame
<1>3. ASSUME NEW o \in Sector, Read(p, o) PROVE LInv'
  <2>1. NewFrame("read", 0, o, Zero).type = "read" /\ NewFrame("read", 0, o, Zero).offset = o
    BY Zenon, <1>2
  <2>2. Begin(p, "read", o, Zero, NewFrame("read", 0, o, Zero))
    BY Zenon, <1>3 DEF Read
  <2> QED
    BY Zenon, <2>1, <2>2, BeginLocal
<1>4. ASSUME NEW o \in Sector, NEW b \in Value, Write(p, o, b) PROVE LInv'
  BY Zenon, <1>1, <1>4, BeginLocal DEF Write
<1>5. ASSUME NEW auth \in BOOLEAN, Counter(p, auth) PROVE LInv'
  BY Zenon, <1>1, <1>5, BeginLocal DEF Counter
<1>6. CASE ProgramKey(p)
  BY Zenon, <1>2, <1>6, BeginLocal DEF ProgramKey
<1>7. CASE InitInstance(p)
  <2>1. CASE Begin(p, "init", dummyBlock, Zero, NoFrame)
    BY Zenon, <1>1, <2>1, BeginLocal
  <2>2. CASE UNCHANGED <<card, bus, lock, pc, call, req, ret>>
    <3>1. UNCHANGED <<counter, mem, result, resp, callers, transport, sent, stale, lock, pc, call, req>>
      BY Zenon, <2>2 DEF card, bus
    <3>2. ASSUME Local(p) PROVE Local(p)'
      BY Zenon, <3>1, <3>2 DEF Local, InOp, ResultRead, FrameOfCall, Fresh, RandomNonce, Exclusive,
         SilentLoss, Stored, Names, Answers, Current
    <3>3. Bufs => Bufs'
      BY Zenon, <3>1 DEF Bufs
    <3> QED
      BY Zenon, <3>1, <3>2, <3>3, LocalStep DEF LInv
  <2> QED
    BY Zenon, <1>7, <2>1, <2>2 DEF InitInstance
<1> QED
  BY Zenon, <1>3, <1>4, <1>5, <1>6, <1>7 DEF Use

\* card.WriteRPMB(req): the nonce is new, and a write frame that is lost in silence, or
\* refused, leaves no answer that names the successor of its counter.
LEMMA SendRequestLocal ==
  ASSUME IInv, LInv, NEW p \in Proc, p \in callers, SendRequest(p)
  PROVE  LInv'
<1>0. TypeOK /\ counter \in Nat /\ result.counter \in Nat /\ resp.counter \in Nat
      /\ result.counter <= counter /\ resp.counter <= counter
  BY CounterLimit DEF IInv, TypeOK, Counters, Response, CountersBounded
<1>1. PICK n \in IF RandomNonce(p) THEN Nonce \ {resp.nonce} ELSE {NoNonce}, arrives \in BOOLEAN :
        LET f == [req[p] EXCEPT !.nonce = n] IN
          /\ IF arrives THEN CardProcess(f) ELSE UNCHANGED card
          /\ sent' \in Recorded(f)
          /\ UNCHANGED <<callers, transport, stale, inst>>
          /\ \/ /\ arrives \/ SilentLoss
                /\ lock' = p
                /\ req' = [req EXCEPT ![p] = f]
                /\ pc' = [pc EXCEPT ![p] = IF ResultRead(f) THEN "result" ELSE "receive"]
                /\ UNCHANGED <<call, ret>>
             \/ Return(p, TRUE, Zero)
  BY Zenon DEF SendRequest
<1> DEFINE f == [req[p] EXCEPT !.nonce = n]
<1>2. /\ f.type = req[p].type /\ f.counter = req[p].counter /\ f.offset = req[p].offset
      /\ f.buf = req[p].buf /\ f.nonce = n /\ f.counter \in Nat /\ f.type \in {"program", "counter", "write", "read"}
      /\ f.offset \in Sector /\ f \in Frame
  <2>1. n \in Nonce \cup {NoNonce}
    BY Zenon
  <2> QED
    <3>1. req[p] \in Frame /\ CounterMax \in Nat
      BY Zenon, <1>0, ConstantAssumption DEF TypeOK
    <3> QED
      BY <2>1, <3>1 DEF Frame, Counters
<1>3. pc[p] = "send" /\ lock = NoProc /\ UNCHANGED <<callers, transport>> /\ stale' = stale
  BY Zenon, <1>1 DEF SendRequest, MutexFree
<1>4. sent' \in Recorded(f) /\ (IF arrives THEN CardProcess(f) ELSE UNCHANGED card)
  BY Zenon, <1>1
<1>5. \/ /\ arrives \/ SilentLoss
         /\ lock' = p
         /\ req' = [req EXCEPT ![p] = f]
         /\ pc' = [pc EXCEPT ![p] = IF ResultRead(f) THEN "result" ELSE "receive"]
         /\ UNCHANGED <<call, ret>>
      \/ Return(p, TRUE, Zero)
  BY Zenon, <1>1
<1> HIDE DEF f
<1> SUFFICES ASSUME ~Replays PROVE LInv'
  BY Zenon, <1>3 DEF LInv, Replays
<1>6. sent' \cup stale' = sent \cup stale
  BY Zenon, <1>3, <1>4 DEF Recorded
<1>B. Bufs => Bufs'
  <2>1. CASE arrives
    BY Zenon, <1>0, <1>2, <1>4, <2>1, CardEffect
  <2>2. CASE ~arrives
    BY Zenon, <1>4, <2>2 DEF card, Bufs
  <2> QED
    BY Zenon, <2>1, <2>2
<1>7. CASE Return(p, TRUE, Zero)
  BY Zenon, <1>0, <1>3, <1>6, <1>B, <1>7, ReturnLocal
<1>8. CASE /\ arrives \/ SilentLoss
           /\ lock' = p
           /\ req' = [req EXCEPT ![p] = f]
           /\ pc' = [pc EXCEPT ![p] = IF ResultRead(f) THEN "result" ELSE "receive"]
           /\ UNCHANGED <<call, ret>>
  <2>1. /\ pc'[p] = IF ResultRead(f) THEN "result" ELSE "receive"
        /\ req'[p] = f /\ call'[p] = call[p]
        /\ \A q \in Proc \ {p} : pc'[q] = pc[q] /\ call'[q] = call[q] /\ req'[q] = req[q]
    BY Zenon, <1>0, <1>8 DEF TypeOK
  <2>2. FrameOfCall(p) /\ (Exclusive => Current(p))
    BY Zenon, <1>3 DEF LInv, Local
  <2>3. FrameOfCall(p)'
    BY Zenon, <1>2, <2>1, <2>2 DEF FrameOfCall
  <2>4. /\ RandomNonce(p)' <=> RandomNonce(p)
        /\ SilentLoss' <=> SilentLoss
        /\ Exclusive' <=> Exclusive
    BY Zenon, <1>2, <1>3, <2>1 DEF RandomNonce, SilentLoss, Exclusive
  <2>5. Fresh(p)'
    <3> SUFFICES ASSUME pc'[p] = "receive", RandomNonce(p), resp'.nonce = f.nonce
                 PROVE  /\ f.type = "read" => resp'.buf = mem'[call[p].offset]
                        /\ f.type = "counter" => resp'.counter = counter'
      BY Zenon, <2>1, <2>4 DEF Fresh
    <3>1. n # resp.nonce /\ f.type \in {"read", "counter"}
      BY Zenon, <1>2 DEF RandomNonce
    <3>2. CardProcess(f)
      BY Zenon, <1>2, <1>4, <3>1 DEF card
    <3>3. /\ f.type = "read" => resp'.buf = mem[f.offset]
          /\ f.type = "counter" => resp'.counter = counter
          /\ mem' = mem /\ counter' = counter
      BY Zenon, <1>0, <1>2, <3>1, <3>2, CardEffect
    <3>4. f.type = "read" => f.offset = call[p].offset
      BY Zenon, <1>2, <2>2 DEF FrameOfCall
    <3> QED
      BY Zenon, <3>3, <3>4
  <2>6. Exclusive' => Stored(p)'
    <3> SUFFICES ASSUME Exclusive, f.type = "write", NEW r \in Answers(p)',
                        r.type = "write", r.result = "ok", r.counter = f.counter + 1
                 PROVE  /\ result'.type = "write" /\ result'.result = "ok"
                        /\ result'.counter = f.counter + 1
                        /\ mem'[call[p].offset] = call[p].buf
      BY Zenon, <2>1, <2>4 DEF Stored, Names
    <3>1. f.offset = call[p].offset /\ f.buf = call[p].buf
      BY Zenon, <1>2, <2>2 DEF FrameOfCall
    <3>2. pc'[p] = "result"
      BY Zenon, <2>1 DEF ResultRead
    <3>3. SilentLoss => f.counter = counter
      BY Zenon, <1>2, <1>3, <2>2 DEF Current
    <3>4. CASE ~arrives
      <4>1. r \in {result, resp} /\ SilentLoss
        BY Zenon, <1>4, <1>8, <3>4 DEF Answers, card
      <4> QED
        BY <1>0, <3>3, <4>1
    <3>5. CASE arrives
      <4>1. /\ \/ result'.result = "ok" /\ mem' = [mem EXCEPT ![f.offset] = f.buf]
               \/ result'.result # "ok"
            /\ resp' = resp
        BY Zenon, <1>0, <1>2, <1>4, <3>5, CardEffect
      <4>2. CASE r = result'
        <5>1. mem' = [mem EXCEPT ![f.offset] = f.buf]
          BY Zenon, <4>1, <4>2
        <5> QED
          BY Zenon, <1>0, <1>2, <3>1, <4>2, <5>1 DEF TypeOK
      <4>3. CASE r # result'
        <5>1. r = resp' /\ SilentLoss
          BY Zenon, <2>4, <3>2, <4>3 DEF Answers
        <5> QED
          BY <1>0, <3>3, <4>1, <5>1
      <4> QED
        BY Zenon, <4>2, <4>3
    <3> QED
      BY Zenon, <3>4, <3>5
  <2>7. Local(p)'
    <3>1. /\ lock' = p /\ pc'[p] # "idle" /\ pc'[p] # "send"
          /\ pc'[p] = "result" => ResultRead(req[p])'
      BY <1>8, <2>1 DEF ResultRead
    <3> QED
      BY Zenon, <1>3, <2>3, <2>5, <2>6, <3>1 DEF Local, Current
  <2> QED
    BY Zenon, <1>3, <1>6, <1>B, <2>1, <2>7, LocalStep
<1> QED
  BY Zenon, <1>5, <1>7, <1>8

\* card.WriteRPMB(resReq): the result register, or what was there before
LEMMA SendResultReadLocal ==
  ASSUME IInv, LInv, NEW p \in Proc, p \in callers, SendResultRead(p)
  PROVE  LInv'
<1>0. TypeOK /\ pc[p] = "result"
  BY Zenon DEF IInv, SendResultRead
<1>1. UNCHANGED <<counter, mem, result, callers, transport, sent, stale>>
  BY Zenon DEF SendResultRead, bus
<1> SUFFICES ASSUME ~Replays PROVE LInv'
  BY Zenon, <1>1 DEF LInv, Replays
<1>2. lock = p /\ Local(p)
  BY Zenon, <1>0 DEF LInv, Local, InOp
<1>B. Bufs => Bufs'
  <2>1. resp' \in {result, resp}
    BY Zenon DEF SendResultRead
  <2> QED
    BY Zenon, <1>1, <2>1 DEF Bufs
<1>3. CASE Return(p, TRUE, Zero)
  BY Zenon, <1>0, <1>1, <1>2, <1>B, <1>3, ReturnLocal
<1>4. CASE /\ resp' = result \/ (resp' = resp /\ SilentLoss)
           /\ pc' = [pc EXCEPT ![p] = "receive"]
           /\ UNCHANGED <<lock, call, req, ret>>
  <2>1. /\ pc'[p] = "receive" /\ req'[p] = req[p] /\ call'[p] = call[p]
        /\ \A q \in Proc \ {p} : pc'[q] = pc[q] /\ call'[q] = call[q] /\ req'[q] = req[q]
    BY Zenon, <1>0, <1>4 DEF TypeOK
  <2>2. ResultRead(req[p]) /\ FrameOfCall(p)
    BY Zenon, <1>0, <1>2 DEF Local
  <2>3. FrameOfCall(p)'
    BY Zenon, <2>1, <2>2 DEF FrameOfCall
  <2>4. Fresh(p)'
    BY Zenon, <2>1, <2>2 DEF Fresh, ResultRead
  <2>5. Exclusive' => Stored(p)'
    <3>1. (Exclusive' <=> Exclusive) /\ Answers(p)' = {result, resp'}
      BY Zenon, <1>1, <2>1 DEF Exclusive, SilentLoss, Answers
    <3>2. {result, resp'} \subseteq Answers(p)
      BY Zenon, <1>4 DEF Answers
    <3>3. InOp(p)
      BY Zenon, <1>0 DEF InOp
    <3> QED
      BY Zenon, <1>1, <1>2, <2>1, <3>1, <3>2, <3>3 DEF Local, Stored, Names
  <2>6. Local(p)'
    BY Zenon, <1>1, <1>2, <1>4, <2>1, <2>3, <2>4, <2>5 DEF Local, Current
  <2> QED
    BY Zenon, <1>1, <1>2, <1>B, <2>1, <2>6, LocalStep
<1> QED
  BY Zenon, <1>3, <1>4 DEF SendResultRead

\* The response: the write frame gets the card's own counter.
LEMMA ReceiveResponseLocal ==
  ASSUME IInv, LInv, NEW p \in Proc, p \in callers, ReceiveResponse(p)
  PROVE  LInv'
<1>0. TypeOK /\ pc[p] = "receive"
  BY Zenon DEF IInv, ReceiveResponse
<1>1. UNCHANGED <<counter, mem, result, resp, callers, transport, sent, stale>>
  BY Zenon DEF ReceiveResponse, card, bus
<1> SUFFICES ASSUME ~Replays PROVE LInv'
  BY Zenon, <1>1 DEF LInv, Replays
<1>2. lock = p /\ Local(p)
  BY Zenon, <1>0 DEF LInv, Local, InOp
<1>B. Bufs => Bufs'
  BY Zenon, <1>1 DEF Bufs
<1>3. ASSUME NEW err, NEW b, Return(p, err, b) PROVE LInv'
  BY Zenon, <1>0, <1>1, <1>2, <1>B, <1>3, ReturnLocal
<1>4. CASE /\ Valid(p) /\ req[p].type = "counter" /\ call[p].kind \in {"init", "write"}
           /\ req' = [req EXCEPT ![p] = NewFrame("write", resp.counter,
                                                call[p].offset, call[p].buf)]
           /\ pc' = [pc EXCEPT ![p] = "send"]
           /\ UNCHANGED call
  <2> DEFINE f == NewFrame("write", resp.counter, call[p].offset, call[p].buf)
  <2>1. /\ pc'[p] = "send" /\ req'[p] = f /\ call'[p] = call[p]
        /\ \A q \in Proc \ {p} : pc'[q] = pc[q] /\ call'[q] = call[q] /\ req'[q] = req[q]
    BY Zenon, <1>0, <1>4 DEF TypeOK
  <2>2. /\ f.type = "write" /\ f.counter = resp.counter
        /\ f.offset = call[p].offset /\ f.buf = call[p].buf
    BY Zenon DEF NewFrame
  <2>3. resp.counter = counter
    BY Zenon, <1>0, <1>2, <1>4 DEF Local, Fresh, RandomNonce, Valid, NonceOK
  <2> HIDE DEF f
  <2>4. FrameOfCall(p)' /\ Current(p)'
    BY Zenon, <1>1, <1>4, <2>1, <2>2, <2>3 DEF FrameOfCall, Current
  <2>5. Local(p)'
    BY Zenon, <1>1, <2>1, <2>4 DEF Local, Fresh, Stored, InOp
  <2> QED
    BY Zenon, <1>1, <1>2, <1>B, <2>1, <2>5, LocalStep
<1> QED
  BY Zenon, <1>3, <1>4 DEF ReceiveResponse

LEMMA LossInvariance == Spec => []LInv
<1>1. ASSUME Init PROVE LInv
  <2>1. \A p \in Proc : pc[p] = "idle"
    BY Zenon, <1>1 DEF Init
  <2>2. \A p \in Proc : Local(p)
    BY Zenon, <2>1 DEF Local, InOp, Fresh, Stored, Current
  <2> QED
    BY Zenon, <1>1, <2>2 DEF LInv, Bufs, NoResponse, Init
<1>2. ASSUME IInv, LInv, [Next]_vars PROVE LInv'
  <2>0. TypeOK
    BY Zenon, <1>2 DEF IInv
  <2>1. CASE UNCHANGED vars
    <3>1. ASSUME NEW p \in Proc, Local(p) PROVE Local(p)'
      BY Zenon, <2>1, <3>1 DEF vars, Local, InOp, ResultRead, FrameOfCall, Fresh, RandomNonce,
         Exclusive, SilentLoss, Stored, Names, Answers, Current
    <3> QED
      BY Zenon, <1>2, <2>1, <3>1 DEF LInv, Bufs, Replays, vars
  <2>2. CASE PowerCycle
    <3>1. \A p \in Proc : pc'[p] = "idle"
      BY Zenon, <2>2 DEF PowerCycle
    <3>2. \A p \in Proc : Local(p)'
      BY Zenon, <3>1 DEF Local, InOp, Fresh, Stored, Current
    <3> QED
      BY Zenon, <1>2, <2>2, <3>2 DEF LInv, Bufs, NoResponse, Replays, PowerCycle
  <2>3. ASSUME NEW f \in sent \cup stale, DeliverRecorded(f) PROVE LInv'
    BY Zenon, <1>2, <2>3 DEF LInv, DeliverRecorded, bus, Replays
  <2> QED
    BY Zenon, <1>2, <2>0, <2>1, <2>2, <2>3, CallLocal, SendRequestLocal, SendResultReadLocal,
       ReceiveResponseLocal, CallersType DEF Next, Op
<1> QED
  BY <1>1, <1>2, Invariance, PTL DEF Spec

\* A nil error comes from a valid response only, for a Write one with the next counter.
LEMMA NilReturn ==
  ASSUME IInv, LInv, ~Replays, [Next]_vars, NEW p \in Proc, ReturnsNil(p)
  PROVE  /\ Valid(p)
         /\ \/ call[p].kind \in {"counter", "peek", "program", "read"} /\ ret'[p].buf = resp.buf
            \/ req[p].type = "write" /\ CounterOK(p)
<1>0. /\ pc \in [Proc -> {"idle", "send", "result", "receive"}]
      /\ ret \in [Proc -> [err: BOOLEAN, buf: Value]]
      /\ pc[p] = "receive" /\ pc'[p] = "idle" /\ ~ret'[p].err
  BY Zenon DEF IInv, TypeOK, ReturnsNil
<1>1. ~PowerCycle
  BY <1>0 DEF PowerCycle, Failed
<1>2. ASSUME NEW q \in Proc PROVE ~InitInstance(q) /\ ~Use(q)
  BY Zenon, <1>0 DEF InitInstance, Use, Read, Write, Counter, ProgramKey, Begin
<1>3. ASSUME NEW q \in Proc PROVE ~SendRequest(q) /\ ~SendResultRead(q)
  BY ZenonT(30), <1>0 DEF SendRequest, SendResultRead, Return
<1>4. ASSUME NEW f \in sent \cup stale PROVE ~DeliverRecorded(f)
  BY Zenon DEF LInv
<1>5. PICK q \in Proc : ReceiveResponse(q)
  BY Zenon, <1>0, <1>1, <1>2, <1>3, <1>4, CallersType DEF IInv, Next, Op, vars
<1>6. q = p
  BY Zenon, <1>0, <1>5 DEF ReceiveResponse, Return
<1>7. ASSUME NEW err, NEW b, Return(p, err, b) PROVE ret'[p].err = err /\ ret'[p].buf = b
  BY Zenon, <1>0, <1>7 DEF Return
<1> QED
  BY Zenon, <1>0, <1>5, <1>6, <1>7 DEF ReceiveResponse

\* An acknowledgement that op() and transfer() accept is that of the caller's own frame.
LEMMA Acknowledged ==
  ASSUME IInv, Exclusive, NEW p \in Proc, Local(p), pc[p] = "receive", Valid(p),
         req[p].type = "write", CounterOK(p)
  PROVE  Names(result, p) /\ mem[call[p].offset] = call[p].buf
<1>1. resp.type = "write" /\ resp.result = "ok"
  BY Zenon DEF Valid
<1>2. resp.counter = req[p].counter + 1
  <2>1. resp.counter \in Counters /\ req[p].counter \in Counters
    BY Zenon DEF IInv, TypeOK, Response, Frame
  <2>2. resp.counter >= 1
    BY Zenon, <1>1 DEF IInv, WriteResponses
  <2> QED
    BY Zenon, <2>1, <2>2, Successor DEF CounterOK
<1> QED
  BY Zenon, <1>1, <1>2 DEF Local, Stored, Names, InOp, Answers

\* A Read that returns nil returns what the sector holds at that moment, for any number
\* of concurrent callers and also where requests are lost silently: op's nonce check.
THEOREM ReadsFresh == Spec => ReadFresh
<1>1. ASSUME IInv, LInv, [Next]_vars, NEW p \in Proc, ~Replays, ReturnsNil(p), call[p].kind = "read"
      PROVE  ret'[p].buf = mem[call[p].offset]
  <2>1. pc[p] = "receive" /\ Local(p)
    BY Zenon, <1>1 DEF LInv, ReturnsNil
  <2>2. req[p].type = "read"
    BY Zenon, <1>1, <2>1 DEF Local, FrameOfCall
  <2>3. Valid(p) /\ ret'[p].buf = resp.buf
    BY Zenon, <1>1, <2>2, NilReturn
  <2> QED
    BY Zenon, <2>1, <2>2, <2>3 DEF Local, Fresh, RandomNonce, Valid, NonceOK
<1>2. IInv /\ LInv /\ [Next]_vars =>
        [\A p \in Proc : ~Replays /\ ReturnsNil(p) /\ call[p].kind = "read"
                           => ret'[p].buf = mem[call[p].offset]]_vars
  BY Zenon, <1>1
<1> QED
  BY <1>2, Invariance, LossInvariance, PTL DEF Spec, ReadFresh

\* A Write that returns nil has its data in the card at that moment: for any number of
\* concurrent callers if the transport reports its errors, and for one caller also if
\* it loses requests silently.
THEOREM WritesStored == Spec => AckedWriteStored
<1>1. ASSUME IInv, LInv, [Next]_vars, NEW p \in Proc, ~Replays, Exclusive, ReturnsNil(p),
             call[p].kind \in {"init", "write"}
      PROVE  mem[call[p].offset] = call[p].buf
  <2>1. pc[p] = "receive" /\ Local(p)
    BY Zenon, <1>1 DEF LInv, ReturnsNil
  <2>2. Valid(p) /\ req[p].type = "write" /\ CounterOK(p)
    BY Zenon, <1>1, NilReturn
  <2> QED
    BY Zenon, <1>1, <2>1, <2>2, Acknowledged
<1>2. IInv /\ LInv /\ [Next]_vars =>
        [\A p \in Proc : ~Replays /\ Exclusive /\ ReturnsNil(p) /\ call[p].kind \in {"init", "write"}
                           => mem[call[p].offset] = call[p].buf]_vars
  BY Zenon, <1>1
<1> QED
  BY <1>2, Invariance, LossInvariance, PTL DEF Spec, AckedWriteStored
-----------------------------------------------------------------------------
(***************************************************************************)
(* The refinement.  What AuthMemory asks for beyond LInv is that a call    *)
(* counts as applied from the step at which the card accepts its frame     *)
(* until it returns: the registers of the card answer no other frame of    *)
(* whoever has the mutex.                                                  *)
(***************************************************************************)
RInv == IInv /\ LInv /\ ~Replays /\ Exclusive

LEMMA OthersOut ==
  ASSUME RInv, NEW p \in Proc, lock \in {p, NoProc}
  PROVE  \A q \in Proc \ {p} : ~InOp(q)
  BY Zenon, ConstantAssumption DEF RInv, LInv, Local

\* A step of one goroutine leaves the abstract stage and value of the others alone.
Moves(p) ==
  /\ stage' = [stage EXCEPT ![p] = stage'[p]]
  /\ val' = [val EXCEPT ![p] = val'[p]]
  /\ stage[p] = IF pc[p] = "idle" THEN "idle" ELSE IF Applied(p) THEN "applied" ELSE "pending"
  /\ stage'[p] = IF pc'[p] = "idle" THEN "idle" ELSE IF Applied(p)' THEN "applied" ELSE "pending"
  /\ val[p] = IF Applied(p) /\ req[p].type = "read" THEN resp.buf ELSE Zero
  /\ val'[p] = IF Applied(p)' /\ req'[p].type = "read" THEN resp'.buf ELSE Zero

LEMMA OneMoves ==
  ASSUME NEW p \in Proc,
         \A q \in Proc \ {p} : /\ pc'[q] = pc[q] /\ (Applied(q)' <=> Applied(q))
                               /\ Applied(q) => resp' = resp /\ req'[q] = req[q]
  PROVE  Moves(p)
<1>1. \A q \in Proc : stage[q] = IF pc[q] = "idle" THEN "idle" ELSE IF Applied(q) THEN "applied" ELSE "pending"
  BY Zenon DEF stage
<1>2. \A q \in Proc : stage'[q] = IF pc'[q] = "idle" THEN "idle" ELSE IF Applied(q)' THEN "applied" ELSE "pending"
  BY Zenon DEF stage
<1>3. \A q \in Proc : val[q] = IF Applied(q) /\ req[q].type = "read" THEN resp.buf ELSE Zero
  BY Zenon DEF val
<1>4. \A q \in Proc : val'[q] = IF Applied(q)' /\ req'[q].type = "read" THEN resp'.buf ELSE Zero
  BY Zenon DEF val
<1>5. \A q \in Proc \ {p} : stage'[q] = stage[q] /\ val'[q] = val[q]
  BY <1>1, <1>2, <1>3, <1>4
<1>6. stage = [q \in Proc |-> stage[q]] /\ stage' = [q \in Proc |-> stage'[q]]
  BY Zenon DEF stage
<1>7. val = [q \in Proc |-> val[q]] /\ val' = [q \in Proc |-> val'[q]]
  BY Zenon DEF val
<1>8. stage' = [stage EXCEPT ![p] = stage'[p]]
  BY Zenon, <1>5, <1>6
<1>9. val' = [val EXCEPT ![p] = val'[p]]
  BY Zenon, <1>5, <1>7
<1> QED
  BY Zenon, <1>1, <1>2, <1>3, <1>4, <1>8, <1>9 DEF Moves

\* While one goroutine has the mutex, or takes it, no call of another has been applied.
LEMMA Alone ==
  ASSUME NEW p \in Proc, \A q \in Proc \ {p} : pc'[q] = pc[q] /\ ~InOp(q)
  PROVE  Moves(p)
<1>1. \A q \in Proc \ {p} : /\ pc'[q] = pc[q] /\ (Applied(q)' <=> Applied(q))
                            /\ Applied(q) => resp' = resp /\ req'[q] = req[q]
  BY Zenon DEF InOp, Applied
<1> QED
  BY Zenon, <1>1, OneMoves

\* A call that begins is an abstract Invoke, whatever its first frame.
LEMMA BeginStep ==
  ASSUME RInv, NEW p \in Proc, NEW kind \in Kind, NEW o \in Sector, NEW b \in Value,
         NEW f, Begin(p, kind, o, b, f)
  PROVE  Abstract!Next
<1> DEFINE c == [kind |-> kind, offset |-> o, buf |-> b]
<1>0. /\ pc \in [Proc -> {"idle", "send", "result", "receive"}] /\ req \in [Proc -> Frame]
      /\ call \in [Proc -> [kind: Kind \cup {"none"}, offset: Sector, buf: Value]]
  BY Zenon DEF RInv, IInv, TypeOK
<1>1. /\ pc[p] = "idle" /\ pc' = [pc EXCEPT ![p] = "send"] /\ call' = [call EXCEPT ![p] = c]
      /\ req' = [req EXCEPT ![p] = f] /\ UNCHANGED <<mem, result, resp, ret>>
  BY Zenon DEF Begin, card, bus
<1>2. c \in [kind: {"none", "init", "write", "read", "counter", "peek", "program"},
             offset: Sector, buf: Value]
  BY Zenon DEF Kind
<1> HIDE DEF c
<1>3. \A q \in Proc \ {p} : pc'[q] = pc[q] /\ req'[q] = req[q]
  BY Zenon, <1>0, <1>1
<1>4. pc'[p] = "send"
  BY Zenon, <1>0, <1>1
<1>6. \A q \in Proc \ {p} : /\ pc'[q] = pc[q] /\ (Applied(q)' <=> Applied(q))
                            /\ Applied(q) => resp' = resp /\ req'[q] = req[q]
  BY Zenon, <1>1, <1>3 DEF Applied
<1>7. ~Applied(p) /\ ~Applied(p)'
  BY Zenon, <1>1, <1>4 DEF Applied
<1>8. /\ stage[p] = "idle" /\ stage' = [stage EXCEPT ![p] = "pending"]
      /\ val[p] = Zero /\ val' = [val EXCEPT ![p] = Zero]
  <2>1. Moves(p)
    BY Zenon, <1>6, OneMoves
  <2> QED
    BY Zenon, <1>1, <1>4, <1>7, <2>1 DEF Moves
<1>9. val' = val
  <2>1. val = [q \in Proc |-> val[q]]
    BY Zenon DEF val
  <2> QED
    BY Zenon, <1>8, <2>1
<1>10. Abstract!Invoke(p, c)
  BY Zenon, <1>1, <1>8, <1>9 DEF Abstract!Invoke
<1> QED
  BY Zenon, <1>2, <1>10 DEF Abstract!Next, Abstract!Call

LEMMA InitInstanceStep ==
  ASSUME RInv, NEW p \in Proc, InitInstance(p)
  PROVE  [Abstract!Next]_Abstract!vars
<1>1. CASE Begin(p, "init", dummyBlock, Zero, NoFrame)
  <2>1. "init" \in Kind
    BY Zenon DEF Kind
  <2> QED
    BY Zenon, <1>1, <2>1, ConstantAssumption, BeginStep
<1>2. CASE UNCHANGED <<card, bus, lock, pc, call, req, ret>>
  <2>1. UNCHANGED <<keyed, counter, mem, result, resp, callers, transport, sent, stale, lock, pc, call, req, ret>>
    BY Zenon, <1>2 DEF card, bus
  <2>2. UNCHANGED Abstract!vars
    BY Zenon, <2>1 DEF Abstract!vars, stage, val, Applied
  <2> QED
    BY Zenon, <2>2
<1> QED
  BY Zenon, <1>1, <1>2 DEF InitInstance

LEMMA UseStep ==
  ASSUME RInv, NEW p \in Proc, Use(p)
  PROVE  [Abstract!Next]_Abstract!vars
<1>1. {"read", "write", "counter", "peek", "program"} \subseteq Kind
  BY Zenon DEF Kind
<1>3. ASSUME NEW o \in Sector, Read(p, o) PROVE Abstract!Next
  BY Zenon, <1>1, <1>3, ConstantAssumption, BeginStep DEF Read
<1>4. ASSUME NEW o \in Sector, NEW b \in Value, Write(p, o, b) PROVE Abstract!Next
  BY Zenon, <1>1, <1>4, ConstantAssumption, BeginStep DEF Write
<1>5. ASSUME NEW auth \in BOOLEAN, Counter(p, auth) PROVE Abstract!Next
  BY Zenon, <1>1, <1>5, ConstantAssumption, BeginStep DEF Counter
<1>6. CASE ProgramKey(p)
  BY Zenon, <1>1, <1>6, ConstantAssumption, BeginStep DEF ProgramKey
<1> QED
  BY Zenon, <1>3, <1>4, <1>5, <1>6 DEF Use

\* A goroutine that returns leaves nothing of its call behind.
LEMMA ReturnStep ==
  ASSUME RInv, NEW p \in Proc, NEW err \in BOOLEAN, NEW b \in Value, Return(p, err, b),
         lock \in {p, NoProc}, pc[p] # "idle"
  PROVE  /\ stage[p] # "idle" /\ stage' = [stage EXCEPT ![p] = "idle"]
         /\ val' = [val EXCEPT ![p] = Zero]
         /\ call' = [call EXCEPT ![p] = NoCall]
         /\ ret' = [ret EXCEPT ![p] = [err |-> err, buf |-> b]]
         /\ stage[p] = IF Applied(p) THEN "applied" ELSE "pending"
         /\ val[p] = IF Applied(p) /\ req[p].type = "read" THEN resp.buf ELSE Zero
<1>0. /\ pc \in [Proc -> {"idle", "send", "result", "receive"}] /\ req \in [Proc -> Frame]
  BY Zenon DEF RInv, IInv, TypeOK
<1>1. /\ pc' = [pc EXCEPT ![p] = "idle"]
      /\ call' = [call EXCEPT ![p] = NoCall] /\ req' = [req EXCEPT ![p] = NoFrame]
      /\ ret' = [ret EXCEPT ![p] = [err |-> err, buf |-> b]]
  BY Zenon DEF Return
<1>2. pc'[p] = "idle" /\ \A q \in Proc \ {p} : pc'[q] = pc[q]
  BY Zenon, <1>0, <1>1
<1>3. \A q \in Proc \ {p} : ~InOp(q)
  BY Zenon, OthersOut
<1>6. ~Applied(p)'
  BY Zenon, <1>2 DEF Applied
<1>7. Moves(p)
  BY Zenon, <1>2, <1>3, Alone
<1> QED
  BY Zenon, <1>1, <1>2, <1>6, <1>7 DEF Moves

\* An error is an abstract Return whatever the card has done.
LEMMA FailStep ==
  ASSUME RInv, NEW p \in Proc, Return(p, TRUE, Zero), mem' = mem,
         lock \in {p, NoProc}, pc[p] # "idle"
  PROVE  Abstract!Next
<1>1. Zero \in Value /\ TRUE \in BOOLEAN
  BY Zenon, ConstantAssumption
<1>2. /\ stage[p] # "idle" /\ stage' = [stage EXCEPT ![p] = "idle"]
      /\ val' = [val EXCEPT ![p] = Zero]
      /\ call' = [call EXCEPT ![p] = NoCall]
      /\ ret' = [ret EXCEPT ![p] = [err |-> TRUE, buf |-> Zero]]
  BY Zenon, <1>1, ReturnStep
<1>3. Abstract!Return(p, TRUE)
  BY Zenon, <1>2 DEF Abstract!Return, Abstract!NoCall, NoCall
<1> QED
  BY Zenon, <1>3 DEF Abstract!Next

\* card.WriteRPMB(req): the step at which a call takes effect.  A frame that is lost or
\* refused leaves the registers without an answer to it.
LEMMA SendRequestStep ==
  ASSUME RInv, NEW p \in Proc, SendRequest(p)
  PROVE  [Abstract!Next]_Abstract!vars
<1>0. /\ pc \in [Proc -> {"idle", "send", "result", "receive"}] /\ req \in [Proc -> Frame]
      /\ call \in [Proc -> [kind: Kind \cup {"none"}, offset: Sector, buf: Value]]
      /\ mem \in [Sector -> Value] /\ TypeOK
  BY Zenon DEF RInv, IInv, TypeOK
<1>1. PICK n \in IF RandomNonce(p) THEN Nonce \ {resp.nonce} ELSE {NoNonce}, arrives \in BOOLEAN :
        LET f == [req[p] EXCEPT !.nonce = n] IN
          /\ IF arrives THEN CardProcess(f) ELSE UNCHANGED card
          /\ sent' \in Recorded(f)
          /\ UNCHANGED <<callers, transport, stale, inst>>
          /\ \/ /\ arrives \/ SilentLoss
                /\ lock' = p
                /\ req' = [req EXCEPT ![p] = f]
                /\ pc' = [pc EXCEPT ![p] = IF ResultRead(f) THEN "result" ELSE "receive"]
                /\ UNCHANGED <<call, ret>>
             \/ Return(p, TRUE, Zero)
  BY Zenon DEF SendRequest
<1> DEFINE f == [req[p] EXCEPT !.nonce = n]
<1>2. /\ f \in Frame /\ f.type = req[p].type /\ f.counter = req[p].counter
      /\ f.offset = req[p].offset /\ f.buf = req[p].buf /\ f.nonce = n
  <2>1. n \in Nonce \cup {NoNonce}
    BY Zenon
  <2> QED
    BY <1>0, <2>1 DEF Frame
<1>3. IF arrives THEN CardProcess(f) ELSE UNCHANGED <<mem, result, resp>>
  BY Zenon, <1>1 DEF card
<1>4. pc[p] = "send" /\ lock = NoProc /\ FrameOfCall(p) /\ Current(p)
  BY Zenon DEF SendRequest, MutexFree, RInv, LInv, Local
<1>5. /\ f.type \in {"program", "counter", "write", "read"} /\ call[p].offset \in Sector
      /\ f.type = "write" => /\ call[p].kind \in {"init", "write"}
                             /\ f.offset = call[p].offset /\ f.buf = call[p].buf
      /\ f.type = "read" => call[p].kind = "read" /\ f.offset = call[p].offset
  BY Zenon, <1>0, <1>2, <1>4 DEF FrameOfCall, Frame
<1> HIDE DEF f
<1>6. ~Applied(p) /\ \A q \in Proc \ {p} : ~InOp(q)
  BY Zenon, <1>4, OthersOut DEF Applied
<1>7. CASE Return(p, TRUE, Zero)
  <2>1. mem' = mem \/ (f.type = "write" /\ mem' = [mem EXCEPT ![f.offset] = f.buf])
    BY Zenon, <1>0, <1>2, <1>3, CardEffect
  <2>2. CASE mem' = mem
    BY Zenon, <1>4, <1>7, <2>2, FailStep
  <2>3. CASE f.type = "write" /\ mem' = [mem EXCEPT ![f.offset] = f.buf]
    <3>1. /\ stage' = [stage EXCEPT ![p] = "idle"]
          /\ val' = [val EXCEPT ![p] = Zero]
          /\ call' = [call EXCEPT ![p] = NoCall]
          /\ ret' = [ret EXCEPT ![p] = [err |-> TRUE, buf |-> Zero]]
          /\ stage[p] = IF Applied(p) THEN "applied" ELSE "pending"
          /\ val[p] = IF Applied(p) /\ req[p].type = "read" THEN resp.buf ELSE Zero
      BY Zenon, <1>4, <1>7, ConstantAssumption, ReturnStep
    <3>2. val = [q \in Proc |-> val[q]]
      BY Zenon DEF val
    <3>3. val' = val /\ stage[p] = "pending"
      BY Zenon, <1>6, <3>1, <3>2
    <3>4. Abstract!ApplyAndFail(p)
      BY Zenon, <1>5, <2>3, <3>1, <3>3 DEF Abstract!ApplyAndFail, Abstract!Writes, Abstract!Failed,
         Abstract!NoCall, NoCall
    <3> QED
      BY Zenon, <3>4 DEF Abstract!Next
  <2> QED
    BY Zenon, <2>1, <2>2, <2>3
<1>8. CASE /\ arrives \/ SilentLoss
           /\ req' = [req EXCEPT ![p] = f]
           /\ pc' = [pc EXCEPT ![p] = IF ResultRead(f) THEN "result" ELSE "receive"]
           /\ UNCHANGED <<call, ret>>
  <2>1. /\ req'[p] = f /\ pc'[p] = IF ResultRead(f) THEN "result" ELSE "receive"
        /\ \A q \in Proc \ {p} : pc'[q] = pc[q]
    BY Zenon, <1>0, <1>8
  <2>2. /\ stage' = [stage EXCEPT ![p] = stage'[p]] /\ val' = [val EXCEPT ![p] = val'[p]]
        /\ stage[p] = "pending" /\ val[p] = Zero
        /\ stage'[p] = IF Applied(p)' THEN "applied" ELSE "pending"
        /\ val'[p] = IF Applied(p)' /\ f.type = "read" THEN resp'.buf ELSE Zero
    <3>1. Moves(p)
      BY Zenon, <1>6, <2>1, Alone
    <3> QED
      BY Zenon, <1>4, <1>6, <2>1, <3>1 DEF Moves
  <2>3. stage = [q \in Proc |-> stage[q]] /\ val = [q \in Proc |-> val[q]]
    BY Zenon DEF stage, val
  <2>4. ASSUME ~Applied(p)', mem' = mem PROVE UNCHANGED Abstract!vars
    BY Zenon, <1>8, <2>2, <2>3, <2>4 DEF Abstract!vars
  <2>5. CASE ~arrives
    <3>1. UNCHANGED <<mem, result, resp>> /\ SilentLoss
      BY Zenon, <1>3, <1>8, <2>5
    <3>2. f.type = "write" => result'.counter # f.counter + 1
      <4>1. f.type = "write" => f.counter = counter
        BY Zenon, <1>2, <1>4, <3>1 DEF Current
      <4>2. result.counter <= counter /\ result.counter \in Nat /\ counter \in Nat
        BY CounterLimit DEF RInv, IInv, CountersBounded, TypeOK, Response, Counters
      <4> QED
        BY <3>1, <4>1, <4>2
    <3>3. f.type = "read" => resp'.nonce # f.nonce
      BY Zenon, <1>2, <3>1 DEF RandomNonce
    <3> QED
      BY Zenon, <2>1, <2>4, <3>1, <3>2, <3>3 DEF Applied
  <2>6. CASE arrives
    <3>1. /\ f.type # "write" => mem' = mem
          /\ f.type = "write" => /\ result'.type = "write"
                                 /\ \/ /\ result'.result = "ok" /\ result'.counter = f.counter + 1
                                       /\ mem' = [mem EXCEPT ![f.offset] = f.buf]
                                    \/ result'.result # "ok" /\ mem' = mem
          /\ f.type = "read" => /\ resp'.type = f.type /\ resp'.nonce = f.nonce
                                /\ resp'.buf = mem[f.offset]
      BY Zenon, <1>0, <1>2, <1>3, <2>6, CardEffect
    <3>2. CASE f.type = "write" /\ result'.result = "ok" /\ mem' = [mem EXCEPT ![f.offset] = f.buf]
      <4>1. Applied(p)'
        BY Zenon, <2>1, <3>1, <3>2, <1>0 DEF Applied, ResultRead, TypeOK
      <4>2. Abstract!Apply(p)
        BY ZenonT(30), <1>5, <1>8, <2>2, <2>3, <3>2, <4>1 DEF Abstract!Apply, Abstract!Writes
      <4> QED
        BY Zenon, <4>2 DEF Abstract!Next
    <3>3. CASE f.type = "read"
      <4>1. Applied(p)'
        BY Zenon, <2>1, <3>1, <3>3 DEF Applied, ResultRead
      <4>2. Abstract!Apply(p)
        BY ZenonT(30), <1>5, <1>8, <2>2, <3>1, <3>3, <4>1 DEF Abstract!Apply, Abstract!Reads
      <4> QED
        BY Zenon, <4>2 DEF Abstract!Next
    <3>4. CASE f.type # "read" /\ ~(f.type = "write" /\ result'.result = "ok")
      BY Zenon, <2>1, <2>4, <3>1, <3>4 DEF Applied
    <3> QED
      BY Zenon, <3>1, <3>2, <3>3, <3>4
  <2> QED
    BY Zenon, <2>5, <2>6
<1> QED
  BY Zenon, <1>1, <1>7, <1>8 DEF f

\* card.WriteRPMB(resReq) hands over the result register; nothing takes effect.
LEMMA SendResultReadStep ==
  ASSUME RInv, NEW p \in Proc, SendResultRead(p)
  PROVE  [Abstract!Next]_Abstract!vars
<1>0. /\ pc \in [Proc -> {"idle", "send", "result", "receive"}]
      /\ pc[p] = "result" /\ lock = p /\ ResultRead(req[p])
  BY Zenon DEF RInv, IInv, TypeOK, SendResultRead, LInv, Local, InOp
<1>1. UNCHANGED <<mem, result>>
  BY Zenon DEF SendResultRead
<1>2. CASE Return(p, TRUE, Zero)
  BY Zenon, <1>0, <1>1, <1>2, FailStep
<1>3. CASE pc' = [pc EXCEPT ![p] = "receive"] /\ UNCHANGED <<lock, call, req, ret>>
  <2>1. pc'[p] = "receive" /\ \A q \in Proc \ {p} : pc'[q] = pc[q] /\ ~InOp(q)
    BY Zenon, <1>0, <1>3, OthersOut
  <2>2. (Applied(p)' <=> Applied(p)) /\ (Applied(p) => req[p].type # "read")
    BY Zenon, <1>0, <1>1, <1>3, <2>1 DEF Applied, ResultRead
  <2>3. stage' = [stage EXCEPT ![p] = stage[p]] /\ val' = [val EXCEPT ![p] = val[p]]
    <3>1. Moves(p)
      BY Zenon, <2>1, Alone
    <3> QED
      BY Zenon, <1>0, <1>3, <2>1, <2>2, <3>1 DEF Moves
  <2>4. stage = [q \in Proc |-> stage[q]] /\ val = [q \in Proc |-> val[q]]
    BY Zenon DEF stage, val
  <2> QED
    BY Zenon, <1>1, <1>3, <2>3, <2>4 DEF Abstract!vars
<1> QED
  BY Zenon, <1>2, <1>3 DEF SendResultRead

\* The response: a nil error is returned only for a call that took effect, and a Read
\* returns the value it took effect with.
LEMMA ReceiveResponseStep ==
  ASSUME RInv, NEW p \in Proc, ReceiveResponse(p)
  PROVE  [Abstract!Next]_Abstract!vars
<1>0. /\ pc \in [Proc -> {"idle", "send", "result", "receive"}] /\ req \in [Proc -> Frame]
      /\ pc[p] = "receive" /\ lock = p /\ Local(p) /\ FrameOfCall(p)
      /\ IInv /\ Exclusive /\ resp.buf \in Value /\ (resp.type # "read" => resp.buf = Zero)
  BY Zenon DEF RInv, IInv, TypeOK, Response, ReceiveResponse, LInv, Local, InOp, Bufs
<1>1. UNCHANGED <<mem, result, resp>>
  BY Zenon DEF ReceiveResponse, card
<1>2. CASE Return(p, TRUE, Zero)
  BY Zenon, <1>0, <1>1, <1>2, FailStep
<1>3. CASE /\ req[p].type = "counter"
           /\ req' = [req EXCEPT ![p] = NewFrame("write", resp.counter,
                                                call[p].offset, call[p].buf)]
           /\ pc' = [pc EXCEPT ![p] = "send"]
           /\ UNCHANGED <<call, ret>>
  <2>1. pc'[p] = "send" /\ \A q \in Proc \ {p} : pc'[q] = pc[q] /\ ~InOp(q)
    BY Zenon, <1>0, <1>3, OthersOut
  <2>2. ~Applied(p) /\ ~Applied(p)'
    BY Zenon, <1>3, <2>1 DEF Applied
  <2>3. stage' = [stage EXCEPT ![p] = stage[p]] /\ val' = [val EXCEPT ![p] = val[p]]
    <3>1. Moves(p)
      BY Zenon, <2>1, Alone
    <3> QED
      BY Zenon, <1>0, <2>1, <2>2, <3>1 DEF Moves
  <2>4. stage = [q \in Proc |-> stage[q]] /\ val = [q \in Proc |-> val[q]]
    BY Zenon DEF stage, val
  <2> QED
    BY Zenon, <1>1, <1>3, <2>3, <2>4 DEF Abstract!vars
<1>4. ASSUME NEW b \in Value, Return(p, FALSE, b),
             b = IF Applied(p) /\ req[p].type = "read" THEN resp.buf ELSE Zero,
             call[p].kind \in {"init", "write", "read"} => Applied(p)
      PROVE  Abstract!Next
  <2>1. /\ stage[p] # "idle" /\ stage' = [stage EXCEPT ![p] = "idle"]
        /\ val' = [val EXCEPT ![p] = Zero]
        /\ call' = [call EXCEPT ![p] = NoCall]
        /\ ret' = [ret EXCEPT ![p] = [err |-> FALSE, buf |-> b]]
        /\ stage[p] = IF Applied(p) THEN "applied" ELSE "pending"
        /\ val[p] = IF Applied(p) /\ req[p].type = "read" THEN resp.buf ELSE Zero
    BY Zenon, <1>0, <1>4, ReturnStep
  <2>2. Abstract!Return(p, FALSE)
    BY Zenon, <1>1, <1>4, <2>1 DEF Abstract!Return, Abstract!Writes, Abstract!Reads, Abstract!NoCall, NoCall
  <2> QED
    BY Zenon, <2>2 DEF Abstract!Next
<1>5. CASE /\ Valid(p) /\ call[p].kind \in {"counter", "peek", "program", "read"}
           /\ Return(p, FALSE, resp.buf)
  <2>0. req[p].type = resp.type /\ resp.nonce = req[p].nonce
    BY Zenon, <1>5 DEF Valid, NonceOK
  <2>1. CASE call[p].kind = "read"
    <3>1. req[p].type = "read"
      BY Zenon, <1>0, <2>1 DEF FrameOfCall
    <3>2. Applied(p)
      BY Zenon, <1>0, <2>0, <3>1 DEF Applied
    <3> QED
      BY Zenon, <1>0, <1>4, <1>5, <3>1, <3>2
  <2>2. CASE call[p].kind # "read"
    <3>1. req[p].type \in {"counter", "program"}
      BY Zenon, <1>0, <1>5, <2>2 DEF FrameOfCall
    <3>2. resp.buf = Zero
      BY Zenon, <1>0, <2>0, <3>1
    <3> QED
      BY Zenon, <1>0, <1>4, <1>5, <2>2, <3>1, <3>2
  <2> QED
    BY Zenon, <2>1, <2>2
<1>6. CASE /\ Valid(p) /\ req[p].type = "write"
           /\ Return(p, ~CounterOK(p), Zero)
  <2>1. CASE ~CounterOK(p)
    BY Zenon, <1>2, <1>6, <2>1
  <2>2. CASE CounterOK(p)
    <3>1. Applied(p)
      BY Zenon, <1>0, <1>6, <2>2, Acknowledged DEF Applied, Names
    <3> QED
      BY Zenon, <1>4, <1>6, <2>2, <3>1, ConstantAssumption
  <2> QED
    BY Zenon, <2>1, <2>2
<1> QED
  BY Zenon, <1>2, <1>3, <1>5, <1>6 DEF ReceiveResponse

LEMMA PowerCycleStep ==
  ASSUME PowerCycle
  PROVE  Abstract!Next
<1>1. \A p \in Proc : pc'[p] = "idle"
  BY Zenon DEF PowerCycle
<1>2. stage' = [p \in Proc |-> "idle"] /\ val' = [p \in Proc |-> Zero]
  BY Zenon, <1>1 DEF stage, val, Applied
<1>3. Abstract!PowerCycle
  BY Zenon, <1>2 DEF PowerCycle, Abstract!PowerCycle, Abstract!NoCall, Abstract!Failed, NoCall, Failed
<1> QED
  BY Zenon, <1>3 DEF Abstract!Next

\* Every step is a step of AuthMemory or leaves it alone.
LEMMA NextStep ==
  ASSUME RInv, [Next]_vars
  PROVE  [Abstract!Next]_Abstract!vars
<1>1. CASE UNCHANGED vars
  BY Zenon, <1>1 DEF vars, Abstract!vars, stage, val, Applied
<1>2. CASE Next
  <2>1. sent \cup stale = {}
    BY Zenon DEF RInv, LInv
  <2> QED
    BY Zenon, <1>2, <2>1, InitInstanceStep, UseStep, SendRequestStep, SendResultReadStep,
       ReceiveResponseStep, PowerCycleStep, CallersType DEF RInv, IInv, Next, Op
<1> QED
  BY Zenon, <1>1, <1>2

\* The driver implements AuthMemory, for any number of sectors and values: over a
\* transport that reports its errors for any number of concurrent callers, and for one
\* caller also over a transport that loses requests silently.  Every Write and Read takes
\* effect atomically and at most once between its call and its return, a nil error means
\* that it did, and a Read returns the value it took effect with.
THEOREM Refinement == Spec => ImplementsAuthMemory
<1>1. ASSUME Init PROVE Abstract!Init
  <2>1. \A p \in Proc : pc[p] = "idle"
    BY Zenon, <1>1 DEF Init
  <2>2. stage = [p \in Proc |-> "idle"] /\ val = [p \in Proc |-> Zero]
    BY Zenon, <2>1 DEF stage, val, Applied
  <2> QED
    BY Zenon, <1>1, <2>2, ConstantAssumption DEF Init, Abstract!Init, Abstract!NoCall,
       Abstract!Failed, NoCall, Failed
<1>2. IInv /\ LInv /\ [Next]_vars => [Promises => Abstract!Next]_(Abstract!vars)
  <2>1. IInv /\ LInv /\ Promises => RInv
    BY Zenon DEF RInv, Promises
  <2> QED
    BY Zenon, <2>1, NextStep
<1> QED
  BY <1>1, <1>2, Invariance, LossInvariance, PTL DEF Spec, ImplementsAuthMemory
=============================================================================
