-------------------------------- MODULE RPMB --------------------------------
(***************************************************************************)
(* Package rpmb: the driver of the eMMC Replay Protected Memory Block      *)
(* (rpmb/rpmb.go, rpmb/op.go), the card it talks to, and the transport     *)
(* between them.  Any transport may fail with the request delivered or     *)
(* not; a lossy one also loses requests silently, and a replaying one      *)
(* delivers recorded write frames again at any time.                       *)
(*                                                                         *)
(* Several goroutines may be in a call.  The mutex is held for one op(), a *)
(* request with its response, so a Write (an authenticated counter read,   *)
(* then the write itself) is two critical sections.                        *)
(*                                                                         *)
(* Abstractions.  The card is external and follows JESD84-B51 as the       *)
(* driver relies on it.  A MAC is the flag that says whether the frame was *)
(* made with the shared key.  A nonce is fresh when it differs from the    *)
(* one in the card's response buffer, the only place an old one survives.  *)
(* CounterMax stands for 2^32 - 1.                                         *)
(***************************************************************************)
EXTENDS Naturals, FiniteSets

CONSTANTS Proc,        \* goroutines
          NoProc,      \* nobody holds the mutex
          Sector,      \* RPMB sectors
          dummyBlock,  \* the sector Init overwrites
          Value,       \* contents of a sector
          Zero,        \* all zero bytes
          Nonce,       \* random nonces
          NoNonce,     \* the zero nonce of a frame without RandomNonce
          CounterMax,  \* last value of the write counter
          Setups,      \* the settings considered: who calls, over which transport
          MaxRecorded  \* bound: write frames a replaying transport keeps

ASSUME ConstantAssumption ==
  /\ NoProc \notin Proc
  /\ dummyBlock \in Sector
  /\ Zero \in Value
  /\ NoNonce \notin Nonce
  /\ \A n \in Nonce : Nonce \ {n} # {}
  /\ CounterMax \in Nat \ {0}
  /\ Setups \subseteq [callers: SUBSET Proc, transport: {"reporting", "lossy", "replaying"}]

VARIABLES keyed,    \* card: the authentication key is programmed
          counter,  \* card: the write counter
          mem,      \* card: the sectors
          result,   \* card: the result register, read by a ResultRead request
          resp,     \* card: the frame the next ReadRPMB returns
          callers,  \* the goroutines that call the driver
          transport,  \* which transport it is
          sent,     \* transport: write frames recorded since power on
          stale,    \* transport: write frames recorded before the last power on
          lock,     \* driver: holder of RPMB.Mutex
          inst,     \* driver: "none", "init" inside Init, "up" once it returned nil
          pc,       \* driver: where each goroutine is
          call,     \* driver: the call each goroutine is in
          req,      \* driver: the frame of its current op()
          ret       \* driver: what its last call returned

card   == <<keyed, counter, mem, result, resp>>
bus    == <<callers, transport, sent, stale>>
driver == <<lock, inst, pc, call, req, ret>>
vars   == <<keyed, counter, mem, result, resp, callers, transport, sent, stale,
            lock, inst, pc, call, req, ret>>

Counters == 0 .. CounterMax
Kind     == {"init", "write", "read", "counter", "peek", "program"}
Frame    == [type: {"program", "counter", "write", "read"},
             nonce: Nonce \cup {NoNonce}, counter: Counters,
             offset: Sector, buf: Value]
Response == [type: {"none", "program", "counter", "write", "read"},
             nonce: Nonce \cup {NoNonce}, counter: Counters, buf: Value,
             result: {"ok", "nokey", "failure"}, mac: BOOLEAN]

NoCall     == [kind |-> "none", offset |-> dummyBlock, buf |-> Zero]
Failed     == [err |-> TRUE, buf |-> Zero]
NoResponse == [type |-> "none", nonce |-> NoNonce, counter |-> 0,
               buf |-> Zero, result |-> "failure", mac |-> FALSE]
NewFrame(type, n, o, b) ==
  [type |-> type, nonce |-> NoNonce, counter |-> n, offset |-> o, buf |-> b]
NoFrame == NewFrame("counter", 0, dummyBlock, Zero)

Init == /\ keyed = FALSE /\ counter = 0
        /\ mem = [s \in Sector |-> Zero]
        /\ result = NoResponse /\ resp = NoResponse
        /\ \E s \in Setups : callers = s.callers /\ transport = s.transport
        /\ sent = {} /\ stale = {}
        /\ lock = NoProc /\ inst = "none"
        /\ pc = [p \in Proc |-> "idle"]
        /\ call = [p \in Proc |-> NoCall]
        /\ req = [p \in Proc |-> NoFrame]
        /\ ret = [p \in Proc |-> Failed]

SilentLoss == transport # "reporting"
Replays    == transport = "replaying"

\* No goroutine can meet the answer to another one's write in place of its own
\* that was lost.
Exclusive == ~SilentLoss \/ \A p, q \in callers : p = q

-----------------------------------------------------------------------------
(***************************************************************************)
(* The card.                                                               *)
(***************************************************************************)
WriteResultWraps(f) == IF ~keyed THEN "nokey"
                       ELSE IF f.counter = counter THEN "ok" ELSE "failure"
WriteResult(f) == IF ~keyed THEN "nokey"
                  ELSE IF f.counter = counter /\ counter < CounterMax THEN "ok"
                  ELSE "failure"

CardWrite(f) ==
  LET ok == WriteResult(f) = "ok"
      n  == IF ok THEN counter + 1 ELSE counter
  IN /\ counter' = n
     /\ mem' = IF ok THEN [mem EXCEPT ![f.offset] = f.buf] ELSE mem
     /\ result' = [NoResponse EXCEPT !.type = "write", !.counter = n,
                                     !.result = WriteResult(f), !.mac = keyed]
     /\ UNCHANGED <<keyed, resp>>

CardProgram ==
  /\ keyed' = TRUE
  /\ result' = [NoResponse EXCEPT !.type = "program",
                                  !.result = IF keyed THEN "failure" ELSE "ok"]
  /\ UNCHANGED <<counter, mem, resp>>

CardAnswer(f) ==
  /\ resp' = [type |-> f.type, nonce |-> f.nonce,
              counter |-> IF f.type = "counter" THEN counter ELSE 0,
              buf |-> IF f.type = "read" THEN mem[f.offset] ELSE Zero,
              result |-> IF keyed THEN "ok" ELSE "nokey", mac |-> keyed]
  /\ UNCHANGED <<keyed, counter, mem, result>>

CardProcess(f) == \/ f.type = "write" /\ CardWrite(f)
                  \/ f.type = "program" /\ CardProgram
                  \/ f.type \in {"counter", "read"} /\ CardAnswer(f)

-----------------------------------------------------------------------------
(***************************************************************************)
(* The calls.  Each prepares the frame of its first op().                  *)
(***************************************************************************)
Begin(p, kind, o, b, f) ==
  /\ pc[p] = "idle"
  /\ pc' = [pc EXCEPT ![p] = "send"]
  /\ call' = [call EXCEPT ![p] = [kind |-> kind, offset |-> o, buf |-> b]]
  /\ req' = [req EXCEPT ![p] = f]
  /\ UNCHANGED <<card, bus, lock, ret>>

\* transfer() of a write starts with Counter(true), that of a read with its frame
Write(p, o, b)   == Begin(p, "write", o, b, NoFrame)
Read(p, o)       == Begin(p, "read", o, Zero, NewFrame("read", 0, o, Zero))
Counter(p, auth) == Begin(p, IF auth THEN "counter" ELSE "peek",
                          dummyBlock, Zero, NoFrame)
ProgramKey(p)    == Begin(p, "program", dummyBlock, Zero,
                          NewFrame("program", 0, dummyBlock, Zero))

Use(p) == /\ inst = "up"
          /\ \/ \E o \in Sector : Read(p, o) \/ \E b \in Value : Write(p, o, b)
             \/ \E auth \in BOOLEAN : Counter(p, auth)
             \/ ProgramKey(p)
          /\ UNCHANGED inst

\* writeDummy is the OTP flag, blown before the key is programmed: it may be
\* FALSE only for a card without a key.
MayOmitDummyAlways == TRUE
MayOmitDummy == ~keyed

\* rpmb.Init, called once by the boot sequence, which halts when it fails
InitInstance(p) ==
  /\ inst = "none"
  /\ \/ Begin(p, "init", dummyBlock, Zero, NoFrame) /\ inst' = "init"
     \/ /\ MayOmitDummy
        /\ inst' = "up"
        /\ UNCHANGED <<card, bus, lock, pc, call, req, ret>>

-----------------------------------------------------------------------------
(***************************************************************************)
(* op(): lock, send the request, ask for the result register if the        *)
(* request needs it, read and validate the response, unlock.               *)
(***************************************************************************)
ResultRead(f)  == f.type \in {"program", "write"}
RandomNonce(p) == \/ req[p].type = "read"
                  \/ (req[p].type = "counter" /\ call[p].kind # "peek")
ResponseMAC(p) == req[p].type = "write" \/ RandomNonce(p)

ReturnLocked(p, err, b) ==
  /\ pc' = [pc EXCEPT ![p] = "idle"]
  /\ lock' = IF err THEN p ELSE NoProc
  /\ call' = [call EXCEPT ![p] = NoCall]
  /\ req' = [req EXCEPT ![p] = NoFrame]
  /\ ret' = [ret EXCEPT ![p] = [err |-> err, buf |-> b]]
Return(p, err, b) ==
  /\ pc' = [pc EXCEPT ![p] = "idle"]
  /\ lock' = NoProc
  /\ call' = [call EXCEPT ![p] = NoCall]
  /\ req' = [req EXCEPT ![p] = NoFrame]
  /\ ret' = [ret EXCEPT ![p] = [err |-> err, buf |-> b]]

MutexFreeAlways == TRUE
MutexFree == lock = NoProc

\* What a replaying transport may keep of a write frame that passes.
Recorded(f) == IF Replays /\ f.type = "write"
               THEN {S \in {sent, sent \cup {f}} : Cardinality(S \cup stale) <= MaxRecorded}
               ELSE {sent}

\* card.WriteRPMB(req)
SendRequest(p) ==
  /\ pc[p] = "send"
  /\ MutexFree
  /\ \E n \in IF RandomNonce(p) THEN Nonce \ {resp.nonce} ELSE {NoNonce},
        arrives \in BOOLEAN :
       LET f == [req[p] EXCEPT !.nonce = n] IN
         /\ IF arrives THEN CardProcess(f) ELSE UNCHANGED card
         /\ sent' \in Recorded(f)
         /\ UNCHANGED <<callers, transport, stale, inst>>
         /\ \/ /\ arrives \/ SilentLoss
               /\ lock' = p
               /\ req' = [req EXCEPT ![p] = f]
               /\ pc' = [pc EXCEPT ![p] =
                           IF ResultRead(f) THEN "result" ELSE "receive"]
               /\ UNCHANGED <<call, ret>>
            \/ Return(p, TRUE, Zero)

\* card.WriteRPMB(resReq)
SendResultRead(p) ==
  /\ pc[p] = "result"
  /\ \E arrives \in BOOLEAN :
       /\ resp' = IF arrives THEN result ELSE resp
       /\ \/ /\ arrives \/ SilentLoss
             /\ pc' = [pc EXCEPT ![p] = "receive"]
             /\ UNCHANGED <<lock, call, req, ret>>
          \/ Return(p, TRUE, Zero)
  /\ UNCHANGED <<keyed, counter, mem, result, bus, inst>>

MacOK(p)   == ResponseMAC(p) => resp.mac
NonceOKAlways(p) == TRUE
NonceOK(p) == req[p].nonce = resp.nonce
Valid(p)   == /\ MacOK(p)
              /\ req[p].type = resp.type
              /\ NonceOK(p)
              /\ resp.result = "ok"

\* transfer(): uint32 arithmetic
CounterOKAlways(p) == TRUE
CounterOK(p) == resp.counter = (req[p].counter + 1) % (CounterMax + 1)

\* The rest of op(), then what its caller does with the response: Counter(true)
\* of a Write goes on to the write frame, everything else returns.
ReceiveResponse(p) ==
  /\ pc[p] = "receive"
  /\ UNCHANGED <<card, bus>>
  /\ \/ Return(p, TRUE, Zero) /\ UNCHANGED inst          \* card.ReadRPMB failed
     \/ ~Valid(p) /\ Return(p, TRUE, Zero) /\ UNCHANGED inst
     \/ /\ Valid(p) /\ req[p].type = "counter" /\ call[p].kind \in {"init", "write"}
        /\ req' = [req EXCEPT ![p] = NewFrame("write", resp.counter,
                                             call[p].offset, call[p].buf)]
        /\ pc' = [pc EXCEPT ![p] = "send"]
        /\ lock' = NoProc
        /\ UNCHANGED <<inst, call, ret>>
     \/ /\ Valid(p) /\ call[p].kind \in {"counter", "peek", "program", "read"}
        /\ Return(p, FALSE, resp.buf)
        /\ UNCHANGED inst
     \/ /\ Valid(p) /\ req[p].type = "write"
        /\ Return(p, ~CounterOK(p), Zero)
        /\ inst' = IF call[p].kind = "init" /\ CounterOK(p) THEN "up" ELSE inst

-----------------------------------------------------------------------------
\* Power is lost, or the OS halts and is power cycled.
PowerCycle ==
  /\ result' = NoResponse /\ resp' = NoResponse
  /\ stale' = stale \cup sent /\ sent' = {}
  /\ lock' = NoProc /\ inst' = "none"
  /\ pc' = [p \in Proc |-> "idle"]
  /\ call' = [p \in Proc |-> NoCall]
  /\ req' = [p \in Proc |-> NoFrame]
  /\ ret' = [p \in Proc |-> Failed]
  /\ UNCHANGED <<keyed, counter, mem, callers, transport>>

\* A recorded write frame reaches the card, late or once more.
DeliverRecorded(f) == CardWrite(f) /\ UNCHANGED <<bus, driver>>

Op(p) == SendRequest(p) \/ SendResultRead(p) \/ ReceiveResponse(p)

Next == \/ \E p \in callers : InitInstance(p) \/ Use(p) \/ Op(p)
        \/ \E f \in sent \cup stale : DeliverRecorded(f)
        \/ PowerCycle

Spec == Init /\ [][Next]_vars
-----------------------------------------------------------------------------
TypeOK ==
  /\ keyed \in BOOLEAN /\ counter \in Counters /\ mem \in [Sector -> Value]
  /\ result \in Response /\ resp \in Response
  /\ [callers |-> callers, transport |-> transport] \in Setups
  /\ sent \subseteq Frame /\ stale \subseteq Frame
  /\ lock \in Proc \cup {NoProc} /\ inst \in {"none", "init", "up"}
  /\ pc \in [Proc -> {"idle", "send", "result", "receive"}]
  /\ call \in [Proc -> [kind: Kind \cup {"none"}, offset: Sector, buf: Value]]
  /\ req \in [Proc -> Frame]
  /\ ret \in [Proc -> [err: BOOLEAN, buf: Value]]

ReturnsNil(p) == pc[p] = "receive" /\ pc'[p] = "idle" /\ ~ret'[p].err

\* A Write that returns nil has its data in the card at that moment, whatever
\* the other writers did between its counter read and its write frame: the card
\* rejects a counter that is used up.  With one caller this also holds when the
\* transport loses requests silently: transfer's counter check rejects the result
\* register of an earlier write.  With several callers and silent losses it does
\* not (Exclusive): a lost write may be answered with the result of another one
\* that had read the same counter.  (Transport without replays.)
AckedWriteStored ==
  [][\A p \in Proc : ~Replays /\ Exclusive /\ ReturnsNil(p) /\ call[p].kind \in {"init", "write"}
                       => mem[call[p].offset] = call[p].buf]_vars

\* A Read that returns nil returns what the sector holds at that moment, never
\* the answer to an earlier request left in the card's buffer: op's nonce check.
\* (Transport without replays.)
ReadFresh ==
  [][\A p \in Proc : ~Replays /\ ReturnsNil(p) /\ call[p].kind = "read"
                       => ret'[p].buf = mem[call[p].offset]]_vars

\* Once Init has returned, no write frame recorded before the
\* last power on can still be committed: the dummy write has used up the
\* counter value it carries ("to invalidate uncommitted writes").
StaleFramesDead ==
  inst = "up" => \A f \in stale : f.counter < counter

\* The mutex is held exactly from a request to its response, by the goroutine that
\* made it: no two are in an op() at once, and no error path, and no power cycle,
\* leaves the mutex locked, which would block every later call.
MutexHeldInOp == \A p \in Proc : lock = p <=> pc[p] \in {"result", "receive"}

\* The driver implements AuthMemory.  A call has taken effect once its frame
\* was accepted by the card and the driver has not yet returned.
Applied(p) ==
  /\ pc[p] \in {"result", "receive"}
  /\ \/ /\ req[p].type = "write"
        /\ result.type = "write" /\ result.result = "ok"
        /\ result.counter = req[p].counter + 1
     \/ req[p].type = "read" /\ resp.type = "read" /\ resp.nonce = req[p].nonce
stage == [p \in Proc |-> IF pc[p] = "idle" THEN "idle"
                         ELSE IF Applied(p) THEN "applied" ELSE "pending"]
val   == [p \in Proc |-> IF Applied(p) /\ req[p].type = "read" THEN resp.buf ELSE Zero]
Abstract == INSTANCE AuthMemory
              WITH mem <- mem, call <- call, stage <- stage, val <- val, ret <- ret

\* Every Write and Read takes effect atomically and at most once between its
\* call and its return, and a nil error means that it did, for any number of
\* concurrent callers, late errors and power cycles, and for one caller also when
\* requests are lost silently.  (Transport without replays.)
Promises == ~Replays /\ Exclusive
ImplementsAuthMemory ==
  (Promises => Abstract!Init) /\ [][Promises => Abstract!Next]_(Abstract!vars)
=============================================================================
