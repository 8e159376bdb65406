------------------------------ MODULE Network -------------------------------
(***************************************************************************)
(* Frames between the network controller (external: Ethernet on LAN        *)
(* models, USB Ethernet on the others) and the Trusted Applet:             *)
(* trusted_os/net.go, with isr and fiqHandler of trusted_os/handler.go.    *)
(*                                                                         *)
(* While the applet runs, interrupts go to fiqHandler, which leaves FIQs   *)
(* masked and wakes the event handler that the applet has registered; it   *)
(* makes RX calls until one returns 0, then has FIQs unmasked and sleeps.  *)
(* Between two instances of the applet they go to isr alone.  The          *)
(* controller keeps receiving meanwhile.  A frame is its number.           *)
(***************************************************************************)
EXTENDS Naturals, Sequences

CONSTANTS RingSize,     \* LAN.RingSize, or the USB controller's buffers
          RXQueueSize,  \* capacity of rxQueue
          TXQueueSize,  \* capacity of txQueue
          MaxFrame,     \* bound: frames that arrive
          MaxTx,        \* bound: frames the applet sends
          MaxRestart    \* bound: instances of the applet that end

ASSUME ConstantAssumption == /\ RingSize \in Nat \ {0}
                             /\ RXQueueSize \in Nat \ {0}
                             /\ TXQueueSize \in Nat \ {0}
                             /\ MaxFrame \in Nat /\ MaxTx \in Nat /\ MaxRestart \in Nat

VARIABLES usb,      \* USB # nil, LAN = nil
          next,     \* number of the next frame on the wire
          ring,     \* frames received by the controller
          irq,      \* its interrupt (IRQ_RXF, IRQ_UI) is pending
          pc,       \* "user"; "rx" or "clear" in the interrupt handler; "tx" blocked
                    \* in txFromApplet
          masked,   \* FIQs are masked for the applet
          rxQueue, txQueue,
          applet,   \* "down", "starting" (no event handler registered), or its event
                    \* handler: "asleep", "awake", "done" with its RX calls
          ended,    \* instances that have ended
          late,     \* history: frames were queued before the event handler first slept,
                    \* and it has not been woken since
          tx,       \* history: frames the applet has sent
          sent,     \* history: how many of them the controller has been given
          last      \* history: last frame the applet was given

rx   == <<next, ring, irq, rxQueue, last>>
txs  == <<tx, txQueue, sent>>
life == <<masked, applet, ended, late>>
vars == <<usb, next, ring, irq, pc, masked, rxQueue, txQueue, applet, ended, late, tx, sent,
          last>>

\* netStart has run, called by the first instance
Init == /\ usb \in BOOLEAN
        /\ next = 1 /\ ring = << >> /\ irq = FALSE
        /\ pc = "user" /\ masked = FALSE
        /\ rxQueue = << >> /\ txQueue = << >>
        /\ applet = "starting" /\ ended = 0 /\ late = FALSE
        /\ tx = 0 /\ sent = 0 /\ last = 0

Up == applet # "down"

-----------------------------------------------------------------------------
(***************************************************************************)
(* The controllers.                                                        *)
(***************************************************************************)
Arrive == /\ next <= MaxFrame
          /\ next' = next + 1
          /\ \/ /\ Len(ring) < RingSize
                /\ ring' = Append(ring, next) /\ irq' = TRUE
             \/ Len(ring) = RingSize /\ UNCHANGED <<ring, irq>>
          /\ UNCHANGED <<usb, pc, rxQueue, last, txs, life>>

-----------------------------------------------------------------------------
(***************************************************************************)
(* isr, called by fiqHandler in User mode, or by arm.ServiceInterrupts.    *)
(***************************************************************************)
ISR == /\ pc = "user" /\ irq /\ ~masked
       /\ pc' = "rx"
       /\ UNCHANGED <<usb, rx, txs, life>>

\* A full queue drops the frame
asyncRxDropsOldest(buf) ==
  rxQueue' = IF Len(rxQueue) < RXQueueSize THEN Append(rxQueue, buf)
             ELSE <<buf>> \o Tail(rxQueue)
asyncRxUnbounded(buf) == rxQueue' = Append(rxQueue, buf)
asyncRx(buf) ==
  rxQueue' = IF Len(rxQueue) < RXQueueSize THEN Append(rxQueue, buf) ELSE rxQueue

\* fiqHandler masks FIQs and wakes the event handler; isr alone does neither
Resume == /\ pc' = "user"
          /\ masked' = Up
          /\ applet' = IF applet \in {"asleep", "awake", "done"} THEN "awake" ELSE applet
          /\ late' = FALSE
          /\ UNCHANGED ended

\* USB.ServiceInterrupts, which calls nic.Rx for every frame received
ServiceUSB == /\ usb /\ pc = "rx"
              /\ \/ /\ ring # << >>
                    /\ asyncRx(Head(ring)) /\ ring' = Tail(ring)
                    /\ UNCHANGED <<irq, pc, life>>
                 \/ /\ ring = << >>
                    /\ irq' = FALSE /\ Resume
                    /\ UNCHANGED <<ring, rxQueue>>
              /\ UNCHANGED <<usb, next, last, txs>>

\* LAN.Rx() returned a frame
HandlerRx == /\ ~usb /\ pc = "rx" /\ ring # << >>
             /\ asyncRx(Head(ring))
             /\ ring' = Tail(ring)
             /\ pc' = "clear"
             /\ UNCHANGED <<usb, next, irq, last, txs, life>>

\* LAN.ClearInterrupt(enet.IRQ_RXF)
ClearInterruptNever == UNCHANGED irq
ClearInterrupt == irq' = FALSE

\* buf = LAN.Rx() again
LoopOnce == Resume
Loop == pc' = "rx" /\ UNCHANGED life

HandlerClear == /\ pc = "clear"
                /\ ClearInterrupt
                /\ Loop
                /\ UNCHANGED <<usb, next, ring, rxQueue, last, txs>>

\* LAN.Rx() returned nil
HandlerReturn == /\ ~usb /\ pc = "rx" /\ ring = << >>
                 /\ Resume
                 /\ UNCHANGED <<usb, rx, txs>>

-----------------------------------------------------------------------------
(***************************************************************************)
(* The applet: its life, seen from here, and its system calls.             *)
(***************************************************************************)
Ends == /\ ended < MaxRestart
        /\ applet' = "down" /\ masked' = FALSE /\ ended' = ended + 1 /\ late' = FALSE

\* It exits, crashes or is stopped
AppletEnds == /\ pc = "user" /\ Up
              /\ Ends
              /\ UNCHANGED <<usb, pc, rx, txs>>

\* loadApplet, with FIQs enabled
AppletStarts == /\ pc = "user" /\ applet = "down"
                /\ applet' = "starting"
                /\ UNCHANGED <<usb, pc, rx, txs, masked, ended, late>>

\* System call RX.  A frame larger than the applet's buffer is lost, and the
\* error ends the applet.
rxFromApplet == /\ pc = "user" /\ applet = "awake"
                /\ \/ /\ rxQueue # << >>
                      /\ last' = Head(rxQueue) /\ rxQueue' = Tail(rxQueue)
                      /\ UNCHANGED life
                   \/ /\ rxQueue # << >>
                      /\ rxQueue' = Tail(rxQueue)
                      /\ Ends
                      /\ UNCHANGED last
                   \/ /\ rxQueue = << >>
                      /\ applet' = "done"
                      /\ UNCHANGED <<last, rxQueue, masked, ended, late>>
                /\ UNCHANGED <<usb, next, ring, irq, pc, txs>>

\* System call FIQ, after RPC.Register or after the last RX call
UnmaskFIQ == /\ pc = "user" /\ applet \in {"starting", "done"}
             /\ masked' = FALSE
             /\ applet' = "asleep"
             /\ late' = (rxQueue # << >> /\ applet = "starting")
             /\ UNCHANGED <<usb, pc, rx, txs, ended>>

\* txQueue <- buf blocks while the queue is full, in the exception handler and so
\* with FIQs masked
SendDrops(buf) ==
  /\ pc' = "user" /\ UNCHANGED sent
  /\ txQueue' = IF Len(txQueue) < TXQueueSize THEN Append(txQueue, buf) ELSE txQueue
Send(buf) == /\ UNCHANGED sent
             /\ \/ /\ Len(txQueue) < TXQueueSize
                   /\ txQueue' = Append(txQueue, buf) /\ pc' = "user"
                \/ /\ Len(txQueue) = TXQueueSize
                   /\ pc' = "tx" /\ UNCHANGED txQueue

\* System call TX
txFromApplet == /\ pc = "user" /\ Up /\ tx < MaxTx
                /\ tx' = tx + 1
                /\ \/ usb /\ Send(tx')
                   \/ ~usb /\ sent' = tx' /\ UNCHANGED <<txQueue, pc>>   \* LAN.Tx(buf)
                /\ UNCHANGED <<usb, rx, life>>

\* nic.Tx: the USB host takes a frame, and a blocked TX goes on
asyncTx == /\ usb /\ txQueue # << >>
           /\ sent' = Head(txQueue)
           /\ \/ pc # "tx" /\ txQueue' = Tail(txQueue) /\ UNCHANGED pc
              \/ pc = "tx" /\ txQueue' = Append(Tail(txQueue), tx) /\ pc' = "user"
           /\ UNCHANGED <<usb, rx, tx, life>>

\* The watchdog ends a TX that stays blocked: FIQs are masked meanwhile
WatchdogReset == /\ pc = "tx"
                 /\ pc' = "user" /\ masked' = FALSE
                 /\ ring' = << >> /\ irq' = FALSE /\ rxQueue' = << >>
                 /\ txQueue' = << >> /\ sent' = tx
                 /\ applet' = "starting" /\ late' = FALSE
                 /\ UNCHANGED <<usb, next, tx, last, ended>>

Handler == ISR \/ ServiceUSB \/ HandlerRx \/ HandlerClear \/ HandlerReturn
System  == AppletStarts \/ rxFromApplet \/ UnmaskFIQ

Next == \/ Arrive
        \/ ISR \/ ServiceUSB \/ HandlerRx \/ HandlerClear \/ HandlerReturn
        \/ AppletEnds \/ AppletStarts \/ rxFromApplet \/ UnmaskFIQ \/ txFromApplet
        \/ asyncTx \/ WatchdogReset

Spec == Init /\ [][Next]_vars

\* Interrupts are taken, the handler runs on, an applet that ended is loaded again
\* and makes its calls once woken, and the watchdog bites.
Fairness == WF_vars(Handler) /\ WF_vars(System) /\ WF_vars(WatchdogReset)
FairSpec == Spec /\ Fairness
-----------------------------------------------------------------------------
\* q is a queue of at most size frames, numbered 1 to n.
IsQueue(q, n, size) == q \in Seq(1 .. n) /\ Len(q) <= size

TypeOK == /\ usb \in BOOLEAN
          /\ next \in 1 .. MaxFrame + 1
          /\ IsQueue(ring, MaxFrame, RingSize)
          /\ IsQueue(rxQueue, MaxFrame, RXQueueSize)
          /\ IsQueue(txQueue, MaxTx, TXQueueSize)
          /\ irq \in BOOLEAN /\ masked \in BOOLEAN
          /\ pc \in {"user", "rx", "clear", "tx"}
          /\ applet \in {"down", "starting", "asleep", "awake", "done"}
          /\ ended \in 0 .. MaxRestart /\ late \in BOOLEAN
          /\ tx \in 0 .. MaxTx /\ sent \in 0 .. MaxTx /\ last \in 0 .. MaxFrame

\* The applet gets frames in the order of their arrival and none twice, over all
\* its instances, although the controller receives while the handler runs and a
\* full queue drops frames.
InOrder == LET pending == <<last>> \o rxQueue \o ring \o <<next>>
           IN \A i, j \in 1 .. Len(pending) : i < j => pending[i] < pending[j]

\* On LAN models a pending interrupt always has a frame to fetch: the handler
\* clears it inside its loop only, so with an empty ring it would stay pending.
NoInterruptStorm == ~usb /\ pc = "user" /\ irq => ring # << >>

\* A frame that is waiting has an interrupt pending or an event handler awake: the
\* interrupt is cleared before the ring is looked at again, never after, and every
\* interrupt wakes the event handler.  Excepted are frames queued before an instance
\* has its event handler ready: they wait for the next interrupt.
NoLostInterrupt ==
  /\ pc \in {"user", "tx"} /\ ring # << >> => irq
  /\ pc \in {"user", "tx"} /\ rxQueue # << >> => applet \in {"awake", "down", "starting"} \/ late

\* Every frame that is received leaves the ring and the queue again, with the same
\* exception: none is left behind when the event handler goes to sleep.
FramesLeave == next = MaxFrame + 1 ~> ring = << >> /\ (rxQueue = << >> \/ late)

\* What the applet sends is given to the controller in order, every frame once: a
\* full txQueue holds the applet up, and neither drops nor overwrites.  (What was
\* queued when the watchdog resets the device is lost with it: WatchdogReset counts
\* it as sent, so that the order is that of the frames since.)
SentInOrder == /\ \A i \in 1 .. Len(txQueue) : txQueue[i] = sent + i
               /\ tx = sent + Len(txQueue) + IF pc = "tx" THEN 1 ELSE 0
=============================================================================
