--------------------------- MODULE NetworkProofs ----------------------------
(***************************************************************************)
(* Reception and transmission for queues, rings and numbers of frames of   *)
(* any size: no interrupt is lost or repeated for nothing, and nothing     *)
(* sent is dropped or reordered.                                           *)
(***************************************************************************)
EXTENDS Network, SequenceTheorems, TLAPS

(***************************************************************************)
(* The inductive invariant.  FIQs are masked from the moment the event     *)
(* handler is woken until it asks for them, so the interrupt handler never *)
(* fills rxQueue behind its last RX call; on LAN models the interrupt is   *)
(* pending with an empty ring only between fetching a frame and clearing.  *)
(***************************************************************************)
MaskedWhileAwake == /\ applet \in {"awake", "done"} => masked
                    /\ pc \in {"rx", "clear"} => ~masked
                    /\ pc = "clear" => ~usb
                    /\ late => applet = "asleep"
PendingHasFrame == ~usb /\ pc \in {"user", "rx"} /\ irq => ring # << >>
LANQueueEmpty == ~usb => txQueue = << >>

IInv == /\ TypeOK /\ MaskedWhileAwake /\ PendingHasFrame
        /\ NoLostInterrupt /\ SentInOrder /\ LANQueueEmpty

\* What Append and Tail do to a queue.
LEMMA EmptyQueue ==
  ASSUME NEW n \in Nat, NEW size \in Nat
  PROVE  IsQueue(<< >>, n, size)
  BY DEF IsQueue

LEMMA QueueLen ==
  ASSUME NEW n \in Nat, NEW size \in Nat, NEW q, IsQueue(q, n, size)
  PROVE  Len(q) \in 0 .. size /\ (q # << >> => Len(q) > 0)
  BY EmptySeq DEF IsQueue

LEMMA AppendQueue ==
  ASSUME NEW n \in Nat, NEW size \in Nat, NEW q, IsQueue(q, n, size),
         Len(q) < size, NEW e \in 1 .. n
  PROVE  /\ IsQueue(Append(q, e), n, size)
         /\ Append(q, e) # << >>
         /\ Len(Append(q, e)) = Len(q) + 1
         /\ \A i \in 1 .. Len(q) : Append(q, e)[i] = q[i]
         /\ Append(q, e)[Len(q) + 1] = e
<1>1. q \in Seq(1 .. n) /\ Len(q) \in Nat
  BY DEF IsQueue
<1>2. /\ Append(q, e) \in Seq(1 .. n)
      /\ Append(q, e) # << >>
      /\ Len(Append(q, e)) = Len(q) + 1
      /\ \A i \in 1 .. Len(q) : Append(q, e)[i] = q[i]
      /\ Append(q, e)[Len(q) + 1] = e
  BY ZenonT(30), <1>1, AppendProperties
<1> QED
  BY <1>1, <1>2 DEF IsQueue

LEMMA TailQueue ==
  ASSUME NEW n \in Nat, NEW size \in Nat, NEW q, IsQueue(q, n, size), q # << >>
  PROVE  /\ Head(q) \in 1 .. n /\ Head(q) = q[1]
         /\ IsQueue(Tail(q), n, size)
         /\ Len(Tail(q)) = Len(q) - 1
         /\ \A i \in 1 .. Len(Tail(q)) : Tail(q)[i] = q[i + 1]
<1>1. q \in Seq(1 .. n) /\ Len(q) \in Nat /\ Len(q) <= size
  BY DEF IsQueue
<1>2. /\ Head(q) \in 1 .. n
      /\ Tail(q) \in Seq(1 .. n)
      /\ Len(Tail(q)) = Len(q) - 1
      /\ \A i \in 1 .. Len(Tail(q)) : Tail(q)[i] = q[i + 1]
  BY Zenon, <1>1, HeadTailProperties
<1>3. Head(q) = q[1]
  BY <1>1
<1> QED
  BY <1>1, <1>2, <1>3 DEF IsQueue

\* A device that was just started satisfies the invariant.
LEMMA InitInv == Init => IInv
<1> SUFFICES ASSUME Init PROVE IInv
  BY Zenon
<1> USE ConstantAssumption DEF Init
<1>1. TypeOK
  <2>1. /\ IsQueue(ring, MaxFrame, RingSize) /\ IsQueue(rxQueue, MaxFrame, RXQueueSize)
        /\ IsQueue(txQueue, MaxTx, TXQueueSize)
    BY Zenon, EmptyQueue
  <2>2. next \in 1 .. MaxFrame + 1 /\ last \in 0 .. MaxFrame
    OBVIOUS
  <2>3. ended \in 0 .. MaxRestart /\ tx \in 0 .. MaxTx /\ sent \in 0 .. MaxTx
    OBVIOUS
  <2> QED
    BY Zenon, <2>1, <2>2, <2>3 DEF TypeOK
<1> QED
  BY <1>1 DEF IInv, MaskedWhileAwake, PendingHasFrame, NoLostInterrupt, SentInOrder,
     LANQueueEmpty

\* asyncRx keeps rxQueue a sequence of frames within its capacity.
LEMMA asyncRxType ==
  ASSUME TypeOK, NEW buf \in 1 .. MaxFrame, asyncRx(buf)
  PROVE  IsQueue(rxQueue', MaxFrame, RXQueueSize)
<1>1. CASE Len(rxQueue) < RXQueueSize
  <2>1. IsQueue(Append(rxQueue, buf), MaxFrame, RXQueueSize)
    BY Zenon, <1>1, AppendQueue, ConstantAssumption DEF TypeOK
  <2> QED
    BY Zenon, <1>1, <2>1 DEF asyncRx
<1>2. CASE ~(Len(rxQueue) < RXQueueSize)
  BY Zenon, <1>2 DEF asyncRx, TypeOK
<1> QED
  BY Zenon, <1>1, <1>2

\* Every step keeps the types.
LEMMA TypeStep == TypeOK /\ SentInOrder /\ [Next]_vars => TypeOK'
<1> SUFFICES ASSUME TypeOK, SentInOrder, [Next]_vars PROVE TypeOK'
  BY Zenon
<1> USE ConstantAssumption DEF rx, txs, life
<1>1. CASE Arrive
  <2>1. next \in 1 .. MaxFrame /\ next' \in 1 .. MaxFrame + 1
    BY <1>1 DEF Arrive, TypeOK
  <2>2. IsQueue(ring', MaxFrame, RingSize) /\ irq' \in BOOLEAN
    <3>1. CASE Len(ring) < RingSize
      <4>1. IsQueue(Append(ring, next), MaxFrame, RingSize)
        BY Zenon, <2>1, <3>1, AppendQueue DEF TypeOK
      <4> QED
        BY Zenon, <1>1, <3>1, <4>1 DEF Arrive, TypeOK
    <3>2. CASE ~(Len(ring) < RingSize)
      BY Zenon, <1>1, <3>2 DEF Arrive, TypeOK
    <3> QED
      BY Zenon, <3>1, <3>2
  <2> QED
    BY Zenon, <1>1, <2>1, <2>2 DEF Arrive, TypeOK
<1>2. CASE ISR \/ AppletStarts \/ UnmaskFIQ
  BY Zenon, <1>2 DEF ISR, AppletStarts, UnmaskFIQ, TypeOK
<1>3. CASE ServiceUSB
  <2>1. CASE /\ ring # << >>
             /\ asyncRx(Head(ring)) /\ ring' = Tail(ring)
             /\ UNCHANGED <<irq, pc, life>>
    <3>1. Head(ring) \in 1 .. MaxFrame /\ IsQueue(Tail(ring), MaxFrame, RingSize)
      BY Zenon, <2>1, TailQueue DEF TypeOK
    <3>2. IsQueue(rxQueue', MaxFrame, RXQueueSize)
      BY Zenon, <2>1, <3>1, asyncRxType
    <3> QED
      BY Zenon, <1>3, <2>1, <3>1, <3>2 DEF ServiceUSB, TypeOK
  <2>2. CASE /\ ring = << >>
             /\ irq' = FALSE /\ Resume
             /\ UNCHANGED <<ring, rxQueue>>
    BY Zenon, <1>3, <2>2 DEF ServiceUSB, Resume, Up, TypeOK
  <2> QED
    BY Zenon, <1>3, <2>1, <2>2 DEF ServiceUSB
<1>4. CASE HandlerRx
  <2>1. Head(ring) \in 1 .. MaxFrame /\ IsQueue(Tail(ring), MaxFrame, RingSize)
    BY Zenon, <1>4, TailQueue DEF TypeOK, HandlerRx
  <2>2. IsQueue(rxQueue', MaxFrame, RXQueueSize)
    BY Zenon, <1>4, <2>1, asyncRxType DEF HandlerRx
  <2> QED
    BY Zenon, <1>4, <2>1, <2>2 DEF HandlerRx, TypeOK
<1>5. CASE HandlerClear \/ HandlerReturn
  BY Zenon, <1>5 DEF HandlerClear, ClearInterrupt, Loop, HandlerReturn, Resume, Up, TypeOK
<1>e. Ends => ended' \in 0 .. MaxRestart
  BY DEF Ends, TypeOK
<1>6. CASE AppletEnds
  BY Zenon, <1>6, <1>e DEF AppletEnds, Ends, TypeOK
<1>7. CASE rxFromApplet
  <2>1. IsQueue(rxQueue', MaxFrame, RXQueueSize) /\ last' \in 0 .. MaxFrame
    <3>1. CASE rxQueue = << >>
      BY Zenon, <1>7, <3>1 DEF rxFromApplet, TypeOK
    <3>2. CASE rxQueue # << >>
      <4>1. Head(rxQueue) \in 1 .. MaxFrame /\ IsQueue(Tail(rxQueue), MaxFrame, RXQueueSize)
        BY Zenon, <3>2, TailQueue DEF TypeOK
      <4>2. last' \in {last, Head(rxQueue)} /\ rxQueue' = Tail(rxQueue)
        BY Zenon, <1>7, <3>2 DEF rxFromApplet
      <4> QED
        BY <4>1, <4>2 DEF TypeOK
    <3> QED
      BY Zenon, <3>1, <3>2
  <2>2. \/ UNCHANGED life
        \/ Ends
        \/ applet' = "done" /\ UNCHANGED <<masked, ended, late>>
    BY Zenon, <1>7 DEF rxFromApplet
  <2>3. UNCHANGED <<usb, next, ring, irq, pc, txs>>
    BY Zenon, <1>7 DEF rxFromApplet
  <2> QED
    BY ZenonT(30), <1>e, <2>1, <2>2, <2>3 DEF Ends, TypeOK
<1>8. CASE txFromApplet
  <2>1. tx' \in 1 .. MaxTx
    BY <1>8 DEF txFromApplet, TypeOK
  <2>2. IsQueue(txQueue', MaxTx, TXQueueSize)
    <3>1. CASE Len(txQueue) < TXQueueSize
      <4>1. IsQueue(Append(txQueue, tx'), MaxTx, TXQueueSize)
        BY Zenon, <2>1, <3>1, AppendQueue DEF TypeOK
      <4>2. txQueue' \in {txQueue, Append(txQueue, tx')}
        BY Zenon, <1>8 DEF txFromApplet, Send
      <4> QED
        BY Zenon, <4>1, <4>2 DEF TypeOK
    <3>2. CASE ~(Len(txQueue) < TXQueueSize)
      BY Zenon, <1>8, <3>2 DEF txFromApplet, Send, TypeOK
    <3> QED
      BY Zenon, <3>1, <3>2
  <2> QED
    BY <1>8, <2>1, <2>2 DEF txFromApplet, Send, TypeOK
<1>9. CASE WatchdogReset
  BY Zenon, <1>9, EmptyQueue DEF WatchdogReset, TypeOK
<1>10. CASE asyncTx
  <2> DEFINE t == Tail(txQueue)
  <2>1. /\ Head(txQueue) \in 1 .. MaxTx /\ Len(t) = Len(txQueue) - 1
        /\ IsQueue(t, MaxTx, TXQueueSize)
    BY Zenon, <1>10, TailQueue DEF asyncTx, TypeOK
  <2>2. /\ \/ txQueue' = t /\ pc' = pc
           \/ pc = "tx" /\ txQueue' = Append(t, tx) /\ pc' = "user"
        /\ sent' = Head(txQueue) /\ UNCHANGED <<usb, rx, tx, life>>
    BY Zenon, <1>10 DEF asyncTx
  <2> HIDE DEF t
  <2>3. IsQueue(txQueue', MaxTx, TXQueueSize)
    <3>1. CASE txQueue' = t
      BY Zenon, <2>1, <3>1
    <3>2. CASE pc = "tx" /\ txQueue' = Append(t, tx)
      <4>1. Len(txQueue) \in 0 .. TXQueueSize
        BY Zenon, QueueLen DEF TypeOK
      <4>2. tx = sent + Len(txQueue) + 1
        BY Zenon, <3>2 DEF SentInOrder
      <4>3. tx \in 1 .. MaxTx /\ Len(t) < TXQueueSize
        BY <2>1, <4>1, <4>2 DEF TypeOK
      <4> QED
        BY Zenon, <2>1, <3>2, <4>3, AppendQueue
    <3> QED
      BY Zenon, <2>2, <3>1, <3>2
  <2>4. sent' \in 0 .. MaxTx
    BY <2>1, <2>2
  <2> QED
    BY Zenon, <2>2, <2>3, <2>4 DEF TypeOK
<1>11. CASE UNCHANGED vars
  BY Zenon, <1>11 DEF vars, TypeOK
<1> QED
  BY Zenon, <1>1, <1>2, <1>3, <1>4, <1>5, <1>6, <1>7, <1>8, <1>9, <1>10, <1>11 DEF Next

\* Every step keeps FIQs masked while the event handler is at work, and a pending
\* interrupt with its frame.
LEMMA InterruptStep ==
  IInv /\ [Next]_vars => MaskedWhileAwake' /\ PendingHasFrame' /\ NoLostInterrupt'
<1> SUFFICES ASSUME IInv, [Next]_vars
             PROVE  MaskedWhileAwake' /\ PendingHasFrame' /\ NoLostInterrupt'
  BY Zenon
<1> USE ConstantAssumption DEF rx, txs, life, IInv, MaskedWhileAwake, PendingHasFrame, NoLostInterrupt
<1>1. CASE Arrive
  <2>1. CASE Len(ring) < RingSize
    <3>1. next \in 1 .. MaxFrame
      BY <1>1 DEF Arrive, TypeOK
    <3>2. Append(ring, next) # << >>
      BY <2>1, <3>1, AppendQueue DEF TypeOK
    <3> QED
      BY <1>1, <2>1, <3>2 DEF Arrive
  <2>2. CASE ~(Len(ring) < RingSize)
    BY <1>1, <2>2 DEF Arrive
  <2> QED
    BY Zenon, <2>1, <2>2
<1>2. CASE asyncTx
  BY Zenon, <1>2 DEF asyncTx
<1>3. CASE ISR
  BY Zenon, <1>3 DEF ISR
<1>4. CASE ServiceUSB
  <2>1. /\ usb /\ usb' = usb /\ pc = "rx"
        /\ \/ UNCHANGED <<pc, life>>
           \/ ring' = << >> /\ Resume
    BY Zenon, <1>4 DEF ServiceUSB
  <2>2. CASE UNCHANGED <<pc, life>>
    BY Zenon, <2>1, <2>2
  <2>3. CASE ring' = << >> /\ Resume
    BY Zenon, <2>1, <2>3 DEF Resume, Up, TypeOK
  <2> QED
    BY Zenon, <2>1, <2>2, <2>3
<1>5. CASE HandlerRx
  BY Zenon, <1>5 DEF HandlerRx
<1>6. CASE HandlerClear
  BY Zenon, <1>6 DEF HandlerClear, ClearInterrupt, Loop
<1>7. CASE HandlerReturn
  BY Zenon, <1>7 DEF HandlerReturn, Resume, Up, TypeOK
<1>8. CASE AppletEnds
  BY Zenon, <1>8 DEF AppletEnds, Ends
<1>9. CASE AppletStarts
  BY Zenon, <1>9 DEF AppletStarts
<1>10. CASE rxFromApplet
  <2>1. /\ pc = "user" /\ applet = "awake" /\ UNCHANGED <<usb, ring, irq, pc>>
        /\ \/ UNCHANGED life
           \/ Ends
           \/ rxQueue' = << >> /\ applet' = "done" /\ UNCHANGED <<masked, late>>
    BY Zenon, <1>10 DEF rxFromApplet
  <2>2. CASE UNCHANGED life
    BY Zenon, <2>1, <2>2
  <2>3. CASE Ends
    BY Zenon, <2>1, <2>3 DEF Ends
  <2>4. CASE rxQueue' = << >> /\ applet' = "done" /\ UNCHANGED <<masked, late>>
    BY Zenon, <2>1, <2>4
  <2> QED
    BY Zenon, <2>1, <2>2, <2>3, <2>4
<1>11. CASE UnmaskFIQ
  BY Zenon, <1>11 DEF UnmaskFIQ
<1>12. CASE txFromApplet
  BY Zenon, <1>12 DEF txFromApplet, Send
<1>13. CASE WatchdogReset
  BY Zenon, <1>13 DEF WatchdogReset
<1>14. CASE UNCHANGED vars
  BY Zenon, <1>14 DEF vars
<1> QED
  BY Zenon, <1>1, <1>2, <1>3, <1>4, <1>5, <1>6, <1>7, <1>8, <1>9, <1>10, <1>11, <1>12, <1>13, <1>14 DEF Next

\* Every step keeps txQueue the frames that follow the last one sent.
LEMMA SentStep == IInv /\ [Next]_vars => SentInOrder'
<1> SUFFICES ASSUME IInv, [Next]_vars PROVE SentInOrder'
  BY Zenon
<1> USE ConstantAssumption DEF rx, txs, IInv
<1>0. /\ Len(txQueue) \in 0 .. TXQueueSize /\ (txQueue # << >> => Len(txQueue) > 0)
      /\ tx \in Nat /\ sent \in Nat
  BY QueueLen DEF TypeOK
<1>1. CASE UNCHANGED txs /\ pc # "tx" /\ pc' # "tx"
  BY Zenon, <1>1 DEF SentInOrder
<1>2. CASE UNCHANGED <<txs, pc>>
  BY Zenon, <1>2 DEF SentInOrder
<1>3. CASE asyncTx
  <2> DEFINE t == Tail(txQueue)
  <2>1. /\ Head(txQueue) = txQueue[1] /\ Len(t) = Len(txQueue) - 1
        /\ \A i \in 1 .. Len(t) : t[i] = txQueue[i + 1]
        /\ IsQueue(t, MaxTx, TXQueueSize)
    BY <1>3, TailQueue DEF asyncTx, TypeOK
  <2>0. \/ pc # "tx" /\ txQueue' = t /\ pc' = pc
        \/ pc = "tx" /\ txQueue' = Append(t, tx) /\ pc' = "user"
    BY Zenon, <1>3 DEF asyncTx
  <2> HIDE DEF t
  <2>2. sent' = sent + 1 /\ tx' = tx /\ Len(txQueue) > 0
    BY <1>0, <1>3, <2>1 DEF asyncTx, SentInOrder
  <2>3. \A i \in 1 .. Len(t) : t[i] = sent' + i
    <3> SUFFICES ASSUME NEW i \in 1 .. Len(t) PROVE t[i] = sent' + i
      BY Zenon
    <3>1. i \in Nat /\ i + 1 \in 1 .. Len(txQueue) /\ t[i] = txQueue[i + 1]
      BY <1>0, <2>1
    <3> QED
      BY <1>0, <2>2, <3>1 DEF SentInOrder
  <2>4. CASE pc # "tx"
    <3>1. txQueue' = t /\ pc' = pc
      BY Zenon, <2>0, <2>4
    <3> QED
      <4>1. tx = sent + Len(txQueue)
        BY <1>0, <2>4 DEF SentInOrder
      <4>2. tx' = sent' + Len(txQueue')
        <5>1. Len(txQueue') = Len(t)
          BY Zenon, <3>1
        <5>2. Len(t) = Len(txQueue) - 1
          BY Zenon, <2>1
        <5> QED
          BY <1>0, <2>2, <4>1, <5>1, <5>2
      <4> QED
        <5>1. \A i \in 1 .. Len(txQueue') : txQueue'[i] = sent' + i
          BY Zenon, <2>3, <3>1
        <5>2. sent' \in Nat /\ Len(txQueue') \in Nat
          BY <1>0, <2>1, <2>2, <3>1
        <5> QED
          BY <2>4, <3>1, <4>2, <5>1, <5>2 DEF SentInOrder
  <2>5. CASE pc = "tx"
    <3>1. txQueue' = Append(t, tx) /\ pc' = "user"
      BY Zenon, <2>0, <2>5
    <3>2. tx = sent + Len(txQueue) + 1
      BY Zenon, <2>5 DEF SentInOrder
    <3>3. tx \in 1 .. MaxTx /\ Len(t) < TXQueueSize
      BY <1>0, <2>1, <2>2, <3>2 DEF TypeOK
    <3>4. /\ Len(txQueue') = Len(t) + 1
          /\ \A i \in 1 .. Len(t) : txQueue'[i] = t[i]
          /\ txQueue'[Len(t) + 1] = tx
      BY <2>1, <3>1, <3>3, AppendQueue
    <3>5. \A i \in 1 .. Len(txQueue') : txQueue'[i] = sent' + i
      <4> SUFFICES ASSUME NEW i \in 1 .. Len(txQueue') PROVE txQueue'[i] = sent' + i
        BY Zenon
      <4>1. CASE i \in 1 .. Len(t)
        BY Zenon, <2>3, <3>4, <4>1
      <4>2. CASE i = Len(t) + 1
        <5>1. txQueue'[i] = tx /\ i = Len(txQueue)
          BY <1>0, <2>1, <3>4, <4>2
        <5> QED
          BY <1>0, <2>2, <3>2, <5>1
      <4> QED
        BY <1>0, <2>1, <2>2, <3>4, <4>1, <4>2
    <3> QED
      <4>1. tx' = sent' + Len(txQueue')
        BY <1>0, <2>1, <2>2, <3>2, <3>4
      <4> QED
        BY <1>0, <2>2, <3>1, <3>5, <4>1 DEF SentInOrder
  <2> QED
    BY Zenon, <2>4, <2>5
<1>4. CASE txFromApplet
  <2>1. tx' = tx + 1 /\ tx' \in 1 .. MaxTx /\ pc = "user"
    BY <1>4 DEF txFromApplet, TypeOK
  <2>2. CASE usb /\ Len(txQueue) < TXQueueSize
    <3>1. txQueue' = Append(txQueue, tx') /\ sent' = sent /\ pc' = "user"
      BY <1>0, <1>4, <2>2 DEF txFromApplet, Send
    <3>2. /\ Len(txQueue') = Len(txQueue) + 1
          /\ \A i \in 1 .. Len(txQueue) : txQueue'[i] = txQueue[i]
          /\ txQueue'[Len(txQueue) + 1] = tx'
      BY <2>1, <2>2, <3>1, AppendQueue DEF TypeOK
    <3>3. \A i \in 1 .. Len(txQueue') : txQueue'[i] = sent' + i
      <4> SUFFICES ASSUME NEW i \in 1 .. Len(txQueue') PROVE txQueue'[i] = sent' + i
        BY Zenon
      <4>1. CASE i \in 1 .. Len(txQueue)
        BY Zenon, <3>1, <3>2, <4>1 DEF SentInOrder
      <4>2. CASE i = Len(txQueue) + 1
        BY <1>0, <2>1, <3>1, <3>2, <4>2 DEF SentInOrder
      <4> QED
        BY <1>0, <3>2, <4>1, <4>2
    <3> QED
      BY <1>0, <2>1, <3>1, <3>2, <3>3 DEF SentInOrder
  <2>3. CASE usb /\ ~(Len(txQueue) < TXQueueSize)
    <3>1. txQueue' = txQueue /\ sent' = sent /\ pc' = "tx"
      BY Zenon, <1>4, <2>3 DEF txFromApplet, Send
    <3> QED
      BY <1>0, <2>1, <3>1 DEF SentInOrder
  <2>4. CASE ~usb
    <3>1. txQueue' = txQueue /\ sent' = tx' /\ pc' = pc
      BY Zenon, <1>4, <2>4 DEF txFromApplet
    <3>2. txQueue = << >>
      BY Zenon, <2>4 DEF LANQueueEmpty
    <3> QED
      BY <1>0, <2>1, <3>1, <3>2 DEF SentInOrder
  <2> QED
    BY Zenon, <2>2, <2>3, <2>4
<1>5. CASE WatchdogReset
  BY <1>0, <1>5 DEF WatchdogReset, SentInOrder
<1> QED
  BY Zenon, <1>1, <1>2, <1>3, <1>4, <1>5 DEF Next, Arrive, ISR, ServiceUSB, HandlerRx, HandlerClear,
     Loop, HandlerReturn, Resume, AppletEnds, AppletStarts, rxFromApplet, UnmaskFIQ, vars

\* The invariant holds in every reachable state.
LEMMA Invariance == Spec => []IInv
<1>1. IInv /\ [Next]_vars => IInv'
  <2> SUFFICES ASSUME IInv, [Next]_vars PROVE IInv'
    BY Zenon
  <2>1. TypeOK'
    BY Zenon, TypeStep DEF IInv
  <2>2. LANQueueEmpty'
    BY DEF IInv, LANQueueEmpty, Next, vars, txs, Arrive, ISR, ServiceUSB, HandlerRx, HandlerClear,
       HandlerReturn, AppletEnds, AppletStarts, rxFromApplet, UnmaskFIQ, txFromApplet,
       asyncTx, WatchdogReset
  <2> QED
    BY Zenon, <2>1, <2>2, InterruptStep, SentStep DEF IInv
<1> QED
  BY <1>1, InitInv, PTL DEF Spec

\* Queues and ring never hold more than their capacity.
THEOREM TypeCorrect == Spec => []TypeOK
  BY Invariance, PTL DEF IInv

\* On LAN models the interrupt is never left pending without a frame to fetch.
THEOREM InterruptsEnd == Spec => []NoInterruptStorm
<1>1. IInv => NoInterruptStorm
  BY Zenon DEF IInv, PendingHasFrame, NoInterruptStorm
<1> QED
  BY <1>1, Invariance, PTL

\* No frame waits without an interrupt pending or the event handler awake, except
\* one queued before an instance had its event handler ready.
THEOREM InterruptsKept == Spec => []NoLostInterrupt
  BY Invariance, PTL DEF IInv

\* What the applet sends reaches the controller in order and completely.
THEOREM Transmission == Spec => []SentInOrder
  BY Invariance, PTL DEF IInv

(***************************************************************************)
(* The order of frames.  Sorted says it piece by piece, which is inductive *)
(* step by step; InOrder says the same of the pieces put together.         *)
(***************************************************************************)
Increasing(q) == \A i, j \in 1 .. Len(q) : i < j => q[i] < q[j]
Sorted == /\ Increasing(rxQueue) /\ Increasing(ring)
          /\ last < next
          /\ \A i \in 1 .. Len(rxQueue) : last < rxQueue[i] /\ rxQueue[i] < next
          /\ \A i \in 1 .. Len(ring) : last < ring[i] /\ ring[i] < next
          /\ \A i \in 1 .. Len(rxQueue), j \in 1 .. Len(ring) : rxQueue[i] < ring[j]

\* The indices of a queue, and its members, are numbers.
LEMMA QueueMembers ==
  ASSUME NEW n \in Nat, NEW size \in Nat, NEW q, IsQueue(q, n, size)
  PROVE  Len(q) \in Nat /\ \A i \in 1 .. Len(q) : i \in Nat /\ q[i] \in Nat
<1>1. q \in Seq(1 .. n)
  BY Zenon DEF IsQueue
<1>2. Len(q) \in Nat /\ \A i \in 1 .. Len(q) : q[i] \in 1 .. n
  BY <1>1
<1> QED
  BY <1>2

\* A larger frame at the end of an increasing queue keeps it increasing.
LEMMA AppendIncreasing ==
  ASSUME NEW n \in Nat, NEW size \in Nat, NEW q, IsQueue(q, n, size), Len(q) < size,
         NEW e \in 1 .. n, Increasing(q), \A i \in 1 .. Len(q) : q[i] < e
  PROVE  Increasing(Append(q, e))
<1> DEFINE r == Append(q, e)
<1>1. /\ Len(r) = Len(q) + 1
      /\ \A i \in 1 .. Len(q) : r[i] = q[i]
      /\ r[Len(q) + 1] = e
  BY AppendQueue
<1>2. Len(q) \in Nat
  BY Zenon, QueueMembers
<1> HIDE DEF r
<1> SUFFICES ASSUME NEW i \in 1 .. Len(r), NEW j \in 1 .. Len(r), i < j PROVE r[i] < r[j]
  BY Zenon DEF Increasing, r
<1>3. i \in 1 .. Len(q)
  BY <1>1, <1>2
<1>4. CASE j \in 1 .. Len(q)
  BY Zenon, <1>1, <1>3, <1>4 DEF Increasing
<1>5. CASE j = Len(q) + 1
  BY Zenon, <1>1, <1>3, <1>5
<1> QED
  BY <1>1, <1>2, <1>4, <1>5

\* A frame moved from the ring to the queue, or dropped, keeps the order.
LEMMA RxSorted ==
  ASSUME TypeOK, Sorted, ring # << >>, asyncRx(Head(ring)), ring' = Tail(ring),
         UNCHANGED <<last, next>>
  PROVE  Sorted'
<1> USE ConstantAssumption
<1>1. /\ Len(ring) \in Nat /\ Len(rxQueue) \in Nat
      /\ \A i \in 1 .. Len(ring) : i \in Nat /\ ring[i] \in Nat
      /\ \A i \in 1 .. Len(rxQueue) : i \in Nat /\ rxQueue[i] \in Nat
  BY Zenon, QueueMembers DEF TypeOK
<1>2. /\ Head(ring) \in 1 .. MaxFrame /\ Head(ring) = ring[1]
      /\ Len(ring') = Len(ring) - 1
      /\ \A i \in 1 .. Len(ring') : ring'[i] = ring[i + 1]
  BY TailQueue DEF TypeOK
<1>3. Len(ring) > 0
  BY Zenon, QueueLen DEF TypeOK
<1>4. /\ 1 \in 1 .. Len(ring)
      /\ \A i \in 1 .. Len(ring') : i \in Nat /\ i + 1 \in 1 .. Len(ring) /\ 1 < i + 1
  BY <1>1, <1>2, <1>3
<1>5. Increasing(ring')
  BY <1>1, <1>2, <1>4 DEF Increasing, Sorted
<1>6. /\ \A i \in 1 .. Len(ring') : last < ring'[i] /\ ring'[i] < next
      /\ \A i \in 1 .. Len(ring') : ring[1] < ring'[i]
  BY Zenon, <1>1, <1>2, <1>4 DEF Increasing, Sorted
<1>7. CASE Len(rxQueue) < RXQueueSize
  <2>1. rxQueue' = Append(rxQueue, ring[1])
    BY Zenon, <1>2, <1>7 DEF asyncRx
  <2>2. /\ Len(rxQueue') = Len(rxQueue) + 1
        /\ \A i \in 1 .. Len(rxQueue) : rxQueue'[i] = rxQueue[i]
        /\ rxQueue'[Len(rxQueue) + 1] = ring[1]
    BY <1>2, <1>7, <2>1, AppendQueue DEF TypeOK
  <2>3. \A i \in 1 .. Len(rxQueue') : \/ i \in 1 .. Len(rxQueue)
                                      \/ i = Len(rxQueue) + 1
    BY SMTT(30), <1>1, <2>2
  <2>4. Increasing(rxQueue')
    <3>1. \A i \in 1 .. Len(rxQueue) : rxQueue[i] < ring[1]
      BY Zenon, <1>4 DEF Sorted
    <3> QED
      BY Zenon, <1>2, <1>7, <2>1, <3>1, AppendIncreasing DEF TypeOK, Sorted
  <2>5. \A i \in 1 .. Len(rxQueue') : last < rxQueue'[i] /\ rxQueue'[i] < next
    BY Zenon, <1>4, <2>2, <2>3 DEF Sorted
  <2>6. \A i \in 1 .. Len(rxQueue'), j \in 1 .. Len(ring') : rxQueue'[i] < ring'[j]
    BY Zenon, <1>2, <1>4, <1>6, <2>2, <2>3 DEF Sorted
  <2> QED
    BY Zenon, <1>5, <1>6, <2>4, <2>5, <2>6 DEF Sorted
<1>8. CASE ~(Len(rxQueue) < RXQueueSize)
  <2>1. rxQueue' = rxQueue
    BY Zenon, <1>8 DEF asyncRx
  <2>2. \A i \in 1 .. Len(rxQueue), j \in 1 .. Len(ring') : rxQueue[i] < ring'[j]
    BY Zenon, <1>2, <1>4 DEF Sorted
  <2>3. /\ Increasing(rxQueue')
        /\ \A i \in 1 .. Len(rxQueue') : last < rxQueue'[i] /\ rxQueue'[i] < next
    BY Zenon, <2>1 DEF Sorted
  <2> QED
    BY Zenon, <1>5, <1>6, <2>1, <2>2, <2>3 DEF Sorted
<1> QED
  BY Zenon, <1>7, <1>8

\* A frame taken from the queue, given to the applet or lost, keeps the order.
LEMMA TakenSorted ==
  ASSUME TypeOK, Sorted, rxQueue # << >>, rxQueue' = Tail(rxQueue),
         last' \in {last, Head(rxQueue)}, UNCHANGED <<ring, next>>
  PROVE  Sorted'
<1> USE ConstantAssumption
<1>1. /\ Len(ring) \in Nat /\ Len(rxQueue) \in Nat /\ last \in Nat /\ next \in Nat
      /\ \A i \in 1 .. Len(ring) : i \in Nat /\ ring[i] \in Nat
      /\ \A i \in 1 .. Len(rxQueue) : i \in Nat /\ rxQueue[i] \in Nat
  BY QueueMembers DEF TypeOK
<1>2. /\ Head(rxQueue) = rxQueue[1]
      /\ Len(rxQueue') = Len(rxQueue) - 1
      /\ \A i \in 1 .. Len(rxQueue') : rxQueue'[i] = rxQueue[i + 1]
  BY TailQueue DEF TypeOK
<1>3. Len(rxQueue) > 0
  BY Zenon, QueueLen DEF TypeOK
<1>4. /\ 1 \in 1 .. Len(rxQueue)
      /\ \A i \in 1 .. Len(rxQueue') : i \in Nat /\ i + 1 \in 1 .. Len(rxQueue) /\ 1 < i + 1
  BY <1>1, <1>2, <1>3
<1>5. Increasing(rxQueue')
  BY <1>1, <1>2, <1>4 DEF Increasing, Sorted
<1>6. Increasing(ring') /\ ring' = ring
  BY Zenon DEF Sorted
<1>7. /\ last' < next
      /\ \A i \in 1 .. Len(ring) : last' < ring[i] /\ ring[i] < next
  BY Zenon, <1>1, <1>2, <1>4 DEF Sorted
<1>8. \A i \in 1 .. Len(rxQueue') : last' < rxQueue'[i] /\ rxQueue'[i] < next
  BY <1>1, <1>2, <1>4 DEF Increasing, Sorted
<1>9. \A i \in 1 .. Len(rxQueue'), j \in 1 .. Len(ring) : rxQueue'[i] < ring[j]
  BY Zenon, <1>2, <1>4 DEF Sorted
<1> QED
  BY Zenon, <1>5, <1>6, <1>7, <1>8, <1>9 DEF Sorted

\* A frame that arrives is the newest.
LEMMA ArriveSorted ==
  ASSUME TypeOK, Sorted, Arrive
  PROVE  Sorted'
<1> USE ConstantAssumption
<1>1. /\ Len(ring) \in Nat /\ Len(rxQueue) \in Nat /\ last \in Nat /\ next \in 1 .. MaxFrame
      /\ \A i \in 1 .. Len(ring) : i \in Nat /\ ring[i] \in Nat
      /\ \A i \in 1 .. Len(rxQueue) : i \in Nat /\ rxQueue[i] \in Nat
  BY QueueMembers DEF TypeOK, Arrive
<1>2. rxQueue' = rxQueue /\ last' = last /\ next' = next + 1 /\ next < next' /\ Increasing(rxQueue')
  BY <1>1 DEF Arrive, Sorted
<1>3. last < next' /\ \A i \in 1 .. Len(rxQueue) : last < rxQueue[i] /\ rxQueue[i] < next'
  BY <1>1, <1>2 DEF Sorted
<1>4. CASE Len(ring) < RingSize
  <2>1. ring' = Append(ring, next)
    BY <1>1, <1>4 DEF Arrive
  <2>2. /\ Len(ring') = Len(ring) + 1
        /\ \A i \in 1 .. Len(ring) : ring'[i] = ring[i]
        /\ ring'[Len(ring) + 1] = next
    BY <1>1, <1>4, <2>1, AppendQueue DEF TypeOK
  <2>3. \A i \in 1 .. Len(ring') : i \in 1 .. Len(ring) \/ i = Len(ring) + 1
    BY <1>1, <2>2
  <2>4. Increasing(ring')
    BY Zenon, <1>1, <1>4, <2>1, AppendIncreasing DEF TypeOK, Sorted
  <2>5. \A i \in 1 .. Len(ring') : last < ring'[i] /\ ring'[i] < next'
    <3>1. \A i \in 1 .. Len(ring) : last < ring[i] /\ ring[i] < next'
      BY <1>1, <1>2 DEF Sorted
    <3>2. last < next
      BY Zenon DEF Sorted
    <3> QED
      BY Zenon, <1>2, <2>2, <2>3, <3>1, <3>2
  <2>6. \A i \in 1 .. Len(rxQueue), j \in 1 .. Len(ring') : rxQueue[i] < ring'[j]
    BY Zenon, <2>2, <2>3 DEF Sorted
  <2> QED
    BY Zenon, <1>2, <1>3, <2>4, <2>5, <2>6 DEF Sorted
<1>5. CASE ~(Len(ring) < RingSize)
  <2>1. ring' = ring /\ Increasing(ring')
    BY Zenon, <1>5 DEF Arrive, Sorted
  <2>2. \A i \in 1 .. Len(ring) : last < ring[i] /\ ring[i] < next'
    BY <1>1, <1>2 DEF Sorted
  <2> QED
    BY Zenon, <1>2, <1>3, <2>1, <2>2 DEF Sorted
<1> QED
  BY Zenon, <1>4, <1>5

\* Two increasing sequences, one above the other, make an increasing one of the
\* same members.
LEMMA ConcatIncreasing ==
  ASSUME NEW s \in Seq(Nat), NEW t \in Seq(Nat), Increasing(s), Increasing(t),
         \A i \in 1 .. Len(s), j \in 1 .. Len(t) : s[i] < t[j]
  PROVE  /\ s \o t \in Seq(Nat) /\ Increasing(s \o t)
         /\ \A i \in 1 .. Len(s \o t) : \/ \E k \in 1 .. Len(s) : (s \o t)[i] = s[k]
                                        \/ \E k \in 1 .. Len(t) : (s \o t)[i] = t[k]
<1> DEFINE a == Len(s)
           b == Len(t)
           u == s \o t
<1>1. a \in Nat /\ b \in Nat
  OBVIOUS
<1>2. /\ u \in Seq(Nat) /\ Len(u) = a + b
      /\ \A i \in 1 .. a + b : u[i] = IF i <= a THEN s[i] ELSE t[i - a]
  BY Zenon, ConcatProperties
<1> HIDE DEF u, a, b
<1>3. \A i \in 1 .. Len(u) : \/ i \in 1 .. a /\ u[i] = s[i]
                             \/ ~(i <= a) /\ i - a \in 1 .. b /\ u[i] = t[i - a]
  BY <1>1, <1>2
<1>4. ASSUME NEW i \in 1 .. Len(u), NEW j \in 1 .. Len(u), i < j
      PROVE  u[i] < u[j]
  <2>0. i \in Nat /\ j \in Nat
    BY <1>1, <1>2
  <2>1. CASE j <= a
    <3>1. i \in 1 .. a /\ j \in 1 .. a /\ u[i] = s[i] /\ u[j] = s[j]
      BY <1>1, <1>3, <1>4, <2>0, <2>1
    <3> QED
      BY Zenon, <1>4, <3>1 DEF Increasing, a
  <2>2. CASE i <= a /\ ~(j <= a)
    <3>1. i \in 1 .. a /\ j - a \in 1 .. b /\ u[i] = s[i] /\ u[j] = t[j - a]
      BY <1>1, <1>3, <2>0, <2>2
    <3> QED
      BY Zenon, <3>1 DEF a, b
  <2>3. CASE ~(i <= a)
    <3>1. ~(j <= a)
      BY <1>1, <1>4, <2>0, <2>3
    <3>2. i - a \in 1 .. b /\ j - a \in 1 .. b /\ u[i] = t[i - a] /\ u[j] = t[j - a]
      BY <1>3, <2>3, <3>1
    <3>3. i - a < j - a
      BY <1>1, <1>4, <2>0
    <3> QED
      BY Zenon, <3>2, <3>3 DEF Increasing, b
  <2> QED
    BY Zenon, <2>1, <2>2, <2>3
<1>5. Increasing(u)
  BY Zenon, <1>4 DEF Increasing
<1> QED
  BY Zenon, <1>2, <1>3, <1>5 DEF u, a, b

\* Sorted pieces make an increasing whole.
LEMMA SortedWhole == TypeOK /\ Sorted => InOrder
<1> SUFFICES ASSUME TypeOK, Sorted PROVE InOrder
  BY Zenon
<1> USE ConstantAssumption
<1>1. last \in Nat /\ next \in Nat
  BY DEF TypeOK
<1>2. rxQueue \in Seq(Nat) /\ ring \in Seq(Nat) /\ <<last>> \in Seq(Nat) /\ <<next>> \in Seq(Nat)
  <2>1. rxQueue \in Seq(1 .. MaxFrame) /\ ring \in Seq(1 .. MaxFrame)
    BY Zenon DEF TypeOK, IsQueue
  <2> QED
    BY <1>1, <2>1
<1>3. Increasing(<<last>>) /\ Increasing(<<next>>)
  BY <1>1 DEF Increasing
<1> DEFINE p == <<last>> \o rxQueue
           q == p \o ring
<1>4. /\ p \in Seq(Nat) /\ Increasing(p)
      /\ \A i \in 1 .. Len(p) : p[i] = last \/ \E k \in 1 .. Len(rxQueue) : p[i] = rxQueue[k]
  <2>1. \A i \in 1 .. Len(<<last>>), j \in 1 .. Len(rxQueue) : <<last>>[i] < rxQueue[j]
    BY DEF Sorted
  <2>2. /\ p \in Seq(Nat) /\ Increasing(p)
        /\ \A i \in 1 .. Len(p) : \/ \E k \in 1 .. Len(<<last>>) : p[i] = <<last>>[k]
                                  \/ \E k \in 1 .. Len(rxQueue) : p[i] = rxQueue[k]
    BY Zenon, <1>2, <1>3, <2>1, ConcatIncreasing DEF Sorted
  <2>3. \A k \in 1 .. Len(<<last>>) : <<last>>[k] = last
    OBVIOUS
  <2> HIDE DEF p
  <2> QED
    BY Zenon, <2>2, <2>3
<1> HIDE DEF p
<1>5. /\ q \in Seq(Nat) /\ Increasing(q)
      /\ \A i \in 1 .. Len(q) : q[i] < next
  <2>1. \A i \in 1 .. Len(p), j \in 1 .. Len(ring) : p[i] < ring[j]
    BY Zenon, <1>4 DEF Sorted
  <2>2. /\ q \in Seq(Nat) /\ Increasing(q)
        /\ \A i \in 1 .. Len(q) : \/ \E k \in 1 .. Len(p) : q[i] = p[k]
                                  \/ \E k \in 1 .. Len(ring) : q[i] = ring[k]
    BY Zenon, <1>2, <1>4, <2>1, ConcatIncreasing DEF Sorted
  <2>3. \A k \in 1 .. Len(p) : p[k] < next
    BY Zenon, <1>4 DEF Sorted
  <2> HIDE DEF q
  <2> QED
    BY Zenon, <2>2, <2>3 DEF Sorted
<1> HIDE DEF q
<1>6. Increasing(q \o <<next>>)
  <2>1. \A i \in 1 .. Len(q), j \in 1 .. Len(<<next>>) : q[i] < <<next>>[j]
    BY <1>5
  <2> QED
    BY Zenon, <1>2, <1>3, <1>5, <2>1, ConcatIncreasing
<1> QED
  BY Zenon, <1>6 DEF InOrder, Increasing, q, p

\* The applet gets frames in the order of their arrival and none twice, whatever
\* the sizes of ring and queue and however often it is restarted.
THEOREM Reception == Spec => []InOrder
<1>1. Init => Sorted
  BY DEF Init, Sorted, Increasing
<1>2. TypeOK /\ Sorted /\ [Next]_vars => Sorted'
  <2> SUFFICES ASSUME TypeOK, Sorted, [Next]_vars PROVE Sorted'
    BY Zenon
  <2>1. CASE (ServiceUSB /\ ring # << >>) \/ HandlerRx
    <3>1. /\ ring # << >> /\ asyncRx(Head(ring)) /\ ring' = Tail(ring)
          /\ UNCHANGED <<last, next>>
      BY Zenon, <2>1 DEF ServiceUSB, HandlerRx
    <3> QED
      BY Zenon, <3>1, RxSorted
  <2>2. CASE rxFromApplet /\ rxQueue # << >>
    <3>1. /\ rxQueue' = Tail(rxQueue) /\ last' \in {last, Head(rxQueue)}
          /\ UNCHANGED <<ring, next>>
      BY Zenon, <2>2 DEF rxFromApplet
    <3> QED
      BY Zenon, <2>2, <3>1, TakenSorted
  <2>3. CASE Arrive
    BY Zenon, <2>3, ArriveSorted
  <2>4. CASE WatchdogReset
    BY <2>4 DEF WatchdogReset, Sorted, Increasing
  <2>5. CASE UNCHANGED <<ring, rxQueue, last, next>>
    BY Zenon, <2>5 DEF Sorted, Increasing
  <2> QED
    BY Zenon, <2>1, <2>2, <2>3, <2>4, <2>5 DEF Next, asyncTx, ISR, ServiceUSB, HandlerClear, HandlerReturn,
       AppletEnds, AppletStarts, rxFromApplet, UnmaskFIQ, txFromApplet, rx, vars
<1> QED
  BY <1>1, <1>2, SortedWhole, TypeCorrect, PTL DEF Spec
=============================================================================
