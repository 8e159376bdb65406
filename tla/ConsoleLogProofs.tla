-------------------------- MODULE ConsoleLogProofs --------------------------
(***************************************************************************)
(* The console log and the crash log for any limit on lines, any size of   *)
(* blocks and logs, and any number of bytes, exits, failed stores and      *)
(* resets.                                                                 *)
(***************************************************************************)
EXTENDS ConsoleLog, SequenceTheorems, TLAPS

(***************************************************************************)
(* The inductive invariant.  The line buffer holds the last bytes of an    *)
(* unfinished line (Held), so the ring buffer, while it has room, has all  *)
(* the others (Flushed), and it ends in the middle of a line only after    *)
(* outputLimit bytes of it (EndsLong).  The card has the last log that was *)
(* stored in full, padded (OnCard).                                        *)
(***************************************************************************)
Held == /\ Len(buf) <= n
        /\ \A p \in 1..Len(buf) :
             /\ buf[p].who = "ta" /\ buf[p].kind # "nl"
             /\ buf[p].n = n - Len(buf) + p

Flushed ==
  debug /\ Len(ring) < maxLogSize =>
    /\ \A i \in 1 .. n - Len(buf) : \E p \in TaAt(ring) : ring[p].n = i
    /\ \A p \in TaAt(ring) : ring[p].n \in 1 .. n - Len(buf)
    /\ \A p, q \in TaAt(ring) : p < q => ring[p].n < ring[q].n

\* The byte at k of s is part of a line, and the outputLimit bytes before it are too.
Long(s, k) == /\ k > outputLimit
              /\ \A j \in k - outputLimit .. k : s[j].who = "ta" /\ s[j].kind # "nl"

EndsLong == LET k == Len(ring)
            IN  0 < k /\ k < maxLogSize /\ ring[k].who = "ta" /\ ring[k].kind # "nl" => Long(ring, k)

OnCard == \A l \in stored : l \in Seq(Item) /\ Len(l) <= maxLogSize /\ Read = Sized(l)

IInv == TypeOK /\ Held /\ Flushed /\ LinesUnbroken /\ EndsLong /\ OnCard

\* Sizes are positive.
LEMMA SizeType == /\ maxLogSize \in Nat \ {0} /\ blockSize \in Nat \ {0}
                  /\ crashLogNumBlocks \in Nat \ {0}
                  /\ outputLimit \in Nat \ {0} /\ MaxBytes \in Nat \ {0}
  BY ConstantAssumption DEF maxLogSize

LEMMA ItemType == /\ OSLine \in Item /\ Zero \in Item
                  /\ \A i \in 1..MaxBytes, k \in {"text", "nl", "nul"} : Ta(i, k) \in Item
  BY DEF Item

\* What printk leaves in the ring buffer: what was there and, as far as it fits, s.
LEMMA Printk ==
  ASSUME debug \in BOOLEAN, ring \in Seq(Item), Len(ring) <= maxLogSize,
         NEW s \in Seq(Item)
  PROVE  /\ printk(s) \in Seq(Item) /\ Len(printk(s)) <= maxLogSize
         /\ Len(ring) <= Len(printk(s)) /\ Len(printk(s)) <= Len(ring) + Len(s)
         /\ \A i \in 1..Len(printk(s)) :
              printk(s)[i] = IF i <= Len(ring) THEN ring[i] ELSE s[i - Len(ring)]
         /\ debug /\ Len(printk(s)) < maxLogSize => Len(printk(s)) = Len(ring) + Len(s)
         /\ ~debug => printk(s) = ring
<1> DEFINE all == ring \o s
           k == IF Len(all) > maxLogSize THEN maxLogSize ELSE Len(all)
<1>1. /\ all \in Seq(Item) /\ Len(all) = Len(ring) + Len(s)
      /\ \A i \in 1 .. Len(ring) + Len(s) :
           all[i] = IF i <= Len(ring) THEN ring[i] ELSE s[i - Len(ring)]
  BY Zenon, ConcatProperties
<1>2. Len(ring) \in Nat /\ Len(s) \in Nat /\ maxLogSize \in Nat
  BY SizeType
<1>3. k \in Nat /\ k <= Len(all) /\ k <= maxLogSize /\ Len(ring) <= k
  BY <1>1, <1>2
<1>4. \A i \in 1..k : all[i] \in Item
  BY <1>1, <1>3, ElementOfSeq
<1> HIDE DEF all, k
<1>5. /\ SubSeq(all, 1, k) \in Seq(Item) /\ Len(SubSeq(all, 1, k)) = k
      /\ \A i \in 1..k : SubSeq(all, 1, k)[i] = all[i]
  BY <1>3, <1>4, SubSeqProperties
<1>6. CASE debug
  <2>1. printk(s) = SubSeq(all, 1, k)
    BY Zenon, <1>6 DEF printk, all, k
  <2>2. k < maxLogSize => k = Len(ring) + Len(s)
    BY <1>1, <1>2 DEF k
  <2> QED
    BY <1>1, <1>2, <1>3, <1>5, <1>6, <2>1, <2>2
<1>7. CASE ~debug
  <2>1. printk(s) = ring
    BY Zenon, <1>7 DEF printk
  <2> QED
    BY <1>2, <1>7, <2>1
<1> QED
  BY Zenon, <1>6, <1>7

\* A line of the OS follows the applet's bytes in the ring buffer.
LEMMA PrintLine ==
  ASSUME IInv, ring' = printk(<<OSLine>>), UNCHANGED <<debug, buf, n>>
  PROVE  /\ ring' \in Seq(Item) /\ Len(ring') <= maxLogSize
         /\ Held' /\ Flushed' /\ LinesUnbroken' /\ EndsLong'
<1> DEFINE s == <<OSLine>>
<1>1. /\ debug \in BOOLEAN /\ ring \in Seq(Item) /\ Len(ring) <= maxLogSize
      /\ n \in Nat /\ buf \in Seq(Item) /\ Len(buf) \in Nat /\ Len(ring) \in Nat
      /\ maxLogSize \in Nat
  BY SizeType DEF IInv, TypeOK
<1>2. s \in Seq(Item) /\ Len(s) = 1 /\ s[1] = OSLine
  BY ItemType
<1> HIDE DEF s
<1>3. /\ ring' \in Seq(Item) /\ Len(ring') <= maxLogSize
      /\ Len(ring) <= Len(ring') /\ Len(ring') <= Len(ring) + 1
      /\ \A i \in 1..Len(ring') : ring'[i] = IF i <= Len(ring) THEN ring[i] ELSE s[i - Len(ring)]
      /\ debug /\ Len(ring') < maxLogSize => Len(ring') = Len(ring) + 1
      /\ ~debug => ring' = ring
  BY Zenon, <1>1, <1>2, Printk DEF s
<1>4. /\ Len(ring') \in Nat
      /\ \A i \in 1..Len(ring) : ring'[i] = ring[i]
      /\ Len(ring') # Len(ring) => Len(ring') = Len(ring) + 1 /\ ring'[Len(ring) + 1] = OSLine
  <2>1. Len(ring') \in Nat
    BY <1>3
  <2>2. \A i \in 1..Len(ring) : i \in 1..Len(ring') /\ i <= Len(ring)
    <3>1. Len(ring) <= Len(ring')
      BY Zenon, <1>3
    <3> QED
      BY <1>1, <2>1, <3>1
  <2>3. ASSUME Len(ring') # Len(ring)
        PROVE  /\ Len(ring') = Len(ring) + 1 /\ Len(ring) + 1 \in 1..Len(ring')
               /\ ~(Len(ring) + 1 <= Len(ring)) /\ (Len(ring) + 1) - Len(ring) = 1
    <3>1. Len(ring) <= Len(ring') /\ Len(ring') <= Len(ring) + 1
      BY Zenon, <1>3
    <3> QED
      BY <1>1, <2>1, <2>3, <3>1
  <2>4. \A i \in 1..Len(ring) : ring'[i] = ring[i]
    BY Zenon, <1>3, <2>2
  <2>5. ASSUME Len(ring') # Len(ring) PROVE ring'[Len(ring) + 1] = OSLine
    <3> DEFINE k == Len(ring) + 1
    <3>1. k \in 1..Len(ring') /\ ~(k <= Len(ring)) /\ k - Len(ring) = 1
      BY Zenon, <2>3, <2>5
    <3> HIDE DEF k
    <3>2. ring'[k] = s[1]
      BY Zenon, <1>3, <3>1
    <3> QED
      BY Zenon, <1>2, <3>2 DEF k
  <2> QED
    BY Zenon, <2>1, <2>3, <2>4, <2>5
<1>5. Held'
  BY Zenon DEF IInv, Held
<1>6. Flushed'
  <2>1. CASE debug /\ Len(ring') < maxLogSize
    <3>1. TaAt(ring') = TaAt(ring) /\ \A p \in TaAt(ring) : ring'[p] = ring[p]
      BY <1>1, <1>3, <1>4, <2>1 DEF TaAt, OSLine
    <3>2. Len(ring) < maxLogSize
      BY <1>1, <1>3, <1>4, <2>1
    <3> QED
      BY <2>1, <3>1, <3>2 DEF IInv, Flushed
  <2> QED
    BY Zenon, <2>1 DEF Flushed
<1>7. LinesUnbroken'
  <2> SUFFICES ASSUME NEW i \in 2..Len(ring'), ring'[i].who = "os", ring'[i - 1].who = "ta",
                      ring'[i - 1].kind # "nl"
               PROVE  Long(ring', i - 1)
    BY <1>1, <1>4, SizeType DEF LinesUnbroken, Long
  <2>1. i - 1 \in 1..Len(ring) /\ ring'[i - 1] = ring[i - 1]
    <3>1. Len(ring') <= Len(ring) + 1
      BY Zenon, <1>3
    <3>2. i - 1 \in 1..Len(ring)
      BY <1>1, <1>4, <3>1
    <3> QED
      BY Zenon, <1>4, <3>2
  <2>2. Long(ring, i - 1)
    <3>1. CASE i <= Len(ring)
      <4>1. ring[i].who = "os" /\ i \in 2..Len(ring)
        BY <1>1, <1>4, <3>1
      <4> QED
        BY <2>1, <4>1, SizeType DEF IInv, LinesUnbroken, Long
    <3>2. CASE i > Len(ring)
      <4>1. i - 1 = Len(ring) /\ Len(ring) < maxLogSize
        BY <1>1, <1>3, <1>4, <3>2
      <4> QED
        BY <2>1, <4>1, <1>1 DEF IInv, EndsLong
    <3> QED
      BY <1>1, <3>1, <3>2
  <2>3. /\ i - 1 > outputLimit
        /\ \A j \in (i - 1) - outputLimit .. i - 1 : ring[j].who = "ta" /\ ring[j].kind # "nl"
    BY Zenon, <2>2 DEF Long
  <2>4. \A j \in (i - 1) - outputLimit .. i - 1 : j \in 1..Len(ring)
    BY <1>1, <2>1, <2>3, SizeType
  <2> QED
    BY Zenon, <1>4, <2>3, <2>4 DEF Long
<1>8. EndsLong'
  <2>1. CASE Len(ring') = Len(ring)
    <3>1. ring' = ring
      BY Zenon, <1>1, <1>3, <1>4, <2>1, SeqEqual
    <3> QED
      BY Zenon, <3>1 DEF IInv, EndsLong, Long
  <2>2. CASE Len(ring') = Len(ring) + 1
    BY <1>1, <1>4, <2>2 DEF EndsLong, OSLine
  <2> QED
    BY Zenon, <1>1, <1>3, <1>4, <2>1, <2>2
<1> QED
  BY Zenon, <1>3, <1>5, <1>6, <1>7, <1>8

\* A SYS_WRITE: a byte is held back, or the line it ends is printed.
LEMMA WriteStep ==
  ASSUME IInv, NEW kind \in {"text", "nl", "nul"}, bufferedStdoutLog(kind)
  PROVE  IInv'
<1> DEFINE b == Append(buf, Ta(n + 1, kind))
<1>1. /\ debug \in BOOLEAN /\ ring \in Seq(Item) /\ Len(ring) <= maxLogSize
      /\ n \in Nat /\ buf \in Seq(Item) /\ Len(buf) \in Nat /\ Len(ring) \in Nat
      /\ Len(buf) <= outputLimit /\ Len(buf) <= n
      /\ maxLogSize \in Nat /\ outputLimit \in Nat \ {0}
  BY SizeType DEF IInv, TypeOK, Held
<1>2. n' = n + 1 /\ n + 1 \in 1..MaxBytes /\ n' \in 0..MaxBytes
  BY <1>1, SizeType DEF bufferedStdoutLog
<1>3. Ta(n + 1, kind) \in Item
  BY Zenon, <1>2, ItemType
<1>4. /\ b \in Seq(Item) /\ Len(b) = Len(buf) + 1
      /\ \A i \in 1..Len(buf) : b[i] = buf[i]
      /\ b[Len(buf) + 1] = Ta(n + 1, kind)
  BY <1>1, <1>3, AppendProperties
<1>7. /\ UNCHANGED <<debug, mem, up, stored>>
      /\ IF Flushes(b) THEN ring' = printk(b) /\ buf' = Reset(b) ELSE buf' = b /\ UNCHANGED ring
  BY Zenon DEF bufferedStdoutLog
<1> HIDE DEF b
<1>5. \A p \in 1..Len(b) : b[p].who = "ta" /\ b[p].n = n' - Len(b) + p
  <2> SUFFICES ASSUME NEW p \in 1..Len(b)
               PROVE  b[p].who = "ta" /\ b[p].n = n' - Len(b) + p
    BY Zenon
  <2>1. n' - Len(b) + p = n - Len(buf) + p
    BY <1>1, <1>2, <1>4
  <2>2. CASE p \in 1..Len(buf)
    BY Zenon, <1>4, <2>1, <2>2 DEF IInv, Held
  <2>3. CASE p = Len(buf) + 1
    BY <1>1, <1>4, <2>1, <2>3 DEF Ta
  <2> QED
    BY <1>1, <1>4, <2>2, <2>3
<1>6. \A p \in 1..Len(buf) : b[p].kind # "nl"
  BY Zenon, <1>4 DEF IInv, Held
<1>8. OnCard'
  BY Zenon, <1>7 DEF IInv, OnCard, Read, Sized
<1>9. CASE ~Flushes(b)
  <2>1. buf' = b /\ ring' = ring
    BY Zenon, <1>7, <1>9
  <2>2. b[Len(b)].kind # "nl" /\ Len(b) <= outputLimit
    BY <1>1, <1>4, <1>9 DEF Flushes
  <2>3. TypeOK'
    BY Zenon, <1>2, <1>4, <1>7, <2>1, <2>2 DEF IInv, TypeOK
  <2>4. Held'
    <3>1. Len(b) <= n' /\ \A p \in 1..Len(b) : p \in 1..Len(buf) \/ p = Len(b)
      BY <1>1, <1>2, <1>4
    <3> QED
      BY Zenon, <1>5, <1>6, <2>1, <2>2, <3>1 DEF Held
  <2>5. n' - Len(buf') = n - Len(buf)
    BY <1>1, <1>2, <1>4, <2>1
  <2>6. Flushed'
    BY Zenon, <1>7, <2>1, <2>5 DEF IInv, Flushed
  <2>7. LinesUnbroken' /\ EndsLong'
    BY Zenon, <2>1 DEF IInv, LinesUnbroken, EndsLong, Long
  <2> QED
    BY Zenon, <1>8, <2>3, <2>4, <2>6, <2>7 DEF IInv
<1>10. CASE Flushes(b)
  <2>1. buf' = << >> /\ ring' = printk(b) /\ Len(buf') = 0
    BY <1>7, <1>10 DEF Reset
  <2>2. /\ ring' \in Seq(Item) /\ Len(ring') <= maxLogSize
        /\ Len(ring) <= Len(ring') /\ Len(ring') <= Len(ring) + Len(b)
        /\ \A i \in 1..Len(ring') : ring'[i] = IF i <= Len(ring) THEN ring[i] ELSE b[i - Len(ring)]
        /\ debug /\ Len(ring') < maxLogSize => Len(ring') = Len(ring) + Len(b)
        /\ ~debug => ring' = ring
    BY <1>1, <1>4, <2>1, Printk
  <2>3. Len(ring') \in Nat
    BY <2>2
  <2>4. \A i \in 1..Len(ring) : i \in 1..Len(ring') /\ ring'[i] = ring[i]
    BY <1>1, <2>2, <2>3
  <2>5. \A i \in Len(ring) + 1 .. Len(ring') :
          /\ i \in 1..Len(ring') /\ i - Len(ring) \in 1..Len(b)
          /\ ring'[i] = b[i - Len(ring)]
    BY <1>1, <1>4, <2>2, <2>3
  <2>6. TypeOK'
    BY <1>1, <1>2, <1>7, <2>1, <2>2 DEF IInv, TypeOK
  <2>7. Held'
    BY <1>1, <1>2, <2>1 DEF Held
  <2>8. Flushed'
    <3> SUFFICES ASSUME debug, Len(ring') < maxLogSize
                 PROVE  /\ \A i \in 1 .. n' : \E p \in TaAt(ring') : ring'[p].n = i
                        /\ \A p \in TaAt(ring') : ring'[p].n \in 1 .. n'
                        /\ \A p, q \in TaAt(ring') : p < q => ring'[p].n < ring'[q].n
      BY <1>1, <1>2, <1>7, <2>1 DEF Flushed
    <3>1. Len(ring') = Len(ring) + Len(b) /\ Len(ring) < maxLogSize
      BY <1>1, <1>4, <2>2, <2>3
    <3>2. /\ \A i \in 1 .. n - Len(buf) : \E p \in TaAt(ring) : ring[p].n = i
          /\ \A p \in TaAt(ring) : ring[p].n \in 1 .. n - Len(buf)
          /\ \A p, q \in TaAt(ring) : p < q => ring[p].n < ring[q].n
      BY Zenon, <3>1 DEF IInv, Flushed
    <3>3. \A p \in TaAt(ring) : p \in TaAt(ring') /\ ring'[p] = ring[p]
      BY Zenon, <2>4 DEF TaAt
    <3>4. \A p \in Len(ring) + 1 .. Len(ring') :
             /\ p \in TaAt(ring')
             /\ ring'[p].n = n - Len(buf) + (p - Len(ring))
      <4> SUFFICES ASSUME NEW p \in Len(ring) + 1 .. Len(ring')
                   PROVE  /\ p \in TaAt(ring')
                          /\ ring'[p].n = n - Len(buf) + (p - Len(ring))
        BY Zenon
      <4>1. /\ p \in 1..Len(ring') /\ p - Len(ring) \in 1..Len(b)
            /\ ring'[p] = b[p - Len(ring)]
        BY Zenon, <2>5
      <4>2. b[p - Len(ring)].who = "ta" /\ b[p - Len(ring)].n = n' - Len(b) + (p - Len(ring))
        BY Zenon, <1>5, <4>1
      <4>3. n' - Len(b) + (p - Len(ring)) = n - Len(buf) + (p - Len(ring))
        BY <1>1, <1>2, <1>4
      <4> QED
        BY Zenon, <4>1, <4>2, <4>3 DEF TaAt
    <3>5. \A p \in TaAt(ring') : p \in TaAt(ring) \/ p \in Len(ring) + 1 .. Len(ring')
      BY <1>1, <2>3, <2>4 DEF TaAt
    <3>6. \A i \in 1 .. n' : \E p \in TaAt(ring') : ring'[p].n = i
      <4> SUFFICES ASSUME NEW i \in 1 .. n' PROVE \E p \in TaAt(ring') : ring'[p].n = i
        BY Zenon
      <4>1. CASE i \in 1 .. n - Len(buf)
        BY Zenon, <3>2, <3>3, <4>1
      <4>2. CASE i \in n - Len(buf) + 1 .. n'
        <5> DEFINE p == Len(ring) + (i - (n - Len(buf)))
        <5>1. p \in Len(ring) + 1 .. Len(ring') /\ n - Len(buf) + (p - Len(ring)) = i
          BY <1>1, <1>2, <1>4, <3>1, <4>2
        <5> HIDE DEF p
        <5> QED
          BY Zenon, <3>4, <5>1
      <4> QED
        BY <1>1, <1>2, <4>1, <4>2
    <3>7. \A p \in TaAt(ring') : ring'[p].n \in 1 .. n'
      <4> SUFFICES ASSUME NEW p \in TaAt(ring') PROVE ring'[p].n \in 1 .. n'
        BY Zenon
      <4>1. CASE p \in TaAt(ring)
        <5>1. ring'[p].n \in 1 .. n - Len(buf)
          BY Zenon, <3>2, <3>3, <4>1
        <5> QED
          BY <1>1, <1>2, <5>1
      <4>2. CASE p \in Len(ring) + 1 .. Len(ring')
        <5>1. ring'[p].n = n - Len(buf) + (p - Len(ring))
          BY Zenon, <3>4, <4>2
        <5> QED
          BY <1>1, <1>2, <1>4, <3>1, <4>2, <5>1
      <4> QED
        BY Zenon, <3>5, <4>1, <4>2
    <3>8. \A p, q \in TaAt(ring') : p < q => ring'[p].n < ring'[q].n
      <4> SUFFICES ASSUME NEW p \in TaAt(ring'), NEW q \in TaAt(ring'), p < q
                   PROVE  ring'[p].n < ring'[q].n
        BY Zenon
      <4>1. p \in Nat /\ q \in Nat /\ (\A r \in TaAt(ring) : r \in 1..Len(ring))
        BY DEF TaAt
      <4>2. CASE p \in TaAt(ring) /\ q \in TaAt(ring)
        BY Zenon, <3>2, <3>3, <4>2
      <4>3. CASE p \in TaAt(ring) /\ q \in Len(ring) + 1 .. Len(ring')
        <5>1. ring'[p].n \in 1 .. n - Len(buf) /\ ring'[q].n = n - Len(buf) + (q - Len(ring))
          BY Zenon, <3>2, <3>3, <3>4, <4>3
        <5> QED
          BY <1>1, <2>3, <4>3, <5>1
      <4>4. CASE p \in Len(ring) + 1 .. Len(ring') /\ q \in Len(ring) + 1 .. Len(ring')
        <5>1. /\ ring'[p].n = n - Len(buf) + (p - Len(ring))
              /\ ring'[q].n = n - Len(buf) + (q - Len(ring))
          BY Zenon, <3>4, <4>4
        <5> QED
          BY <1>1, <2>3, <4>4, <5>1
      <4> QED
        BY <1>1, <2>3, <3>5, <4>1, <4>2, <4>3, <4>4
    <3> QED
      BY Zenon, <3>6, <3>7, <3>8
  <2>9. LinesUnbroken'
    <3> SUFFICES ASSUME NEW i \in 2..Len(ring'), ring'[i].who = "os", ring'[i - 1].who = "ta",
                        ring'[i - 1].kind # "nl"
                 PROVE  Long(ring', i - 1)
      BY <1>1, <2>3 DEF LinesUnbroken, Long
    <3>0. i \notin Len(ring) + 1 .. Len(ring')
      BY Zenon, <1>5, <2>5
    <3>1. i \in 2..Len(ring) /\ ring'[i] = ring[i] /\ ring'[i - 1] = ring[i - 1]
      BY <1>1, <2>3, <2>4, <3>0
    <3>2. /\ i - 1 > outputLimit
          /\ \A j \in (i - 1) - outputLimit .. i - 1 : ring[j].who = "ta" /\ ring[j].kind # "nl"
      BY <1>1, <3>1 DEF IInv, LinesUnbroken
    <3>3. \A j \in (i - 1) - outputLimit .. i - 1 : j \in 1..Len(ring)
      BY <1>1, <3>1, <3>2
    <3> QED
      BY Zenon, <2>4, <3>2, <3>3 DEF Long
  <2>10. EndsLong'
    <3> SUFFICES ASSUME 0 < Len(ring'), Len(ring') < maxLogSize,
                        ring'[Len(ring')].who = "ta", ring'[Len(ring')].kind # "nl"
                 PROVE  Long(ring', Len(ring'))
      BY Zenon DEF EndsLong, Long
    <3>1. CASE ~debug
      <4>1. ring' = ring
        BY Zenon, <2>2, <3>1
      <4> QED
        BY Zenon, <4>1 DEF IInv, EndsLong, Long
    <3>2. CASE debug
      <4>1. Len(ring') = Len(ring) + Len(b)
        BY Zenon, <2>2, <3>2
      <4>2. Len(ring') \in Len(ring) + 1 .. Len(ring') /\ Len(ring') - Len(ring) = Len(b)
        BY <1>1, <1>4, <2>3, <4>1
      <4>3. b[Len(b)].kind # "nl"
        BY Zenon, <2>5, <4>2
      <4>4. Len(b) = outputLimit + 1
        BY <1>1, <1>4, <1>10, <4>3 DEF Flushes
      <4>5. \A p \in 1..Len(b) : b[p].who = "ta" /\ b[p].kind # "nl"
        BY <1>1, <1>4, <1>5, <1>6, <4>3
      <4>6. /\ Len(ring') > outputLimit
            /\ \A j \in Len(ring') - outputLimit .. Len(ring') : j \in Len(ring) + 1 .. Len(ring')
        BY <1>1, <2>3, <4>1, <4>4
      <4> QED
        BY Zenon, <2>5, <4>5, <4>6 DEF Long
    <3> QED
      BY Zenon, <1>1, <3>1, <3>2
  <2> QED
    BY Zenon, <1>8, <2>6, <2>7, <2>8, <2>9, <2>10 DEF IInv
<1> QED
  BY Zenon, <1>9, <1>10

-----------------------------------------------------------------------------
\* Byte i of the crash log is in one place of one block.
LEMMA Place ==
  ASSUME NEW i \in 1..maxLogSize,
         NEW q, q = (i - 1) \div blockSize, NEW r, r = (i - 1) % blockSize
  PROVE  q \in Block /\ r \in 0 .. blockSize - 1 /\ q * blockSize + r = i - 1
<1>1. i - 1 \in Nat /\ i - 1 < maxLogSize /\ maxLogSize = crashLogNumBlocks * blockSize
  BY SizeType DEF maxLogSize
<1>2. q \in Nat /\ r \in 0 .. blockSize - 1 /\ q * blockSize + r = i - 1
  BY <1>1, SizeType
<1>3. q < crashLogNumBlocks
  <2>1. q * blockSize < crashLogNumBlocks * blockSize
    BY <1>1, <1>2, SizeType
  <2> QED
    BY <1>2, <2>1, SizeType
<1> QED
  BY <1>2, <1>3, SizeType DEF Block

\* A block's part of a log of full size.
LEMMA BlockPart ==
  ASSUME NEW l \in Seq(Item), Len(l) = maxLogSize, NEW b \in Block
  PROVE  LET part == SubSeq(l, b * blockSize + 1, (b + 1) * blockSize)
         IN  /\ part \in [1..blockSize -> Item]
             /\ \A j \in 1..blockSize : part[j] = l[b * blockSize + j]
<1> DEFINE first == b * blockSize + 1
           last == (b + 1) * blockSize
           part == SubSeq(l, first, last)
<1>1. /\ first \in Nat \ {0} /\ last \in Nat /\ last - first + 1 = blockSize
      /\ last <= maxLogSize
  <2>1. b \in Nat /\ b + 1 <= crashLogNumBlocks
    BY SizeType DEF Block
  <2>2. (b + 1) * blockSize <= crashLogNumBlocks * blockSize
    BY <2>1, SizeType
  <2> QED
    BY <2>1, <2>2, SizeType DEF maxLogSize
<1>2. \A j \in first .. last : l[j] \in Item
  BY <1>1, SizeType, ElementOfSeq
<1>3. \A j \in 1..blockSize : first + j - 1 = b * blockSize + j
  BY SizeType DEF Block
<1> HIDE DEF first, last
<1>4. /\ part \in Seq(Item) /\ Len(part) = blockSize
      /\ \A j \in 1..blockSize : part[j] = l[first + j - 1]
  BY <1>1, <1>2, SizeType, SubSeqProperties
<1>5. part \in [1..blockSize -> Item]
  BY Zenon, <1>4, LenProperties
<1>6. \A j \in 1..blockSize : part[j] = l[b * blockSize + j]
  BY Zenon, <1>3, <1>4
<1> QED
  BY Zenon, <1>5, <1>6 DEF first, last

\* A log cut or padded has the size of the crash log.
LEMMA SizedLog ==
  ASSUME NEW l \in Seq(Item), Len(l) <= maxLogSize
  PROVE  /\ Sized(l) \in Seq(Item) /\ Len(Sized(l)) = maxLogSize
         /\ \A i \in 1..maxLogSize : Sized(l)[i] = IF i <= Len(l) THEN l[i] ELSE Zero
<1> DEFINE k == maxLogSize - Len(l)
<1>1. k \in Nat /\ Len(l) \in Nat /\ maxLogSize \in Nat
  BY SizeType
<1>2. Sized(l) = l \o Zeroes(k)
  BY <1>1 DEF Sized
<1> HIDE DEF k
<1>3. /\ Zeroes(k) \in Seq(Item) /\ Len(Zeroes(k)) = k
      /\ \A i \in 1..k : Zeroes(k)[i] = Zero
  BY <1>1, ItemType DEF Zeroes
<1>4. /\ l \o Zeroes(k) \in Seq(Item) /\ Len(l \o Zeroes(k)) = Len(l) + k
      /\ \A i \in 1 .. Len(l) + k : (l \o Zeroes(k))[i] =
            IF i <= Len(l) THEN l[i] ELSE Zeroes(k)[i - Len(l)]
  BY <1>3, ConcatProperties
<1>5. Len(l) + k = maxLogSize
  BY <1>1 DEF k
<1> QED
  BY <1>1, <1>2, <1>3, <1>4, <1>5

\* Writing the first k blocks leaves blocks on the card.
LEMMA BlocksType ==
  ASSUME TypeOK, NEW l \in Seq(Item), Len(l) = maxLogSize, NEW k
  PROVE  WriteBlocks(l, k) \in [Block -> [1..blockSize -> Item]]
  BY Zenon, BlockPart DEF WriteBlocks, TypeOK

\* After all blocks of a log have been written, it is what Read returns.
LEMMA ReadBack ==
  ASSUME NEW l \in Seq(Item), Len(l) = maxLogSize,
         mem' = WriteBlocks(l, crashLogNumBlocks)
  PROVE  Read' = l
<1>1. \A b \in Block : mem'[b] = SubSeq(l, b * blockSize + 1, (b + 1) * blockSize)
  BY SizeType DEF WriteBlocks, Block
<1>2. \A i \in 1..maxLogSize : mem'[(i - 1) \div blockSize][((i - 1) % blockSize) + 1] = l[i]
  <2> SUFFICES ASSUME NEW i \in 1..maxLogSize
               PROVE  mem'[(i - 1) \div blockSize][((i - 1) % blockSize) + 1] = l[i]
    BY Zenon
  <2>0. PICK q, r : q = (i - 1) \div blockSize /\ r = (i - 1) % blockSize
    BY Zenon
  <2>1. q \in Block /\ r \in 0 .. blockSize - 1 /\ q * blockSize + r = i - 1
    BY Zenon, <2>0, Place
  <2>2. r + 1 \in 1..blockSize /\ q * blockSize + (r + 1) = i
    BY <2>1, SizeType DEF Block
  <2>3. mem'[q][r + 1] = l[q * blockSize + (r + 1)]
    BY <1>1, <2>1, <2>2, BlockPart
  <2> QED
    BY Zenon, <2>0, <2>2, <2>3
<1>3. Read' = [i \in 1..maxLogSize |-> l[i]]
  BY Zenon, <1>2 DEF Read
<1>4. l = [i \in 1..maxLogSize |-> l[i]]
  BY Zenon, LenProperties
<1> QED
  BY Zenon, <1>3, <1>4

\* main stores the whole log, a part of it, or none.
LEMMA StoreStep ==
  ASSUME IInv, storeAppletCrashLog \/ StoreFails
  PROVE  IInv'
<1> DEFINE l == Sized(ring)
<1>1. /\ ring \in Seq(Item) /\ Len(ring) <= maxLogSize /\ TypeOK
      /\ l \in Seq(Item) /\ Len(l) = maxLogSize
  BY Zenon, SizedLog DEF IInv, TypeOK
<1>2. ring' = printk(<<OSLine>>) /\ up' = TRUE /\ UNCHANGED <<debug, buf, n>>
  BY Zenon DEF storeAppletCrashLog, StoreFails
<1>3. /\ ring' \in Seq(Item) /\ Len(ring') <= maxLogSize
      /\ Held' /\ Flushed' /\ LinesUnbroken' /\ EndsLong'
  BY Zenon, <1>2, PrintLine
<1>4. CASE storeAppletCrashLog
  <2>1. mem' = WriteBlocks(l, crashLogNumBlocks) /\ stored' = {ring}
    BY Zenon, <1>4 DEF storeAppletCrashLog, getConsoleLogs
  <2> HIDE DEF l
  <2>2. mem' \in [Block -> [1..blockSize -> Item]]
    BY Zenon, <1>1, <2>1, BlocksType
  <2>3. TypeOK'
    BY Zenon, <1>1, <1>2, <1>3, <2>1, <2>2 DEF TypeOK
  <2>4. Read' = l
    BY Zenon, <1>1, <2>1, ReadBack
  <2>5. OnCard'
    BY Zenon, <1>1, <2>1, <2>4 DEF OnCard, l, Sized
  <2> QED
    BY Zenon, <1>3, <2>3, <2>5 DEF IInv
<1>5. CASE StoreFails
  <2>1. PICK k \in 0 .. crashLogNumBlocks - 1 : mem' = WriteBlocks(l, k)
    BY Zenon, <1>5 DEF StoreFails, getConsoleLogs
  <2> HIDE DEF l
  <2>2. mem' \in [Block -> [1..blockSize -> Item]] /\ stored' = {}
    BY Zenon, <1>1, <1>5, <2>1, BlocksType DEF StoreFails
  <2>3. TypeOK'
    BY Zenon, <1>1, <1>2, <1>3, <2>2 DEF TypeOK
  <2> QED
    BY Zenon, <1>3, <2>2, <2>3 DEF IInv, OnCard
<1> QED
  BY Zenon, <1>4, <1>5

\* What the ring buffer and the line buffer hold after a boot.
LEMMA Fresh ==
  ASSUME debug \in BOOLEAN, buf' = << >>, n' = 0, debug' = debug, ring' = Booted
  PROVE  /\ ring' \in Seq(Item) /\ Len(ring') <= maxLogSize
         /\ Held' /\ Flushed' /\ LinesUnbroken' /\ EndsLong'
<1>1. Len(buf') = 0
  BY Zenon, EmptySeq
<1>2. CASE debug
  <2>1. ring' = <<OSLine>> /\ Len(ring') = 1 /\ ring'[1] = OSLine
    BY Zenon, <1>2 DEF Booted
  <2>2. TaAt(ring') = {}
    BY <2>1 DEF TaAt, OSLine
  <2> QED
    BY <1>1, <2>1, <2>2, ItemType, SizeType DEF Held, Flushed, LinesUnbroken, EndsLong, OSLine
<1>3. CASE ~debug
  <2>1. ring' = << >> /\ Len(ring') = 0
    BY Zenon, <1>3 DEF Booted
  <2> QED
    BY <1>1, <1>3, <2>1, SizeType DEF Held, Flushed, LinesUnbroken, EndsLong
<1> QED
  BY Zenon, <1>2, <1>3

\* A reset keeps the card, or tears the store that was under way.
LEMMA RebootStep ==
  ASSUME IInv, Reboot
  PROVE  IInv'
<1> DEFINE l == Sized(ring)
<1>1. /\ ring \in Seq(Item) /\ Len(ring) <= maxLogSize /\ TypeOK
      /\ l \in Seq(Item) /\ Len(l) = maxLogSize
  BY Zenon, SizedLog DEF IInv, TypeOK
<1>2. buf' = << >> /\ n' = 0 /\ debug' = debug /\ ring' = Booted /\ up' = TRUE
  BY Zenon DEF Reboot
<1>3. debug \in BOOLEAN
  BY Zenon, <1>1 DEF TypeOK
<1>4. /\ ring' \in Seq(Item) /\ Len(ring') <= maxLogSize
      /\ Held' /\ Flushed' /\ LinesUnbroken' /\ EndsLong'
  BY Zenon, <1>2, <1>3, Fresh
<1>5. /\ buf' \in Seq(Item) /\ Len(buf') <= outputLimit /\ n' \in 0..MaxBytes
  BY <1>2, SizeType
<1>6. CASE UNCHANGED <<mem, stored>>
  <2>1. TypeOK'
    BY Zenon, <1>1, <1>2, <1>4, <1>5, <1>6 DEF TypeOK
  <2>2. OnCard'
    BY Zenon, <1>6 DEF IInv, OnCard, Read, Sized
  <2> QED
    BY Zenon, <1>4, <2>1, <2>2 DEF IInv
<1>7. CASE \E k \in 0 .. crashLogNumBlocks - 1 : mem' = WriteBlocks(l, k) /\ stored' = {}
  <2> HIDE DEF l
  <2>1. mem' \in [Block -> [1..blockSize -> Item]] /\ stored' = {}
    BY Zenon, <1>1, <1>7, BlocksType
  <2>2. TypeOK'
    BY Zenon, <1>1, <1>2, <1>4, <1>5, <2>1 DEF TypeOK
  <2> QED
    BY Zenon, <1>4, <2>1, <2>2 DEF IInv, OnCard
<1> QED
  BY Zenon, <1>6, <1>7 DEF Reboot, getConsoleLogs

\* The first boot, with an empty card.
LEMMA InitInv == Init => IInv
<1> SUFFICES ASSUME Init PROVE IInv
  BY Zenon
<1>1. Len(buf) = 0 /\ buf \in Seq(Item) /\ n = 0 /\ stored = {} /\ debug \in BOOLEAN
  BY DEF Init
<1>2. mem \in [Block -> [1..blockSize -> Item]]
  BY Zenon, ItemType DEF Init
<1>3. CASE debug
  <2>1. ring = <<OSLine>> /\ Len(ring) = 1 /\ ring[1] = OSLine /\ ring \in Seq(Item)
    BY <1>3, ItemType DEF Init, Booted
  <2>2. TaAt(ring) = {}
    BY <2>1 DEF TaAt, OSLine
  <2>3. TypeOK
    BY <1>1, <1>2, <2>1, SizeType DEF TypeOK, Init
  <2>4. Held /\ Flushed /\ LinesUnbroken /\ EndsLong
    BY <1>1, <2>1, <2>2, SizeType DEF Held, Flushed, LinesUnbroken, EndsLong, OSLine
  <2> QED
    BY Zenon, <1>1, <2>3, <2>4 DEF IInv, OnCard
<1>4. CASE ~debug
  <2>1. ring = << >> /\ Len(ring) = 0 /\ ring \in Seq(Item)
    BY <1>4 DEF Init, Booted
  <2>2. TypeOK
    BY <1>1, <1>2, <2>1, SizeType DEF TypeOK, Init
  <2>3. Held /\ Flushed /\ LinesUnbroken /\ EndsLong
    BY <1>1, <1>4, <2>1, SizeType DEF Held, Flushed, LinesUnbroken, EndsLong
  <2> QED
    BY Zenon, <1>1, <2>2, <2>3 DEF IInv, OnCard
<1> QED
  BY Zenon, <1>1, <1>3, <1>4

\* The invariant holds in every reachable state.
LEMMA Invariance == Spec => []IInv
<1>1. IInv /\ [Next]_vars => IInv'
  <2> SUFFICES ASSUME IInv, [Next]_vars PROVE IInv'
    BY Zenon
  <2>1. CASE \E kind \in {"text", "nl", "nul"} : bufferedStdoutLog(kind)
    BY Zenon, <2>1, WriteStep
  <2>2. CASE OSLog
    <3>1. ring' = printk(<<OSLine>>) /\ UNCHANGED <<debug, buf, mem, up, n, stored>>
      BY Zenon, <2>2 DEF OSLog
    <3>2. /\ ring' \in Seq(Item) /\ Len(ring') <= maxLogSize
          /\ Held' /\ Flushed' /\ LinesUnbroken' /\ EndsLong'
      BY Zenon, <3>1, PrintLine
    <3>3. TypeOK'
      BY Zenon, <3>1, <3>2 DEF IInv, TypeOK
    <3>4. OnCard'
      BY Zenon, <3>1 DEF IInv, OnCard, Read, Sized
    <3> QED
      BY Zenon, <3>2, <3>3, <3>4 DEF IInv
  <2>3. CASE AppletExits \/ UNCHANGED vars
    <3>1. UNCHANGED <<debug, buf, ring, mem, n, stored>> /\ up' \in BOOLEAN
      BY Zenon, <2>3 DEF AppletExits, vars, IInv, TypeOK
    <3>2. TypeOK'
      BY Zenon, <3>1 DEF IInv, TypeOK
    <3>3. Held' /\ Flushed' /\ LinesUnbroken' /\ EndsLong'
      BY Zenon, <3>1 DEF IInv, Held, Flushed, LinesUnbroken, EndsLong, Long
    <3>4. OnCard'
      BY Zenon, <3>1 DEF IInv, OnCard, Read, Sized
    <3> QED
      BY Zenon, <3>2, <3>3, <3>4 DEF IInv
  <2>4. CASE storeAppletCrashLog \/ StoreFails
    BY Zenon, <2>4, StoreStep
  <2>5. CASE Reboot
    BY Zenon, <2>5, RebootStep
  <2> QED
    BY Zenon, <2>1, <2>2, <2>3, <2>4, <2>5 DEF Next
<1> QED
  BY <1>1, InitInv, PTL DEF Spec

\* Buffers and blocks keep their sizes: the line buffer its limit, the ring buffer
\* the size of the crash log.
THEOREM TypeCorrect == Spec => []TypeOK
  BY Invariance, PTL DEF IInv

\* bufferedStdoutLog neither loses nor repeats a byte of the applet, nor reorders
\* two, while the ring buffer has room.
THEOREM BytesKept == Spec => []EveryByteOnce
<1>1. IInv => EveryByteOnce
  <2> DEFINE all == ring \o buf
  <2> SUFFICES ASSUME IInv, debug, Len(ring) < maxLogSize
               PROVE  /\ {all[p].n : p \in TaAt(all)} = 1..n
                      /\ \A p, q \in TaAt(all) : p < q => all[p].n < all[q].n
    BY Zenon DEF EveryByteOnce
  <2>1. /\ ring \in Seq(Item) /\ buf \in Seq(Item) /\ Len(ring) \in Nat /\ Len(buf) \in Nat
        /\ n \in Nat /\ Len(buf) <= n
    BY DEF IInv, TypeOK, Held
  <2>2. /\ Len(all) = Len(ring) + Len(buf)
        /\ \A i \in 1 .. Len(ring) + Len(buf) :
             all[i] = IF i <= Len(ring) THEN ring[i] ELSE buf[i - Len(ring)]
    BY Zenon, <2>1, ConcatProperties
  <2> HIDE DEF all
  <2>3. \A p \in TaAt(ring) : p \in TaAt(all) /\ p <= Len(ring) /\ all[p].n = ring[p].n
    BY <2>1, <2>2 DEF TaAt
  <2>4. \A p \in Len(ring) + 1 .. Len(ring) + Len(buf) :
          p \in TaAt(all) /\ all[p].n = n - Len(buf) + (p - Len(ring))
    <3> SUFFICES ASSUME NEW p \in Len(ring) + 1 .. Len(ring) + Len(buf)
                 PROVE  p \in TaAt(all) /\ all[p].n = n - Len(buf) + (p - Len(ring))
      BY Zenon
    <3>1. p - Len(ring) \in 1..Len(buf) /\ p \in 1..Len(all) /\ all[p] = buf[p - Len(ring)]
      BY <2>1, <2>2
    <3> QED
      BY Zenon, <3>1 DEF TaAt, IInv, Held
  <2>5. \A p \in TaAt(all) :
          p \in Nat /\ (p \in TaAt(ring) \/ p \in Len(ring) + 1 .. Len(ring) + Len(buf))
    BY <2>1, <2>2 DEF TaAt
  <2>6. /\ \A i \in 1 .. n - Len(buf) : \E p \in TaAt(ring) : ring[p].n = i
        /\ \A p \in TaAt(ring) : ring[p].n \in 1 .. n - Len(buf)
        /\ \A p, q \in TaAt(ring) : p < q => ring[p].n < ring[q].n
    BY Zenon DEF IInv, Flushed
  <2>7. \A p \in TaAt(all) : all[p].n \in 1..n
    <3> SUFFICES ASSUME NEW p \in TaAt(all) PROVE all[p].n \in 1..n
      BY Zenon
    <3>1. CASE p \in TaAt(ring)
      <4>1. all[p].n \in 1 .. n - Len(buf)
        BY Zenon, <2>3, <2>6, <3>1
      <4> QED
        BY <2>1, <4>1
    <3>2. CASE p \in Len(ring) + 1 .. Len(ring) + Len(buf)
      <4>1. all[p].n = n - Len(buf) + (p - Len(ring))
        BY Zenon, <2>4, <3>2
      <4> QED
        BY <2>1, <3>2, <4>1
    <3> QED
      BY Zenon, <2>5, <3>1, <3>2
  <2>8. \A i \in 1..n : \E p \in TaAt(all) : all[p].n = i
    <3> SUFFICES ASSUME NEW i \in 1..n PROVE \E p \in TaAt(all) : all[p].n = i
      BY Zenon
    <3>1. CASE i \in 1 .. n - Len(buf)
      BY Zenon, <2>3, <2>6, <3>1
    <3>2. CASE i \in n - Len(buf) + 1 .. n
      <4> DEFINE p == Len(ring) + (i - (n - Len(buf)))
      <4>1. /\ p \in Len(ring) + 1 .. Len(ring) + Len(buf)
            /\ n - Len(buf) + (p - Len(ring)) = i
        BY <2>1, <3>2
      <4> HIDE DEF p
      <4> QED
        BY Zenon, <2>4, <4>1
    <3> QED
      BY <2>1, <3>1, <3>2
  <2>9. \A p, q \in TaAt(all) : p < q => all[p].n < all[q].n
    <3> SUFFICES ASSUME NEW p \in TaAt(all), NEW q \in TaAt(all), p < q
                 PROVE  all[p].n < all[q].n
      BY Zenon
    <3>1. CASE p \in TaAt(ring) /\ q \in TaAt(ring)
      BY Zenon, <2>3, <2>6, <3>1
    <3>2. CASE p \in TaAt(ring) /\ q \in Len(ring) + 1 .. Len(ring) + Len(buf)
      <4>1. all[p].n \in 1 .. n - Len(buf) /\ all[q].n = n - Len(buf) + (q - Len(ring))
        BY Zenon, <2>3, <2>4, <2>6, <3>2
      <4> QED
        BY <2>1, <3>2, <4>1
    <3>3. CASE /\ p \in Len(ring) + 1 .. Len(ring) + Len(buf)
               /\ q \in Len(ring) + 1 .. Len(ring) + Len(buf)
      <4>1. /\ all[p].n = n - Len(buf) + (p - Len(ring))
            /\ all[q].n = n - Len(buf) + (q - Len(ring))
        BY Zenon, <2>4, <3>3
      <4> QED
        BY <2>1, <3>3, <4>1
    <3>4. q \in TaAt(ring) => p \in TaAt(ring)
      BY <2>1, <2>3, <2>5
    <3> QED
      BY Zenon, <2>5, <3>1, <3>2, <3>3, <3>4
  <2>10. {all[p].n : p \in TaAt(all)} = 1..n
    BY Zenon, <2>7, <2>8
  <2> QED
    BY Zenon, <2>9, <2>10
<1> QED
  BY <1>1, Invariance, PTL

\* No message of the OS lands inside a line of the applet, whatever the limit.
THEOREM LinesWhole == Spec => []LinesUnbroken
  BY Invariance, PTL DEF IInv

\* The last log stored in full comes back as it was, for any size of blocks and
\* log, whatever was stored before it and however often the device is reset.
THEOREM CrashLogKept == Spec => []CrashLogReturned
<1>1. IInv => CrashLogReturned
  <2> SUFFICES ASSUME IInv, NEW l \in stored, Nul(l) = {}
               PROVE  retrieveLastCrashLog = IF l = << >> THEN Zeroes(maxLogSize) ELSE l
    BY Zenon DEF CrashLogReturned
  <2> DEFINE r == Read
             first == CHOOSE i \in Nul(r) : \A j \in Nul(r) : i <= j
  <2>1. l \in Seq(Item) /\ Len(l) \in Nat /\ Len(l) <= maxLogSize /\ r = Sized(l)
    BY DEF IInv, OnCard
  <2>2. maxLogSize \in Nat \ {0}
    BY Zenon, SizeType
  <2>3. /\ r \in Seq(Item) /\ Len(r) = maxLogSize
        /\ \A i \in 1..maxLogSize : r[i] = IF i <= Len(l) THEN l[i] ELSE Zero
    BY Zenon, <2>1, SizedLog
  <2>4. retrieveLastCrashLog =
          IF Nul(r) # {} /\ CutsAt(first) THEN SubSeq(r, 1, first - 1) ELSE r
    BY Zenon DEF retrieveLastCrashLog
  <2> HIDE DEF r
  <2>5. Nul(r) = Len(l) + 1 .. maxLogSize
    BY <2>1, <2>2, <2>3 DEF Nul, Zero
  <2>6. CASE Len(l) = maxLogSize
    <3>1. Nul(r) = {}
      BY <2>2, <2>5, <2>6
    <3>2. r = l
      BY <2>1, <2>2, <2>3, <2>6, SeqEqual
    <3>3. l # << >>
      BY Zenon, <2>2, <2>6
    <3> QED
      BY Zenon, <2>4, <3>1, <3>2, <3>3
  <2>7. CASE Len(l) < maxLogSize
    <3>1. Len(l) + 1 \in Nul(r) /\ \A j \in Nul(r) : Len(l) + 1 <= j
      BY <2>1, <2>2, <2>5, <2>7
    <3>2. first \in Nul(r) /\ \A j \in Nul(r) : first <= j
      BY Zenon, <3>1
    <3> HIDE DEF first
    <3>3. first = Len(l) + 1 /\ Nul(r) # {}
      BY <2>1, <2>2, <2>5, <2>7, <3>2
    <3>4. CASE l = << >>
      <4>1. ~CutsAt(first) /\ Len(l) = 0
        BY <3>3, <3>4 DEF CutsAt
      <4>2. r = [i \in 1..maxLogSize |-> r[i]]
        BY Zenon, <2>3, LenProperties
      <4>3. \A i \in 1..maxLogSize : r[i] = Zero
        BY <2>3, <4>1
      <4>4. r = Zeroes(maxLogSize)
        BY Zenon, <4>2, <4>3 DEF Zeroes
      <4> QED
        BY Zenon, <2>4, <3>4, <4>1, <4>4
    <3>5. CASE l # << >>
      <4>1. Len(l) > 0 /\ first - 1 = Len(l) /\ CutsAt(first)
        BY <2>1, <3>3, <3>5, EmptySeq DEF CutsAt
      <4>2. \A i \in 1..Len(l) : r[i] = l[i] /\ r[i] \in Item
        BY <2>1, <2>2, <2>3, ElementOfSeq
      <4>3. /\ SubSeq(r, 1, Len(l)) \in Seq(Item) /\ Len(SubSeq(r, 1, Len(l))) = Len(l)
            /\ \A i \in 1..Len(l) : SubSeq(r, 1, Len(l))[i] = r[i]
        BY <2>1, <4>1, <4>2, SubSeqProperties
      <4>4. SubSeq(r, 1, Len(l)) = l
        BY Zenon, <2>1, <4>2, <4>3, SeqEqual
      <4> QED
        BY Zenon, <2>4, <3>3, <3>5, <4>1, <4>4
    <3> QED
      BY Zenon, <3>4, <3>5
  <2> QED
    BY <2>1, <2>2, <2>6, <2>7
<1> QED
  BY <1>1, Invariance, PTL

=============================================================================
