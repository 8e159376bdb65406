-------------------------- MODULE WitnessCtlProofs --------------------------
(***************************************************************************)
(* The operator's tool for any number of devices, which come and go at any *)
(* time, and logs and responses of any size.                               *)
(***************************************************************************)
EXTENDS WitnessCtl, SequenceTheorems, FiniteSetTheorems, TLAPS

(***************************************************************************)
(* The inductive invariant.  A run has changed nothing before its one      *)
(* command, and what that command goes to was settled by detect, or asked  *)
(* for its status, steps before (Settled).  A device holds the rest of     *)
(* one stream (Buffered), and while a fetch from a live device is under    *)
(* way that stream begins with what the tool has got (Fetching).           *)
(***************************************************************************)
Settled ==
  /\ pc \notin Ended => changed = {}
  /\ pc = "detect" => asked = 0 /\ log = << >>
  /\ pc \in {"status", "confirm", "hab"} => cmd = "hab"
  /\ pc \in {"confirm", "hab"} => devs[1] \in shown \cup garbled
  /\ pc \in {"status", "confirm", "hab", "cfg"} /\ path \in found => devs[1] = path
  /\ pc = "cfg" => cmd = "cfg" /\ (path \in found \/ found = {devs[1]})

\* Unit i, and units a + 1 to b, of the stream of n units of snapshot k of device d
UnitAt(d, k, n, i) == [dev |-> d, snap |-> k, at |-> i, of |-> n]
Units(d, k, n, a, b) == [i \in 1 .. b - a |-> UnitAt(d, k, n, a + i)]

Buffered == \A d \in Device : \E k \in 0..1, n \in 1..MaxLen : \E a \in 0..n :
              logBuffer[d] = Units(d, k, n, a, n)

Fetching ==
  /\ continue => pc = "each" /\ cmd = "logs" /\ asked < Len(devs)
  /\ ~continue => got = << >>
  /\ continue /\ current \in open => \E k \in 0..1, n \in 1..MaxLen : \E a \in 1 .. n - 1 :
       /\ got = Units(current, k, n, 0, a)
       /\ logBuffer[current] = Units(current, k, n, a, n)

Printed == log # << >> =>
  /\ cmd = "logs" /\ asked \in 1..Len(devs)
  /\ \E k \in 0..1, n \in 1..MaxLen : log = Units(devs[asked], k, n, 0, n)

IInv == /\ TypeOK /\ Settled /\ Buffered /\ Fetching /\ Printed
        /\ ActsOnNamedIfFound /\ FusedAsShown
-----------------------------------------------------------------------------
\* Units of a stream are a sequence of units.
LEMMA UnitsType ==
  ASSUME NEW d \in Device, NEW k \in 0..1, NEW n \in 1..MaxLen, NEW b \in 0..n, NEW a \in 0..b
  PROVE  /\ Units(d, k, n, a, b) \in Seq(Unit) /\ Len(Units(d, k, n, a, b)) = b - a
         /\ \A i \in 1 .. b - a :
              Units(d, k, n, a, b)[i] = UnitAt(d, k, n, a + i)
<1>1. MaxLen \in Nat /\ n \in Nat /\ a \in Nat /\ b \in Nat /\ b - a \in Nat
  BY ConstantAssumption
<1>2. \A i \in 1 .. b - a : UnitAt(d, k, n, a + i) \in Unit
  <2> SUFFICES ASSUME NEW i \in 1 .. b - a
               PROVE  UnitAt(d, k, n, a + i) \in Unit
    BY Zenon
  <2>1. a + i \in 1..MaxLen
    BY <1>1
  <2> QED
    BY Zenon, <2>1 DEF Unit, UnitAt
<1> QED
  BY <1>1, <1>2 DEF Units

\* Consecutive parts of a stream make up a larger part.
LEMMA UnitsConcat ==
  ASSUME NEW d \in Device, NEW k \in 0..1, NEW n \in 1..MaxLen, NEW b \in 0..n, NEW a \in 0..b
  PROVE  Units(d, k, n, 0, a) \o Units(d, k, n, a, b) = Units(d, k, n, 0, b)
<1> DEFINE s == Units(d, k, n, 0, a)
           t == Units(d, k, n, a, b)
           u == Units(d, k, n, 0, b)
<1>1. a \in Nat /\ b \in Nat /\ n \in Nat /\ a \in 0..n /\ 0 \in 0..a /\ 0 \in 0..b
  BY ConstantAssumption
<1>2. /\ s \in Seq(Unit) /\ Len(s) = a
      /\ \A i \in 1..a : s[i] = UnitAt(d, k, n, i)
  <2>1. /\ s \in Seq(Unit) /\ Len(s) = a - 0
        /\ \A i \in 1 .. a - 0 : s[i] = UnitAt(d, k, n, 0 + i)
    BY Zenon, <1>1, UnitsType
  <2> HIDE DEF s
  <2> QED
    BY <1>1, <2>1
<1>3. /\ t \in Seq(Unit) /\ Len(t) = b - a
      /\ \A i \in 1 .. b - a : t[i] = UnitAt(d, k, n, a + i)
  BY Zenon, UnitsType
<1>4. /\ u \in Seq(Unit) /\ Len(u) = b
      /\ \A i \in 1..b : u[i] = UnitAt(d, k, n, i)
  <2>1. /\ u \in Seq(Unit) /\ Len(u) = b - 0
        /\ \A i \in 1 .. b - 0 : u[i] = UnitAt(d, k, n, 0 + i)
    BY Zenon, <1>1, UnitsType
  <2> HIDE DEF u
  <2> QED
    BY <1>1, <2>1
<1> HIDE DEF s, t, u
<1> DEFINE st == s \o t
<1>5. /\ st \in Seq(Unit) /\ Len(st) = b
      /\ \A i \in 1..b : st[i] = IF i <= a THEN s[i] ELSE t[i - a]
  <2>1. /\ st \in Seq(Unit) /\ Len(st) = Len(s) + Len(t)
        /\ \A i \in 1 .. Len(s) + Len(t) : st[i] = IF i <= Len(s) THEN s[i] ELSE t[i - Len(s)]
    BY Zenon, <1>2, <1>3, ConcatProperties
  <2>2. Len(s) = a /\ Len(s) + Len(t) = b
    BY <1>1, <1>2, <1>3
  <2> HIDE DEF st
  <2> QED
    BY Zenon, <2>1, <2>2
<1> HIDE DEF st
<1>6. \A i \in 1..b : st[i] = u[i]
  <2> SUFFICES ASSUME NEW i \in 1..b PROVE st[i] = u[i]
    BY Zenon
  <2>1. CASE i <= a
    BY <1>1, <1>2, <1>4, <1>5, <2>1
  <2>2. CASE i > a
    <3>1. i - a \in 1 .. b - a /\ a + (i - a) = i
      BY <1>1, <2>2
    <3>2. st[i] = t[i - a]
      BY <1>1, <1>5, <2>2
    <3>3. t[i - a] = UnitAt(d, k, n, a + (i - a))
      BY Zenon, <1>3, <3>1
    <3> QED
      BY Zenon, <1>4, <3>1, <3>2, <3>3
  <2> QED
    BY <1>1, <2>1, <2>2
<1> QED
  BY Zenon, <1>4, <1>5, <1>6, SeqEqual DEF s, t, u, st

\* A response takes a chunk off the front, and leaves the rest of the same stream.
LEMMA Chunk ==
  ASSUME NEW d \in Device, NEW k \in 0..1, NEW n \in 1..MaxLen, NEW a \in 0..n,
         NEW buffer, buffer = Units(d, k, n, a, n)
  PROVE  /\ More(buffer) => /\ a + logChunk \in 1 .. n - 1
                            /\ Payload(buffer) = Units(d, k, n, a, a + logChunk)
                            /\ Rest(buffer) = Units(d, k, n, a + logChunk, n)
         /\ ~More(buffer) => Payload(buffer) = buffer /\ Rest(buffer) = Units(d, k, n, n, n)
<1>1. a \in Nat /\ n \in Nat /\ n \in 0..n /\ logChunk \in Nat \ {0}
  BY ConstantAssumption
<1>2. /\ buffer \in Seq(Unit) /\ Len(buffer) = n - a
      /\ \A i \in 1 .. n - a : buffer[i] = UnitAt(d, k, n, a + i)
  <2> DEFINE u == Units(d, k, n, a, n)
  <2>1. /\ u \in Seq(Unit) /\ Len(u) = n - a
        /\ \A i \in 1 .. n - a : u[i] = UnitAt(d, k, n, a + i)
    BY Zenon, <1>1, UnitsType
  <2>2. buffer = u
    OBVIOUS
  <2> HIDE DEF u
  <2> QED
    BY Zenon, <2>1, <2>2
<1>3. ASSUME More(buffer)
      PROVE  /\ a + logChunk \in 1 .. n - 1
             /\ Payload(buffer) = Units(d, k, n, a, a + logChunk)
             /\ Rest(buffer) = Units(d, k, n, a + logChunk, n)
  <2> DEFINE m == a + logChunk
             s == SubSeq(buffer, 1, logChunk)
             t == SubSeq(buffer, logChunk + 1, n - a)
  <2>1. /\ m \in 1 .. n - 1 /\ m \in 0..n /\ a \in 0..m /\ logChunk < n - a
        /\ m - a = logChunk /\ n - m = (n - a) - (logChunk + 1) + 1
    BY <1>1, <1>2, <1>3 DEF More
  <2>2. \A i \in 1 .. n - a : buffer[i] \in Unit
    BY Zenon, <1>2, ElementOfSeq
  <2>3. /\ s \in Seq(Unit) /\ Len(s) = m - a /\ \A i \in 1 .. m - a : s[i] = buffer[i]
    <3>1. \A i \in 1..logChunk : buffer[i] \in Unit
      BY <1>1, <2>1, <2>2
    <3>2. /\ s \in Seq(Unit) /\ Len(s) = logChunk
          /\ \A i \in 1 .. logChunk - 1 + 1 : s[i] = buffer[1 + i - 1]
      BY <1>1, <3>1, SubSeqProperties
    <3> HIDE DEF s
    <3> QED
      BY <1>1, <2>1, <3>2
  <2>4. /\ t \in Seq(Unit) /\ Len(t) = n - m
        /\ \A i \in 1 .. n - m : t[i] = buffer[logChunk + i]
    <3>1. \A i \in logChunk + 1 .. n - a : buffer[i] \in Unit
      BY <1>1, <2>2
    <3>2. /\ t \in Seq(Unit) /\ Len(t) = (n - a) - (logChunk + 1) + 1
          /\ \A i \in 1 .. (n - a) - (logChunk + 1) + 1 : t[i] = buffer[logChunk + 1 + i - 1]
      BY <1>1, <2>1, <3>1, SubSeqProperties
    <3> HIDE DEF t
    <3> QED
      BY <1>1, <2>1, <3>2
  <2>5. Payload(buffer) = s /\ Rest(buffer) = t
    BY Zenon, <1>2, <1>3 DEF Payload, Rest
  <2> HIDE DEF m, s, t
  <2>6. /\ Units(d, k, n, a, m) \in Seq(Unit) /\ Len(Units(d, k, n, a, m)) = m - a
        /\ \A i \in 1 .. m - a :
             Units(d, k, n, a, m)[i] = UnitAt(d, k, n, a + i)
    BY Zenon, <2>1, UnitsType
  <2>7. /\ Units(d, k, n, m, n) \in Seq(Unit) /\ Len(Units(d, k, n, m, n)) = n - m
        /\ \A i \in 1 .. n - m :
             Units(d, k, n, m, n)[i] = UnitAt(d, k, n, m + i)
    <3>1. n \in 0..n /\ m \in 0..n
      BY Zenon, <1>1, <2>1
    <3> QED
      BY Zenon, <3>1, UnitsType
  <2>8. \A i \in 1 .. m - a : s[i] = Units(d, k, n, a, m)[i]
    <3>1. \A i \in 1 .. m - a : i \in 1 .. n - a
      BY <1>1, <2>1
    <3> QED
      BY Zenon, <1>2, <2>3, <2>6, <3>1
  <2>9. \A i \in 1 .. n - m : t[i] = Units(d, k, n, m, n)[i]
    <3>1. \A i \in 1 .. n - m : logChunk + i \in 1 .. n - a /\ a + (logChunk + i) = m + i
      BY <1>1, <2>1
    <3> QED
      BY Zenon, <1>2, <2>4, <2>7, <3>1
  <2>10. s = Units(d, k, n, a, m)
    BY Zenon, <2>3, <2>6, <2>8, SeqEqual
  <2>11. t = Units(d, k, n, m, n)
    BY Zenon, <2>4, <2>7, <2>9, SeqEqual
  <2> QED
    BY Zenon, <2>1, <2>5, <2>10, <2>11 DEF m
<1>4. ASSUME ~More(buffer)
      PROVE  Payload(buffer) = buffer /\ Rest(buffer) = Units(d, k, n, n, n)
  <2>1. Units(d, k, n, n, n) = << >>
    <3>1. Units(d, k, n, n, n) \in Seq(Unit) /\ Len(Units(d, k, n, n, n)) = n - n
      BY Zenon, <1>1, UnitsType
    <3> QED
      BY <1>1, <3>1, EmptySeq
  <2> QED
    BY Zenon, <1>4, <2>1 DEF Payload, Rest
<1> QED
  BY Zenon, <1>3, <1>4
-----------------------------------------------------------------------------
\* A step that leaves the devices' buffers, the fetch and its devices alone
LEMMA SameFetch ==
  ASSUME IInv, UNCHANGED <<cmd, devs, asked, fetch>>, open' \subseteq open,
         continue => pc' = "each"
  PROVE  Buffered' /\ Fetching' /\ Printed'
  BY Zenon DEF IInv, Buffered, Fetching, Printed, fetch, current

\* Devices come and go; one that is unplugged loses its buffer and its handle.
LEMMA PlugStep ==
  ASSUME IInv, NEW e \in Device, Plug(e) \/ Unplug(e)
  PROVE  IInv'
<1>1. CASE Plug(e)
  <2>1. UNCHANGED <<open, pc, cmd, path, found, devs, asked, shown, garbled, changed, fetch>>
    BY Zenon, <1>1 DEF Plug, run
  <2>2. Buffered' /\ Fetching' /\ Printed'
    BY Zenon, <2>1, SameFetch DEF IInv, Fetching
  <2>3. TypeOK'
    BY Zenon, <1>1, <2>1 DEF Plug, IInv, TypeOK, fetch
  <2>4. Settled' /\ ActsOnNamedIfFound' /\ FusedAsShown'
    BY Zenon, <2>1 DEF IInv, Settled, fetch, ActsOnNamedIfFound, FusedAsShown
  <2> QED
    BY Zenon, <2>2, <2>3, <2>4 DEF IInv
<1>2. CASE Unplug(e)
  <2>1. /\ UNCHANGED <<pc, cmd, path, found, devs, asked, shown, garbled, changed, continue, got, log>>
        /\ plugged' = plugged \ {e} /\ open' = open \ {e}
        /\ logBuffer' = [logBuffer EXCEPT ![e] = << >>]
    BY Zenon, <1>2 DEF Unplug
  <2>2. logBuffer \in [Device -> Seq(Unit)] /\ open \subseteq Device
    BY Zenon DEF IInv, TypeOK
  <2>3. logBuffer' \in [Device -> Seq(Unit)]
    BY Zenon, <2>1, <2>2, EmptySeq
  <2>4. TypeOK'
    BY Zenon, <2>1, <2>3 DEF IInv, TypeOK
  <2>5. Settled' /\ ActsOnNamedIfFound' /\ FusedAsShown'
    BY Zenon, <2>1 DEF IInv, Settled, ActsOnNamedIfFound, FusedAsShown
  <2>6. Buffered'
    <3> SUFFICES ASSUME NEW d \in Device
                 PROVE  \E k \in 0..1, n \in 1..MaxLen : \E a \in 0..n :
                          logBuffer'[d] = Units(d, k, n, a, n)
      BY Zenon DEF Buffered
    <3>1. CASE d = e
      <4>1. 0 \in 0..1 /\ 1 \in 1..MaxLen /\ 1 \in 0..1 /\ 1 - 1 = 0
        BY ConstantAssumption
      <4>2. /\ Units(e, 0, 1, 1, 1) \in Seq(Unit)
            /\ Len(Units(e, 0, 1, 1, 1)) = 1 - 1
        BY <4>1, UnitsType
      <4>3. Units(e, 0, 1, 1, 1) = << >>
        BY Zenon, <4>1, <4>2, EmptySeq
      <4>4. logBuffer'[e] = << >>
        BY Zenon, <2>1, <2>2
      <4> QED
        BY Zenon, <3>1, <4>1, <4>3, <4>4
    <3>2. CASE d # e
      <4>1. logBuffer'[d] = logBuffer[d]
        BY Zenon, <2>1, <2>2, <3>2
      <4> QED
        BY Zenon, <4>1 DEF IInv, Buffered
    <3> QED
      BY Zenon, <3>1, <3>2
  <2>7. Fetching'
    <3>1. current' = current
      BY Zenon, <2>1 DEF current
    <3>2. current \in open' => current \in open /\ logBuffer'[current] = logBuffer[current]
      BY Zenon, <2>1, <2>2
    <3> QED
      BY Zenon, <2>1, <3>1, <3>2 DEF IInv, Fetching
  <2>8. Printed'
    BY Zenon, <2>1 DEF IInv, Printed
  <2> QED
    BY Zenon, <2>4, <2>5, <2>6, <2>7, <2>8 DEF IInv
<1> QED
  BY Zenon, <1>1, <1>2

\* A run begins with nothing of the one before but what is left in the devices.
LEMMA RunStep ==
  ASSUME IInv, NEW c \in Cmd, NEW p \in Device \cup {NoPath}, Run(c, p)
  PROVE  IInv'
<1>1. /\ pc' = "detect" /\ cmd' = c /\ path' = p
      /\ open' = {} /\ found' = {} /\ devs' = << >> /\ asked' = 0
      /\ shown' = {} /\ garbled' = {} /\ changed' = {}
      /\ continue' = FALSE /\ got' = << >> /\ log' = << >>
      /\ UNCHANGED <<plugged, logBuffer>>
  BY Zenon DEF Run
<1>2. IsFiniteSet(Device) /\ Cardinality(Device) \in Nat
  BY Zenon, ConstantAssumption, FS_CardinalityType
<1>3. devs' \in Seq(Device) /\ Len(devs') = 0 /\ got' \in Seq(Unit) /\ log' \in Seq(Unit)
  BY Zenon, <1>1, EmptySeq
<1>4. TypeOK'
  <2>1. Len(devs') <= Cardinality(Device) /\ asked' \in 0..Len(devs')
    BY <1>1, <1>2, <1>3
  <2>2. /\ plugged' \subseteq Device /\ open' \subseteq plugged'
        /\ found' \subseteq Device /\ changed' \subseteq Device
        /\ shown' \subseteq Device /\ garbled' \subseteq Device
        /\ logBuffer' \in [Device -> Seq(Unit)] /\ continue' \in BOOLEAN
    BY Zenon, <1>1 DEF IInv, TypeOK
  <2> QED
    BY Zenon, <1>1, <1>3, <2>1, <2>2 DEF TypeOK
<1>5. Settled' /\ ActsOnNamedIfFound' /\ FusedAsShown'
  BY Zenon, <1>1 DEF Settled, ActsOnNamedIfFound, FusedAsShown
<1>6. Buffered' /\ Fetching' /\ Printed'
  BY Zenon, <1>1 DEF IInv, Buffered, Fetching, Printed
<1> QED
  BY Zenon, <1>4, <1>5, <1>6 DEF IInv

\* A listing has every device once; one of length one has the only device.
LEMMA ListingType ==
  ASSUME NEW S \in SUBSET Device, NEW s \in Listings(S)
  PROVE  /\ s \in Seq(Device) /\ Len(s) <= Cardinality(Device)
         /\ \A i \in 1..Len(s) : s[i] \in S
         /\ \A e \in S : \E i \in DOMAIN s : s[i] = e
         /\ Len(s) = 1 => S = {s[1]}
<1>1. /\ IsFiniteSet(Device) /\ Cardinality(Device) \in Nat
      /\ IsFiniteSet(S) /\ Cardinality(S) \in Nat /\ Cardinality(S) <= Cardinality(Device)
  BY Zenon, ConstantAssumption, FS_CardinalityType, FS_Subset
<1> DEFINE c == Cardinality(S)
<1>2. s \in [1..c -> S]
  BY Zenon DEF Listings
<1>3. c \in Nat /\ c <= Cardinality(Device)
  BY Zenon, <1>1
<1>5. c = 1 => \E x : S = {x}
  BY Zenon, <1>1, FS_Singleton
<1> HIDE DEF c
<1>4. s \in Seq(Device) /\ Len(s) = c /\ \A i \in 1..c : s[i] \in S
  BY <1>2, <1>3
<1>6. \A e \in S : \E i \in DOMAIN s : s[i] = e
  BY Zenon DEF Listings
<1> QED
  BY <1>3, <1>4, <1>5, <1>6

\* detect limits the run to the named device, if there.
LEMMA LimitType ==
  ASSUME NEW S \in SUBSET Device, NEW s \in Listings(S), s # << >>
  PROVE  /\ Limit(s) \in Seq(Device) /\ Limit(s) # << >>
         /\ Len(Limit(s)) \in Nat \ {0} /\ Len(Limit(s)) <= Cardinality(Device)
         /\ path \in S => Limit(s)[1] = path
         /\ path \notin S /\ Len(Limit(s)) = 1 => S = {Limit(s)[1]}
<1>1. /\ s \in Seq(Device) /\ Len(s) <= Cardinality(Device) /\ Len(s) \in Nat \ {0}
      /\ \A i \in 1..Len(s) : s[i] \in S
      /\ \A e \in S : \E i \in DOMAIN s : s[i] = e
      /\ Len(s) = 1 => S = {s[1]}
  <2>1. /\ s \in Seq(Device) /\ Len(s) <= Cardinality(Device)
        /\ \A i \in 1..Len(s) : s[i] \in S
        /\ \A e \in S : \E i \in DOMAIN s : s[i] = e
        /\ Len(s) = 1 => S = {s[1]}
    BY Zenon, ListingType
  <2>2. Len(s) \in Nat \ {0}
    BY <2>1, EmptySeq
  <2> QED
    BY Zenon, <2>1, <2>2
<1>2. Cardinality(Device) \in Nat
  BY Zenon, ConstantAssumption, FS_CardinalityType
<1>3. CASE \E i \in DOMAIN s : s[i] = path
  <2>1. path \in S /\ path \in Device
    BY <1>1, <1>3
  <2>2. Limit(s) = <<path>>
    BY Zenon, <1>3 DEF Limit
  <2> QED
    BY <1>1, <1>2, <2>1, <2>2
<1>4. CASE ~ \E i \in DOMAIN s : s[i] = path
  <2>1. Limit(s) = s
    BY Zenon, <1>4 DEF Limit
  <2>2. path \notin S
    BY Zenon, <1>1, <1>4
  <2> QED
    BY Zenon, <1>1, <2>1, <2>2
<1> QED
  BY Zenon, <1>3, <1>4

LEMMA DetectStep ==
  ASSUME IInv, detect \/ DetectFails
  PROVE  IInv'
<1>1. pc = "detect" /\ changed = {} /\ asked = 0 /\ log = << >> /\ ~continue
  BY Zenon DEF detect, DetectFails, IInv, Settled, Fetching, Ended
<1>2. CASE DetectFails
  <2>1. pc' = "fatal" /\ UNCHANGED <<plugged, open, cmd, path, found, devs, asked, shown, garbled, changed, fetch>>
    BY Zenon, <1>2 DEF DetectFails, run
  <2>2. Buffered' /\ Fetching' /\ Printed'
    BY Zenon, <1>1, <2>1, SameFetch
  <2>3. TypeOK'
    BY Zenon, <2>1 DEF IInv, TypeOK, fetch, Ended
  <2>4. Settled' /\ ActsOnNamedIfFound' /\ FusedAsShown'
    BY Zenon, <2>1 DEF IInv, Settled, Ended, ActsOnNamedIfFound, FusedAsShown
  <2> QED
    BY Zenon, <2>2, <2>3, <2>4 DEF IInv
<1>3. CASE detect
  <2>1. PICK s \in Listings(plugged) :
          /\ s # << >> /\ open' = plugged /\ found' = plugged /\ devs' = Limit(s)
          /\ pc' = IF Refuses(Limit(s)) THEN "fatal" ELSE FirstStep
    BY Zenon, <1>3 DEF detect, Found
  <2>2. UNCHANGED <<plugged, cmd, path, asked, shown, garbled, changed, fetch>>
    BY Zenon, <1>3 DEF detect
  <2>3. plugged \in SUBSET Device /\ cmd \in Cmd
    BY Zenon DEF IInv, TypeOK
  <2>4. /\ devs' \in Seq(Device) /\ devs' # << >>
        /\ Len(devs') \in Nat \ {0} /\ Len(devs') <= Cardinality(Device)
        /\ path \in plugged => devs'[1] = path
        /\ path \notin plugged /\ Len(devs') = 1 => plugged = {devs'[1]}
    BY Zenon, <2>1, <2>3, LimitType
  <2>5. /\ pc' \in {"fatal", "status", "each", "cfg"}
        /\ pc' = "status" => cmd = "hab"
        /\ pc' = "cfg" => cmd = "cfg" /\ Len(devs') = 1
    BY Zenon, <2>1, <2>3 DEF Refuses, FirstStep, Cmd
  <2>6. TypeOK'
    <3>1. asked' \in 0..Len(devs')
      BY <1>1, <2>2, <2>4
    <3> QED
      BY Zenon, <2>1, <2>2, <2>4, <2>5, <3>1 DEF IInv, TypeOK, fetch, Ended
  <2>7. Settled'
    BY Zenon, <1>1, <2>1, <2>2, <2>4, <2>5 DEF IInv, Settled, Ended
  <2>8. ActsOnNamedIfFound' /\ FusedAsShown'
    BY Zenon, <1>1, <2>2 DEF ActsOnNamedIfFound, FusedAsShown
  <2>9. Buffered' /\ Fetching' /\ Printed'
    BY Zenon, <1>1, <2>2 DEF IInv, Buffered, Fetching, Printed, fetch
  <2> QED
    BY Zenon, <2>6, <2>7, <2>8, <2>9 DEF IInv
<1> QED
  BY Zenon, <1>2, <1>3

\* The commands that change a device, and the question before fusing.
LEMMA CommandStep ==
  ASSUME IInv, HabStatus \/ HabStatusFails \/ (\E yes \in BOOLEAN : Confirm(yes)) \/ hab \/ cfg
  PROVE  IInv'
<1>1. pc \in {"status", "confirm", "hab", "cfg"} /\ changed = {} /\ ~continue
  BY Zenon DEF HabStatus, HabStatusFails, Confirm, hab, cfg, IInv, Settled, Fetching, Ended
<1>2. /\ UNCHANGED <<plugged, open, cmd, path, found, devs, asked, fetch>>
      /\ pc' \in {"confirm", "hab", "ok", "fatal", "panic"}
  BY Zenon DEF HabStatus, HabStatusFails, Confirm, hab, cfg, Command, run
<1>3. Buffered' /\ Fetching' /\ Printed'
  BY Zenon, <1>1, <1>2, SameFetch
<1>4. devs \in Seq(Device) /\ devs # << >> /\ devs[1] \in Device
  BY <1>1, EmptySeq, ElementOfSeq DEF IInv, TypeOK
<1>5. shown' \subseteq Device /\ garbled' \subseteq Device /\ changed' \subseteq Device
  BY Zenon, <1>4 DEF HabStatus, HabStatusFails, Confirm, hab, cfg, Command, run, Chosen, IInv, TypeOK
<1>6. TypeOK'
  BY Zenon, <1>1, <1>2, <1>5 DEF IInv, TypeOK, fetch, Ended
<1>7. Settled' /\ ActsOnNamedIfFound' /\ FusedAsShown'
  <2>1. CASE HabStatus
    BY Zenon, <1>1, <1>2, <2>1 DEF HabStatus, IInv, Settled, Ended, ActsOnNamedIfFound, FusedAsShown
  <2>2. CASE HabStatusFails
    BY Zenon, <1>1, <1>2, <2>2 DEF HabStatusFails, run, IInv, Settled, Ended, ActsOnNamedIfFound,
       FusedAsShown
  <2>3. CASE \E yes \in BOOLEAN : Confirm(yes)
    BY Zenon, <1>1, <1>2, <2>3 DEF Confirm, run, IInv, Settled, Ended, ActsOnNamedIfFound,
       FusedAsShown
  <2>4. CASE hab
    BY Zenon, <1>1, <1>2, <2>4 DEF hab, Command, Chosen, IInv, Settled, Ended, ActsOnNamedIfFound,
       FusedAsShown
  <2>5. CASE cfg
    BY Zenon, <1>1, <1>2, <2>5 DEF cfg, Command, Chosen, IInv, Settled, Ended, ActsOnNamedIfFound,
       FusedAsShown
  <2> QED
    BY Zenon, <2>1, <2>2, <2>3, <2>4, <2>5
<1> QED
  BY Zenon, <1>3, <1>6, <1>7 DEF IInv

\* The devices are asked for their status one after the other.
LEMMA StatusStep ==
  ASSUME IInv, StatusAnswered \/ StatusFails \/ Finish
  PROVE  IInv'
<1>1. pc = "each" /\ changed = {} /\ ~continue
  BY DEF StatusAnswered, StatusFails, Finish, Asks, IInv, Settled, Fetching, Ended, TypeOK
<1>2. UNCHANGED <<plugged, open, cmd, path, found, devs, shown, garbled, changed, fetch>>
  BY Zenon DEF StatusAnswered, StatusFails, Finish, run
<1>3. CASE StatusAnswered
  <2>1. asked' = asked + 1 /\ pc' = pc /\ cmd = "status" /\ asked < Len(devs)
    BY Zenon, <1>3 DEF StatusAnswered, Asks
  <2>2. asked' \in 0..Len(devs)
    BY <2>1 DEF IInv, TypeOK
  <2>3. TypeOK'
    BY Zenon, <1>2, <2>1, <2>2 DEF IInv, TypeOK, fetch
  <2>4. Settled' /\ ActsOnNamedIfFound' /\ FusedAsShown'
    BY Zenon, <1>1, <1>2, <2>1 DEF Settled, ActsOnNamedIfFound, FusedAsShown
  <2>5. Buffered' /\ Fetching' /\ Printed'
    BY Zenon, <1>1, <1>2, <2>1 DEF IInv, Buffered, Fetching, Printed, fetch
  <2> QED
    BY Zenon, <2>3, <2>4, <2>5 DEF IInv
<1>4. CASE StatusFails \/ Finish
  <2>1. pc' \in {"panic", "ok"} /\ asked' = asked
    BY Zenon, <1>4 DEF StatusFails, Finish, run
  <2>2. TypeOK'
    BY Zenon, <1>2, <2>1 DEF IInv, TypeOK, fetch, Ended
  <2>3. Settled' /\ ActsOnNamedIfFound' /\ FusedAsShown'
    BY Zenon, <1>1, <1>2, <2>1 DEF IInv, Settled, Ended, ActsOnNamedIfFound, FusedAsShown
  <2>4. Buffered' /\ Fetching' /\ Printed'
    BY Zenon, <1>1, <1>2, <2>1, SameFetch
  <2> QED
    BY Zenon, <2>2, <2>3, <2>4 DEF IInv
<1> QED
  BY Zenon, <1>3, <1>4

\* The empty part of a stream, and the whole of it
LEMMA UnitsEnds ==
  ASSUME NEW d \in Device, NEW k \in 0..1, NEW n \in 1..MaxLen
  PROVE  /\ Units(d, k, n, 0, 0) = << >>
         /\ Units(d, k, n, 0, n) = [i \in 1..n |-> UnitAt(d, k, n, i)]
<1>1. n \in Nat /\ 0 \in 0..n /\ 0 \in 0..0 /\ n \in 0..n
  BY ConstantAssumption
<1>2. Units(d, k, n, 0, 0) \in Seq(Unit) /\ Len(Units(d, k, n, 0, 0)) = 0 - 0
  BY Zenon, <1>1, UnitsType
<1>3. Units(d, k, n, 0, 0) = << >>
  BY <1>2, EmptySeq
<1>4. n - 0 = n /\ \A i \in 1..n : 0 + i = i
  BY <1>1
<1>5. [i \in 1 .. n - 0 |-> UnitAt(d, k, n, 0 + i)] = [i \in 1..n |-> UnitAt(d, k, n, i)]
  BY Zenon, <1>4
<1> QED
  BY Zenon, <1>3, <1>5 DEF Units

\* What is left of a stream is of one snapshot.
LEMMA RestType ==
  ASSUME NEW d \in Device, NEW k \in 0..1, NEW n \in 1..MaxLen, NEW a \in 0..n,
         NEW s, s = Units(d, k, n, a, n)
  PROVE  s \in Seq(Unit) /\ \A i \in DOMAIN s : s[i].snap = k
<1>1. n \in 0..n /\ n - a \in Nat
  BY ConstantAssumption
<1>2. /\ s \in Seq(Unit) /\ Len(s) = n - a
      /\ \A i \in 1 .. n - a : s[i] = UnitAt(d, k, n, a + i)
  BY Zenon, <1>1, UnitsType
<1>3. DOMAIN s = 1 .. n - a
  BY <1>1, <1>2
<1>4. ASSUME NEW i \in DOMAIN s
      PROVE  s[i].snap = k
  BY <1>2, <1>3 DEF UnitAt
<1> QED
  BY Zenon, <1>2, <1>4

\* A new snapshot can be told from the one in the buffer.
LEMMA SnapType ==
  ASSUME IInv, current \in Device
  PROVE  NewSnap \in 0..1
<1>a. PICK k \in 0..1, n \in 1..MaxLen :
        \E a \in 0..n : logBuffer[current] = Units(current, k, n, a, n)
  BY Zenon DEF IInv, Buffered
<1>1. PICK a \in 0..n : logBuffer[current] = Units(current, k, n, a, n)
  BY Zenon, <1>a
<1>4. \A i \in DOMAIN logBuffer[current] : logBuffer[current][i].snap = k
  BY <1>1, RestType
<1>5. 1 - k \in 0..1 /\ 1 - k # k
  OBVIOUS
<1>6. \A i \in DOMAIN logBuffer[current] : logBuffer[current][i].snap # 1 - k
  BY Zenon, <1>4, <1>5
<1> QED
  BY Zenon, <1>5, <1>6 DEF NewSnap

\* A response is cut from the rest of one stream, of which the tool has what went before.
LEMMA BuffersType ==
  ASSUME IInv, Asks, current \in open, NEW b \in Buffers
  PROVE  \E k \in 0..1, n \in 1..MaxLen : \E a \in 0..n :
           b = Units(current, k, n, a, n) /\ got = Units(current, k, n, 0, a)
<1>1. current \in Device
  BY Zenon DEF IInv, TypeOK
<1>2. CASE continue
  <2>a. PICK k \in 0..1, n \in 1..MaxLen : \E a \in 1 .. n - 1 :
          got = Units(current, k, n, 0, a) /\ logBuffer[current] = Units(current, k, n, a, n)
    BY Zenon, <1>2 DEF IInv, Fetching
  <2>1. PICK a \in 1 .. n - 1 :
          got = Units(current, k, n, 0, a) /\ logBuffer[current] = Units(current, k, n, a, n)
    BY Zenon, <2>a
  <2>2. a \in 0..n
    BY ConstantAssumption
  <2>3. b = logBuffer[current]
    BY Zenon, <1>2 DEF Buffers
  <2> QED
    BY Zenon, <2>1, <2>2, <2>3
<1>3. CASE ~continue
  <2>1. PICK n \in 1..MaxLen : b = Grab(n)
    BY Zenon, <1>3 DEF Buffers
  <2>2. NewSnap \in 0..1 /\ 0 \in 0..n
    BY <1>1, SnapType
  <2>3. b = Units(current, NewSnap, n, 0, n) /\ got = Units(current, NewSnap, n, 0, 0)
    <3>1. got = << >>
      BY Zenon, <1>3 DEF IInv, Fetching
    <3>2. b = [i \in 1..n |-> UnitAt(current, NewSnap, n, i)]
      BY Zenon, <2>1 DEF Grab, Stream, UnitAt
    <3> QED
      BY Zenon, <1>1, <2>2, <3>1, <3>2, UnitsEnds
  <2> QED
    BY Zenon, <2>2, <2>3
<1> QED
  BY Zenon, <1>2, <1>3 DEF IInv, TypeOK

\* What a request leaves in the devices
LEMMA RequestStep ==
  ASSUME IInv, Asks, current \in open, NEW b \in Buffers, handleLogsRequest(b)
  PROVE  /\ Buffered' /\ logBuffer' \in [Device -> Seq(Unit)]
         /\ logBuffer'[current] = Rest(b)
<1>1. current \in Device /\ logBuffer \in [Device -> Seq(Unit)]
  BY Zenon DEF IInv, TypeOK
<1>a. PICK k \in 0..1, n \in 1..MaxLen : \E a \in 0..n : b = Units(current, k, n, a, n)
  BY Zenon, BuffersType
<1>2. PICK a \in 0..n : b = Units(current, k, n, a, n)
  BY Zenon, <1>a
<1>3. /\ More(b) => a + logChunk \in 1 .. n - 1 /\ Rest(b) = Units(current, k, n, a + logChunk, n)
      /\ ~More(b) => Rest(b) = Units(current, k, n, n, n)
  BY <1>1, <1>2, Chunk
<1>4. PICK c \in 0..n : Rest(b) = Units(current, k, n, c, n)
  <2>1. n \in 0..n /\ \A c \in 1 .. n - 1 : c \in 0..n
    BY ConstantAssumption
  <2> QED
    BY Zenon, <1>3, <2>1
<1>6. Rest(b) \in Seq(Unit)
  BY Zenon, <1>1, <1>4, RestType
<1>7. /\ logBuffer'[current] = Rest(b) /\ logBuffer' \in [Device -> Seq(Unit)]
      /\ \A d \in Device : d # current => logBuffer'[d] = logBuffer[d]
  BY Zenon, <1>1, <1>6 DEF handleLogsRequest
<1>8. ASSUME NEW d \in Device
      PROVE  \E k1 \in 0..1, n1 \in 1..MaxLen : \E a1 \in 0..n1 : logBuffer'[d] = Units(d, k1, n1, a1, n1)
  <2>1. CASE d = current
    BY Zenon, <1>4, <1>7, <2>1
  <2>2. CASE d # current
    BY Zenon, <1>7, <2>2 DEF IInv, Buffered
  <2> QED
    BY Zenon, <2>1, <2>2
<1> QED
  BY Zenon, <1>7, <1>8 DEF Buffered

\* The tool got a response: it has a whole log, or goes on asking for the same one.
LEMMA FetchStep ==
  ASSUME IInv, getLogMessages
  PROVE  IInv'
<1>1. Asks /\ cmd = "logs" /\ current \in open /\ current \in Device
  BY Zenon DEF getLogMessages, IInv, TypeOK
<1>2. PICK b \in Buffers :
        /\ handleLogsRequest(b)
        /\ \/ Finished(b) /\ Fetched(got \o Payload(b))
           \/ /\ ~Finished(b) /\ got' = got \o Payload(b) /\ continue' = TRUE
              /\ UNCHANGED <<asked, log>>
  BY Zenon DEF getLogMessages
<1>3. UNCHANGED <<plugged, open, pc, cmd, path, found, devs, shown, garbled, changed>>
  BY Zenon DEF getLogMessages
<1>4. Buffered' /\ logBuffer' \in [Device -> Seq(Unit)] /\ logBuffer'[current] = Rest(b)
  BY Zenon, <1>1, <1>2, RequestStep
<1>a. PICK k \in 0..1, n \in 1..MaxLen : \E a \in 0..n :
        b = Units(current, k, n, a, n) /\ got = Units(current, k, n, 0, a)
  BY Zenon, <1>1, BuffersType
<1>5. PICK a \in 0..n : b = Units(current, k, n, a, n) /\ got = Units(current, k, n, 0, a)
  BY Zenon, <1>a
<1>6. /\ More(b) => /\ a + logChunk \in 1 .. n - 1
                   /\ Payload(b) = Units(current, k, n, a, a + logChunk)
                   /\ Rest(b) = Units(current, k, n, a + logChunk, n)
      /\ ~More(b) => Payload(b) = b
  BY <1>1, <1>5, Chunk
<1>7. /\ pc = "each" /\ changed = {} /\ asked \in Nat /\ asked + 1 \in 1..Len(devs)
      /\ asked < Len(devs) /\ asked # asked + 1
  BY <1>1 DEF Asks, IInv, Settled, Ended, TypeOK
<1>8. Settled' /\ ActsOnNamedIfFound' /\ FusedAsShown'
  BY Zenon, <1>3, <1>7 DEF Settled, ActsOnNamedIfFound, FusedAsShown
<1>9. CASE ~More(b)
  <2>1. asked' = asked + 1 /\ log' = got \o Payload(b) /\ continue' = FALSE /\ got' = << >>
    BY Zenon, <1>2, <1>9 DEF Finished, Fetched
  <2>2. n \in 0..n /\ 0 \in 0..n /\ n \in Nat
    BY ConstantAssumption
  <2>3. log' = Units(current, k, n, 0, n)
    <3>1. Units(current, k, n, 0, a) \o Units(current, k, n, a, n) = Units(current, k, n, 0, n)
      BY Zenon, <1>1, <2>2, UnitsConcat
    <3> QED
      BY Zenon, <1>5, <1>6, <1>9, <2>1, <3>1
  <2>4. log' \in Seq(Unit)
    BY Zenon, <1>1, <2>2, <2>3, RestType
  <2>5. TypeOK'
    <3>1. asked' \in 0..Len(devs')
      BY <1>3, <1>7, <2>1
    <3>2. << >> \in Seq(Unit)
      OBVIOUS
    <3>3. got' \in Seq(Unit)
      BY Zenon, <2>1, <3>2
    <3>4. continue' \in BOOLEAN
      BY Zenon, <2>1
    <3> QED
      BY Zenon, <1>3, <1>4, <2>4, <3>1, <3>3, <3>4 DEF IInv, TypeOK
  <2>6. Fetching'
    BY Zenon, <2>1 DEF Fetching
  <2>7. Printed'
    <3>1. log' = Units(devs'[asked'], k, n, 0, n)
      BY Zenon, <1>3, <2>1, <2>3 DEF current
    <3>2. asked' \in 1..Len(devs') /\ cmd' = "logs"
      BY Zenon, <1>1, <1>3, <1>7, <2>1
    <3> QED
      BY Zenon, <3>1, <3>2 DEF Printed
  <2> QED
    BY Zenon, <1>4, <1>8, <2>5, <2>6, <2>7 DEF IInv
<1>10. CASE More(b)
  <2>1. got' = got \o Payload(b) /\ continue' = TRUE /\ asked' = asked /\ log' = log
    BY Zenon, <1>2, <1>10 DEF Finished
  <2> DEFINE c == a + logChunk
  <2>2. c \in 1 .. n - 1 /\ c \in 0..n /\ a \in 0..c /\ 0 \in 0..c /\ c - 0 \in Nat
    BY <1>6, <1>10, ConstantAssumption
  <2>3. Payload(b) = Units(current, k, n, a, c) /\ Rest(b) = Units(current, k, n, c, n)
    BY Zenon, <1>6, <1>10
  <2> HIDE DEF c
  <2>4. got' = Units(current, k, n, 0, c)
    <3>1. Units(current, k, n, 0, a) \o Units(current, k, n, a, c) = Units(current, k, n, 0, c)
      BY Zenon, <1>1, <2>2, UnitsConcat
    <3> QED
      BY Zenon, <1>5, <2>1, <2>3, <3>1
  <2>5. Units(current, k, n, 0, c) \in Seq(Unit)
    BY Zenon, <1>1, <2>2, UnitsType
  <2>6. TypeOK'
    BY Zenon, <1>3, <1>4, <2>1, <2>4, <2>5 DEF IInv, TypeOK
  <2>7. current' = current
    BY Zenon, <1>3, <2>1 DEF current
  <2>8. Fetching'
    <3>1. \E k1 \in 0..1, n1 \in 1..MaxLen : \E a1 \in 1 .. n1 - 1 :
            /\ got' = Units(current', k1, n1, 0, a1)
            /\ logBuffer'[current'] = Units(current', k1, n1, a1, n1)
      BY Zenon, <1>4, <2>2, <2>3, <2>4, <2>7
    <3>2. pc' = "each" /\ cmd' = "logs" /\ asked' < Len(devs')
      BY Zenon, <1>1, <1>3, <1>7, <2>1
    <3> QED
      BY Zenon, <2>1, <3>1, <3>2 DEF Fetching
  <2>9. Printed'
    BY Zenon, <1>3, <2>1 DEF IInv, Printed
  <2> QED
    BY Zenon, <1>4, <1>8, <2>6, <2>8, <2>9 DEF IInv
<1> QED
  BY Zenon, <1>9, <1>10

\* A fetch is given up; the device may keep the rest of a snapshot.
LEMMA FetchFailsStep ==
  ASSUME IInv, FetchFails
  PROVE  IInv'
<1>1. /\ Asks /\ cmd = "logs"
      /\ UNCHANGED <<plugged, open, pc, cmd, path, found, devs, shown, garbled, changed>>
      /\ asked' = asked + 1 /\ log' = << >> /\ continue' = FALSE /\ got' = << >>
  BY Zenon DEF FetchFails, Fetched
<1>2. Buffered' /\ logBuffer' \in [Device -> Seq(Unit)]
  <2>1. CASE UNCHANGED logBuffer
    BY Zenon, <2>1 DEF IInv, Buffered, TypeOK
  <2>2. CASE current \in open /\ \E b \in Buffers : handleLogsRequest(b)
    BY Zenon, <1>1, <2>2, RequestStep
  <2> QED
    BY Zenon, <2>1, <2>2 DEF FetchFails
<1>3. /\ pc = "each" /\ changed = {} /\ asked + 1 \in 0..Len(devs)
  BY <1>1 DEF Asks, IInv, Settled, Ended, TypeOK
<1>4. TypeOK'
  <2>1. << >> \in Seq(Unit)
    OBVIOUS
  <2> QED
    BY Zenon, <1>1, <1>2, <1>3, <2>1 DEF IInv, TypeOK
<1>5. Settled' /\ ActsOnNamedIfFound' /\ FusedAsShown'
  BY Zenon, <1>1, <1>3 DEF Settled, ActsOnNamedIfFound, FusedAsShown
<1>6. Fetching' /\ Printed'
  BY Zenon, <1>1 DEF Fetching, Printed
<1> QED
  BY Zenon, <1>2, <1>4, <1>5, <1>6 DEF IInv

LEMMA InitInv ==
  ASSUME Init
  PROVE  IInv
<1>1. Cardinality(Device) \in Nat
  BY Zenon, ConstantAssumption, FS_CardinalityType
<1>2. TypeOK
  <2>1. /\ plugged \subseteq Device /\ open \subseteq plugged /\ pc \in Ended /\ cmd \in Cmd
        /\ path \in Device \cup {NoPath} /\ found \subseteq Device /\ shown \subseteq Device
        /\ garbled \subseteq Device /\ changed \subseteq Device
    BY Zenon DEF Init, Ended, Cmd
  <2>2. /\ devs \in Seq(Device) /\ got \in Seq(Unit) /\ log \in Seq(Unit)
        /\ Len(devs) <= Cardinality(Device) /\ asked \in 0..Len(devs)
    BY <1>1 DEF Init
  <2>3. << >> \in Seq(Unit)
    OBVIOUS
  <2>4. logBuffer \in [Device -> Seq(Unit)]
    BY Zenon, <2>3 DEF Init
  <2>5. continue \in BOOLEAN /\ pc \notin {"status", "confirm", "hab", "each", "cfg"}
    BY Zenon DEF Init
  <2> QED
    BY Zenon, <2>1, <2>2, <2>4, <2>5 DEF TypeOK
<1>3. Settled /\ Fetching /\ Printed /\ ActsOnNamedIfFound /\ FusedAsShown
  BY Zenon DEF Init, Settled, Ended, Fetching, Printed, ActsOnNamedIfFound, FusedAsShown
<1>4. Buffered
  <2>1. 0 \in 0..1 /\ 1 \in 1..MaxLen /\ 1 \in 0..1
    BY ConstantAssumption
  <2>2. ASSUME NEW d \in Device
        PROVE  logBuffer[d] = Units(d, 0, 1, 1, 1)
    <3>1. Units(d, 0, 1, 1, 1) = << >>
      BY DEF Units
    <3> QED
      BY Zenon, <3>1 DEF Init
  <2> QED
    BY Zenon, <2>1, <2>2 DEF Buffered
<1> QED
  BY Zenon, <1>2, <1>3, <1>4 DEF IInv

LEMMA Invariance ==
  ASSUME IInv, [Next]_vars
  PROVE  IInv'
<1>1. CASE \E e \in Device : Plug(e) \/ Unplug(e)
  BY Zenon, <1>1, PlugStep
<1>2. CASE \E c \in Cmd, p \in Device \cup {NoPath} : Run(c, p)
  BY Zenon, <1>2, RunStep
<1>3. CASE detect \/ DetectFails
  BY Zenon, <1>3, DetectStep
<1>4. CASE HabStatus \/ HabStatusFails \/ (\E yes \in BOOLEAN : Confirm(yes)) \/ hab \/ cfg
  BY Zenon, <1>4, CommandStep
<1>5. CASE StatusAnswered \/ StatusFails \/ Finish
  BY Zenon, <1>5, StatusStep
<1>6. CASE getLogMessages
  BY Zenon, <1>6, FetchStep
<1>7. CASE FetchFails
  BY Zenon, <1>7, FetchFailsStep
<1>8. CASE UNCHANGED vars
  <2>1. UNCHANGED <<plugged, open, pc, cmd, path, found, devs, asked, shown, garbled, changed, fetch>>
    BY Zenon, <1>8 DEF vars, run
  <2>2. Buffered' /\ Fetching' /\ Printed'
    BY Zenon, <2>1, SameFetch DEF IInv, Fetching
  <2>3. TypeOK' /\ Settled' /\ ActsOnNamedIfFound' /\ FusedAsShown'
    BY Zenon, <2>1 DEF IInv, TypeOK, Settled, fetch, ActsOnNamedIfFound, FusedAsShown
  <2> QED
    BY Zenon, <2>2, <2>3 DEF IInv
<1> QED
  BY Zenon, <1>1, <1>2, <1>3, <1>4, <1>5, <1>6, <1>7, <1>8 DEF Next
-----------------------------------------------------------------------------
\* The tool never indexes past conf.devs, and what it holds of a log is units of
\* logs, for any number of devices.
THEOREM TypeCorrect == Spec => []TypeOK
<1>1. IInv => TypeOK
  BY Zenon DEF IInv
<1> QED
  BY InitInv, Invariance, <1>1, PTL DEF Spec

\* cfg and hab only go to the device named with -d if detect found it; if not, cfg
\* only goes to the only one detect found, for any number of devices that come and go.
THEOREM NamedDeviceOnly == Spec => []ActsOnNamedIfFound
<1>1. IInv => ActsOnNamedIfFound
  BY Zenon DEF IInv
<1> QED
  BY InitInv, Invariance, <1>1, PTL DEF Spec

\* hab only fuses the device whose status the tool got before the confirmation, and
\* whose SRK hash it showed if that status decoded, for any number of devices.
THEOREM FusesShown == Spec => []FusedAsShown
<1>1. IInv => FusedAsShown
  BY Zenon DEF IInv
<1> QED
  BY InitInv, Invariance, <1>1, PTL DEF Spec

\* What getLogMessages returns without an error is one complete snapshot of the
\* device it is printed for, for logs and responses of any size.
THEOREM LogsWhole == Spec => []WholeLog
<1>1. ASSUME IInv
      PROVE  WholeLog
  <2> SUFFICES ASSUME log # << >>
               PROVE  log = [i \in 1 .. log[1].of |->
                 [dev |-> devs[asked], snap |-> log[1].snap, at |-> i, of |-> log[1].of]]
    BY Zenon DEF WholeLog
  <2>1. devs[asked] \in Device
    BY <1>1 DEF IInv, Printed, TypeOK
  <2>2. PICK k \in 0..1, n \in 1..MaxLen : log = Units(devs[asked], k, n, 0, n)
    BY Zenon, <1>1 DEF IInv, Printed
  <2>3. log = [i \in 1..n |-> UnitAt(devs[asked], k, n, i)]
    BY Zenon, <2>1, <2>2, UnitsEnds
  <2>4. 1 \in 1..n
    BY ConstantAssumption
  <2>5. log[1] = UnitAt(devs[asked], k, n, 1)
    BY Zenon, <2>3, <2>4
  <2>6. log[1].snap = k /\ log[1].of = n
    BY <2>5 DEF UnitAt
  <2> QED
    BY Zenon, <2>3, <2>6 DEF UnitAt
<1> QED
  BY InitInv, Invariance, <1>1, PTL DEF Spec

=============================================================================
