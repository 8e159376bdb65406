----------------------------- MODULE ConsoleLog -----------------------------
(***************************************************************************)
(* The console log and the crash log: the line buffer of the applet's      *)
(* console (log.go), the ring buffer behind printk (debug.go; console.go   *)
(* for release builds), and the copy of it that main keeps on the card     *)
(* when the applet exits (storeAppletCrashLog and retrieveLastCrashLog of  *)
(* flash.go, over the block device of storage_debug.go).                   *)
(*                                                                         *)
(* A byte of the applet carries its number since boot and its kind: text,  *)
(* newline or NUL.  A line of the OS is one item.  The ring buffer is      *)
(* external: WriteByte refuses a byte when it is full, and printk ignores  *)
(* the refusal.                                                            *)
(***************************************************************************)
EXTENDS Naturals, Sequences

CONSTANTS outputLimit,       \* bytes of an unfinished line held back
          blockSize,         \* bytes in a block
          crashLogNumBlocks, \* blocks of the crash log
          MaxBytes           \* bound: bytes the applet writes between reboots

ASSUME ConstantAssumption ==
  \A n \in {outputLimit, blockSize, crashLogNumBlocks, MaxBytes} : n \in Nat \ {0}

VARIABLES debug, \* a debug build (debug.go), else a release build (console.go)
          buf,   \* the line buffer, which every instance of the applet shares
          ring,  \* logBuffer, as getConsoleLogs returns it
          mem,   \* the blocks of the crash log on the card
          up,    \* the applet is running
          n,     \* bytes the applet has written since boot
          stored \* the log last stored in full, as a set of one (history)

vars == <<debug, buf, ring, mem, up, n, stored>>

maxLogSize == crashLogNumBlocks * blockSize
Block == 0 .. crashLogNumBlocks - 1

Ta(i, kind) == [who |-> "ta", n |-> i, kind |-> kind]
OSLine == [who |-> "os", n |-> 0, kind |-> "nl"]
Zero == [who |-> "card", n |-> 0, kind |-> "nul"]

\* printk for every byte: logBuffer, of maxLogSize bytes, takes what fits.
printk(s) == LET all == ring \o s
             IN  IF debug THEN SubSeq(all, 1, IF Len(all) > maxLogSize THEN maxLogSize ELSE Len(all))
                          ELSE ring
getConsoleLogs == ring

Booted == IF debug THEN <<OSLine>> ELSE << >>

Init == /\ debug \in BOOLEAN
        /\ buf = << >> /\ ring = Booted
        /\ mem = [b \in Block |-> [i \in 1..blockSize |-> Zero]]
        /\ up = TRUE /\ n = 0 /\ stored = {}
-----------------------------------------------------------------------------
\* if c == flushChr || buf.Len() > outputLimit
FlushesLines(b) == b[Len(b)].kind = "nl"
FlushesAlways(b) == TRUE
Flushes(b) == b[Len(b)].kind = "nl" \/ Len(b) > outputLimit

\* buf.Reset()
ResetNever(b) == b
Reset(b) == << >>

\* A SYS_WRITE of the applet
bufferedStdoutLog(kind) ==
  LET b == Append(buf, Ta(n + 1, kind))
  IN  /\ up /\ n < MaxBytes
      /\ n' = n + 1
      /\ IF Flushes(b) THEN ring' = printk(b) /\ buf' = Reset(b)
                       ELSE buf' = b /\ UNCHANGED ring
      /\ UNCHANGED <<debug, mem, up, stored>>

\* log.Printf in the OS
OSLog == ring' = printk(<<OSLine>>) /\ UNCHANGED <<debug, buf, mem, up, n, stored>>
-----------------------------------------------------------------------------
Read == [i \in 1..maxLogSize |-> mem[(i - 1) \div blockSize][((i - 1) % blockSize) + 1]]

Zeroes(k) == [i \in 1..k |-> Zero]

\* The log cut or padded to the size of the crash log
SizedUnpadded(l) == l \o SubSeq(Read, Len(l) + 1, maxLogSize)
Sized(l) == IF Len(l) > maxLogSize THEN SubSeq(l, Len(l) - maxLogSize + 1, Len(l))
                                   ELSE l \o Zeroes(maxLogSize - Len(l))

\* The first k blocks of l reach the card.
WriteBlocks(l, k) ==
  [b \in Block |-> IF b < k THEN SubSeq(l, b * blockSize + 1, (b + 1) * blockSize) ELSE mem[b]]

AppletExits == up /\ up' = FALSE /\ UNCHANGED <<debug, buf, ring, mem, n, stored>>

\* main stores the log and loads the applet again; its own messages follow.
storeAppletCrashLog ==
  /\ ~up
  /\ mem' = WriteBlocks(Sized(getConsoleLogs), crashLogNumBlocks)
  /\ stored' = {getConsoleLogs}
  /\ ring' = printk(<<OSLine>>)
  /\ up' = TRUE
  /\ UNCHANGED <<debug, buf, n>>

\* The card fails halfway: the error is only logged.
StoreFails ==
  /\ ~up
  /\ \E k \in 0 .. crashLogNumBlocks - 1 : mem' = WriteBlocks(Sized(getConsoleLogs), k)
  /\ stored' = {}
  /\ ring' = printk(<<OSLine>>)
  /\ up' = TRUE
  /\ UNCHANGED <<debug, buf, n>>

\* Power is lost, or the watchdog resets the device; a store under way is torn.
Reboot ==
  /\ \/ UNCHANGED <<mem, stored>>
     \/ /\ ~up
        /\ \E k \in 0 .. crashLogNumBlocks - 1 : mem' = WriteBlocks(Sized(getConsoleLogs), k)
        /\ stored' = {}
  /\ buf' = << >> /\ ring' = Booted
  /\ up' = TRUE /\ n' = 0
  /\ UNCHANGED debug

Next == \/ \E kind \in {"text", "nl", "nul"} : bufferedStdoutLog(kind)
        \/ OSLog
        \/ AppletExits
        \/ storeAppletCrashLog
        \/ StoreFails
        \/ Reboot

Spec == Init /\ [][Next]_vars
-----------------------------------------------------------------------------
Nul(s) == {i \in 1..Len(s) : s[i].kind = "nul"}

\* if p := bytes.IndexByte(r, 0); p > 0, where sequences start at 1
CutsAt(p) == p > 1
retrieveLastCrashLog ==
  LET first == CHOOSE i \in Nul(Read) : \A j \in Nul(Read) : i <= j
  IN  IF Nul(Read) # {} /\ CutsAt(first) THEN SubSeq(Read, 1, first - 1) ELSE Read

Item == {Ta(i, k) : i \in 1..MaxBytes, k \in {"text", "nl", "nul"}} \cup {OSLine, Zero}

TypeOK == /\ debug \in BOOLEAN
          /\ buf \in Seq(Item) /\ Len(buf) <= outputLimit
          /\ ring \in Seq(Item) /\ Len(ring) <= maxLogSize
          /\ mem \in [Block -> [1..blockSize -> Item]]
          /\ up \in BOOLEAN /\ n \in 0..MaxBytes
          /\ \A l \in stored : l \in Seq(Item)

TaAt(s) == {p \in 1..Len(s) : s[p].who = "ta"}

\* Until the ring buffer is full, what the applet wrote is in it or in the line
\* buffer, every byte once and in order, across restarts of the applet:
\* bufferedStdoutLog neither loses nor repeats a byte when it flushes.
EveryByteOnce ==
  debug /\ Len(ring) < maxLogSize =>
    LET all == ring \o buf
    IN  /\ {all[p].n : p \in TaAt(all)} = 1..n
        /\ \A p, q \in TaAt(all) : p < q => all[p].n < all[q].n

\* A message of the OS never lands inside a line of the applet, unless that line
\* is longer than outputLimit: the handler overrides SYS_WRITE "to avoid
\* interleaved logs" (handler.go), and log.go holds lines back until whole.
LinesUnbroken ==
  \A i \in 2..Len(ring) :
    ring[i].who = "os" /\ ring[i - 1].who = "ta" /\ ring[i - 1].kind # "nl" =>
      /\ i > outputLimit + 1
      /\ \A j \in i - 1 - outputLimit .. i - 1 : ring[j].who = "ta" /\ ring[j].kind # "nl"

\* CrashLog "returns the console log stored by the OS after the last applet exit,
\* if any" (rpc.go): a stored log of text comes back as it was, with nothing of an
\* earlier and longer one, after restarts and reboots.  The empty log, the only
\* one a release build stores, is excepted: it comes back as maxLogSize zeros.
CrashLogReturned ==
  \A l \in stored : Nul(l) = {} =>
    retrieveLastCrashLog = IF l = << >> THEN Zeroes(maxLogSize) ELSE l
=============================================================================
