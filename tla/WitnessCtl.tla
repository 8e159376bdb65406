----------------------------- MODULE WitnessCtl -----------------------------
(***************************************************************************)
(* The operator's tool, cmd/witnessctl: which of the devices that are      *)
(* plugged in a run of it detects, asks and changes (main and detect of    *)
(* witnessctl.go, detect of usb.go, status, hab and cfg of api.go), and    *)
(* how it fetches the console or crash log of each (getLogMessages of      *)
(* api.go, handleLogsRequest of trusted_os/ctl.go).                        *)
(*                                                                         *)
(* A device is known by its HID path.  Devices come and go at any time; a  *)
(* handle opened by detect is dead once its device has been unplugged.     *)
(* The HID transport and the enumeration are external: devices are listed  *)
(* in any order, and a command may fail, before or after the device has    *)
(* carried it out.  A compressed log is a sequence of units that carry     *)
(* their device, snapshot and place.  What a device does with the other    *)
(* commands is in the modules HAB and Applet.                              *)
(***************************************************************************)
EXTENDS Naturals, Sequences, FiniteSets

CONSTANTS Device,   \* devices, by HID path
          NoPath,   \* no -d flag
          logChunk, \* units in a response
          MaxLen    \* bound: units in a compressed log

ASSUME ConstantAssumption == /\ IsFiniteSet(Device) /\ NoPath \notin Device
                             /\ logChunk \in Nat \ {0} /\ MaxLen \in Nat \ {0}

VARIABLES plugged, \* devices plugged in
          open,    \* devices behind a live handle of this run
          pc,      \* "idle", "detect", "status", "confirm", "hab", "each", "cfg"; "ok", "fatal", "panic"
          cmd,     \* the case of main's switch
          path,    \* conf.hidPath
          found,   \* the devices detect has found (history)
          devs,    \* conf.devs
          asked,   \* how many of devs have been asked, for the commands that ask each
          shown,   \* devices whose SRK hash was shown before the confirmation (history)
          garbled, \* devices whose status came but did not decode before it (history)
          changed, \* devices that this run has fused or configured (history)
          logBuffer, \* ctl.logBuffer of each device
          continue,  \* req.Continue of the fetch under way
          got,       \* what it has piped into the decompressor
          log        \* the log last printed by this run, << >> after an error

fetch == <<logBuffer, continue, got, log>>
run == <<cmd, path, found, devs, asked, shown, garbled, changed, fetch>>
vars == <<plugged, open, pc, run>>

Cmd == {"hab", "status", "logs", "cfg"}
Ended == {"idle", "ok", "fatal", "panic"}

Init == /\ plugged = {} /\ open = {} /\ pc = "idle"
        /\ cmd = "cfg" /\ path = NoPath
        /\ found = {} /\ devs = << >> /\ asked = 0
        /\ shown = {} /\ garbled = {} /\ changed = {}
        /\ logBuffer = [d \in Device |-> << >>]
        /\ continue = FALSE /\ got = << >> /\ log = << >>

Plug(d) == /\ d \notin plugged
           /\ plugged' = plugged \cup {d}
           /\ UNCHANGED <<open, pc, run>>

Unplug(d) == /\ d \in plugged
             /\ plugged' = plugged \ {d} /\ open' = open \ {d}
             /\ logBuffer' = [logBuffer EXCEPT ![d] = << >>]
             /\ UNCHANGED <<pc, cmd, path, found, devs, asked, shown, garbled, changed,
                            continue, got, log>>

\* The tool is run; with none of -s, -l, -L and -H the switch falls to cfg.
Run(c, p) == /\ pc \in Ended
             /\ pc' = "detect" /\ cmd' = c /\ path' = p
             /\ open' = {} /\ found' = {} /\ devs' = << >> /\ asked' = 0
             /\ shown' = {} /\ garbled' = {} /\ changed' = {}
             /\ continue' = FALSE /\ got' = << >> /\ log' = << >>
             /\ UNCHANGED <<plugged, logBuffer>>
-----------------------------------------------------------------------------
\* Every order in which the devices may be listed
Listings(S) == {s \in [1..Cardinality(S) -> S] : \A e \in S : \E i \in DOMAIN s : s[i] = e}

\* len(devs) == 0 is an error.
FoundAlways(s) == TRUE
Found(s) == s # << >>

\* If the user specified a device in particular, limit to just that one.
Limit(s) == IF \E i \in DOMAIN s : s[i] = path THEN <<path>> ELSE s

\* len(conf.devs) != 1
RefusesNever(s) == FALSE
Refuses(s) == cmd = "cfg" /\ Len(s) # 1

FirstStep == CASE cmd = "hab" -> "status" [] cmd \in {"status", "logs"} -> "each" [] OTHER -> "cfg"

\* detect, and main up to its first command
detect ==
  /\ pc = "detect"
  /\ \E s \in Listings(plugged) :
       /\ Found(s)
       /\ open' = plugged /\ found' = plugged
       /\ devs' = Limit(s)
       /\ pc' = IF Refuses(Limit(s)) THEN "fatal" ELSE FirstStep
  /\ UNCHANGED <<plugged, cmd, path, asked, shown, garbled, changed, fetch>>

\* No device is found, or the enumeration or the opening of a device fails.
DetectFails == pc = "detect" /\ pc' = "fatal" /\ UNCHANGED <<plugged, open, run>>
-----------------------------------------------------------------------------
\* The status behind the warning of -H.  One that does not decode is logged as a
\* failure, and what there is of its SRK hash is shown as UNKNOWN.
HabStatus ==
  /\ pc = "status" /\ devs[1] \in open
  /\ \/ shown' = {devs[1]} /\ UNCHANGED garbled
     \/ garbled' = {devs[1]} /\ UNCHANGED shown
  /\ pc' = "confirm"
  /\ UNCHANGED <<plugged, open, cmd, path, found, devs, asked, changed, fetch>>

\* The command fails: s is nil, the error is logged, then s.SRKHash is read.
HabStatusFails == pc = "status" /\ pc' = "panic" /\ UNCHANGED <<plugged, open, run>>

Confirm(yes) == /\ pc = "confirm" /\ pc' = IF yes THEN "hab" ELSE "fatal"
                /\ UNCHANGED <<plugged, open, run>>

\* conf.devs[0]
ChosenLast == devs[Len(devs)]
Chosen == devs[1]

\* The device carries the command out, or not; the answer says so, says there was
\* an error, or is lost.
Command ==
  /\ \/ /\ Chosen \in open
        /\ changed' = {Chosen} /\ pc' \in {"ok", "fatal"}
     \/ changed' = {} /\ pc' = "fatal"
  /\ UNCHANGED <<plugged, open, cmd, path, found, devs, asked, shown, garbled, fetch>>

hab == pc = "hab" /\ Command

\* The flags may also be invalid, which like a failure changes nothing.
cfg == pc = "cfg" /\ Command
-----------------------------------------------------------------------------
Asks == pc = "each" /\ asked < Len(devs)
current == devs[asked + 1]

\* The next of the devices answers for its status, which is printed, decoded or not.
StatusAnswered == /\ Asks /\ cmd = "status" /\ current \in open
                  /\ asked' = asked + 1
                  /\ UNCHANGED <<plugged, open, pc, cmd, path, found, devs, shown, garbled,
                                 changed, fetch>>

\* The command fails: s is nil, and s.Print() reads it.
StatusFails == /\ Asks /\ cmd = "status" /\ pc' = "panic"
               /\ UNCHANGED <<plugged, open, run>>

\* for _, d := range conf.devs
Finish == /\ pc = "each" /\ asked = Len(devs) /\ pc' = "ok"
          /\ UNCHANGED <<plugged, open, run>>
-----------------------------------------------------------------------------
(***************************************************************************)
(* handleLogsRequest, in the device: a request without Continue replaces   *)
(* the buffer by a new snapshot, whose number is new in the buffer; every  *)
(* request takes a chunk off its front.                                    *)
(***************************************************************************)
Stream(k, n) == [i \in 1..n |-> [dev |-> current, snap |-> k, at |-> i, of |-> n]]
NewSnap == CHOOSE k \in 0..1 : \A i \in DOMAIN logBuffer[current] : logBuffer[current][i].snap # k

GrabAppend(n) == logBuffer[current] \o Stream(NewSnap, n)
Grab(n) == Stream(NewSnap, n)

\* The buffer the response is cut from
Buffers == IF continue THEN {logBuffer[current]} ELSE {Grab(n) : n \in 1..MaxLen}

More(b) == Len(b) > logChunk
Payload(b) == IF More(b) THEN SubSeq(b, 1, logChunk) ELSE b

Rest(b) == IF More(b) THEN SubSeq(b, logChunk + 1, Len(b)) ELSE << >>

handleLogsRequest(b) == logBuffer' = [logBuffer EXCEPT ![current] = Rest(b)]

\* getLogMessages returns l, and main goes on to the next device.
Fetched(l) == /\ asked' = asked + 1 /\ log' = l
              /\ continue' = FALSE /\ got' = << >>

\* for rsp.More
FinishedNever(b) == FALSE
Finished(b) == ~More(b)

\* d.u2f.Command(cmd, rb) and the rest of the loop body
getLogMessages ==
  /\ Asks /\ cmd = "logs" /\ current \in open
  /\ \E b \in Buffers :
       /\ handleLogsRequest(b)
       /\ \/ Finished(b) /\ Fetched(got \o Payload(b))
          \/ ~Finished(b) /\ got' = got \o Payload(b) /\ continue' = TRUE
             /\ UNCHANGED <<asked, log>>
  /\ UNCHANGED <<plugged, open, pc, cmd, path, found, devs, shown, garbled, changed>>

\* The command fails, before or after the device has handled it.
FetchFails ==
  /\ Asks /\ cmd = "logs"
  /\ \/ UNCHANGED logBuffer
     \/ current \in open /\ \E b \in Buffers : handleLogsRequest(b)
  /\ Fetched(<< >>)
  /\ UNCHANGED <<plugged, open, pc, cmd, path, found, devs, shown, garbled, changed>>

Next == \/ \E e \in Device : Plug(e) \/ Unplug(e)
        \/ \E c \in Cmd, p \in Device \cup {NoPath} : Run(c, p)
        \/ detect \/ DetectFails
        \/ HabStatus \/ HabStatusFails
        \/ \E yes \in BOOLEAN : Confirm(yes)
        \/ hab \/ cfg
        \/ StatusAnswered \/ StatusFails
        \/ getLogMessages \/ FetchFails
        \/ Finish

Spec == Init /\ [][Next]_vars

\* The tool asks on.  A device that is there answers in the end, and a command to
\* one that is not fails.
Answer == StatusAnswered \/ getLogMessages \/ Finish
NoAnswer == Asks /\ current \notin open /\ (StatusFails \/ FetchFails)
FairSpec == Spec /\ WF_vars(Answer) /\ WF_vars(NoAnswer)
-----------------------------------------------------------------------------
Unit == [dev: Device, snap: 0..1, at: 1..MaxLen, of: 1..MaxLen]

TypeOK == /\ plugged \subseteq Device /\ open \subseteq plugged
          /\ pc \in Ended \cup {"detect", "status", "confirm", "hab", "each", "cfg"}
          /\ cmd \in Cmd /\ path \in Device \cup {NoPath}
          /\ found \subseteq Device /\ devs \in Seq(Device)
          /\ Len(devs) <= Cardinality(Device) /\ asked \in 0..Len(devs)
          /\ pc \in {"status", "confirm", "hab", "each", "cfg"} => devs # << >>
          /\ shown \subseteq Device /\ garbled \subseteq Device /\ changed \subseteq Device
          /\ logBuffer \in [Device -> Seq(Unit)]
          /\ continue \in BOOLEAN /\ got \in Seq(Unit) /\ log \in Seq(Unit)

\* What -d guarantees.  If the device it names was found, no other one is configured
\* or fused, however many are plugged in and however they come and go meanwhile.  If
\* it was not, or none was named, a configuration only goes to the only device found:
\* with several, main refuses to choose.
ActsOnNamedIfFound ==
  \A e \in changed : IF path \in found THEN e = path ELSE cmd = "cfg" => found = {e}

\* What the flag's help says of -d, "HID path of witness device to act upon": no
\* other device than the one named is configured or fused.  detect falls through
\* to all the devices when the one named is not among them.
ActsOnNamed == path # NoPath => changed \subseteq {path}

\* The device that is fused, which cannot be undone, is the one the question was
\* about, although several devices may be plugged in and the tool keeps one of them
\* across the question: its SRK hash was shown before, unless its status did not
\* decode, after which main asks all the same.
FusedAsShown == cmd = "hab" => changed \subseteq shown \cup garbled

\* A log that was fetched without an error is one complete stream, of one snapshot
\* of the device it is printed for, although earlier fetches from that device may
\* have been abandoned halfway and left the rest of their snapshot in it.
WholeLog == log # << >> => log = [i \in 1 .. log[1].of |->
              [dev |-> devs[asked], snap |-> log[1].snap, at |-> i, of |-> log[1].of]]

\* A run that asks the devices one after the other ends, however large their logs,
\* however often fetches were abandoned and whichever devices are pulled out.
RunsEnd == pc = "each" ~> pc # "each"
=============================================================================
