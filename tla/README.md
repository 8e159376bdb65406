# A TLA+ verification of the Armored Witness OS

The Armored Witness OS is a TamaGo unikernel that runs in the secure world of a
USB armory Mk II. It loads one *Trusted Applet*, confines it, serves its RPCs,
keeps its firmware and rollback state on the eMMC, and answers a control tool
(`witnessctl`) over USB HID. This directory models the parts of it that keep
state, model-checks them with TLC and proves the most important of their
properties with TLAPS. `PROJECT.json` maps each definition to the lines it
translates, and lists runs, hazards, findings and theorems.

    tlc -workers 2 -config MCDevice_boot.cfg MCDevice         # a run
    tlapm DeviceProofs.tla                                    # proofs

## 1. Inventory

| part | state | operations | what is hard |
|---|---|---|---|
| RPMB driver (`rpmb/`) | mutex; on the card: key, write counter, sectors, result register, response buffer | `Init`, `ProgramKey`, `Counter`, `Read`, `Write`, all through `op` | requests lost or failing after delivery, replayed frames, a counter read and a write in two critical sections |
| Rollback protection (`trusted_os/rpmb.go`, `rpmb_fake.go`) | OTP bit, key, version epochs of OS and applet | `init`, `checkVersion`, `updateVersion`, `transfer` | power loss between OTP bit, key and epoch; failed transfers |
| Firmware update (`flash.go`, `rpc.go`) | two slots and one configuration per type, firmware buffers, loaded slots | `InstallOS`, `InstallApplet`, `flashFirmware`, `read`, `determineLoadedOSBlock` | power loss and write errors at any block, retries in one boot, stale cached slot |
| Applet life cycle (`main.go`, `load.go`, `handler.go`, `ctl.go`) | contexts, `RPC.Ctx`, `RPC.Cfg`, event handler, FIQ routing, watchdog | load, run, stop, reload, `fiqHandler`, `Config` (RPC and control), `InstallOS`, `Reboot` | two goroutines that restart the same applet, an RPC that waits for itself, a wedged applet |
| HAB activation (`internal/hab`) | OTP fuses | `Activate` | irreversible steps, any of which may fail or be the last before power loss |
| Network (`net.go`) | receive ring, `rxQueue`, `txQueue` | interrupt handlers, `RX`, `TX`, `nic.Tx` | lost interrupts, overflow, blocking in a handler, an applet that ends with frames queued |
| Console and crash logs (`log.go`, `debug.go`, `flash.go`) | line buffer, ring buffer, blocks of the crash log | `bufferedStdoutLog`, `printk`, `storeAppletCrashLog`, `retrieveLastCrashLog` | limits, a shorter log over a longer one, torn stores |
| Log transfer (`ctl.go`, `witnessctl/api.go`) | `logBuffer` | `handleLogsRequest`, `getLogMessages` | abandoned fetches, a log that grows |
| `witnessctl` | detected devices | `-s -l -L -H`, configuration | devices that come and go between detection and use |

They interact as follows. `main` initialises the rollback protection on top of
the RPMB driver, checks the version of the OS, finds out which slot it was
loaded from, reads and verifies the applet and runs it in a loop, storing the
crash log each time it ends. The applet's RPCs check its version (rollback),
install firmware (update, then a reboot), set the network configuration (which
starts the network) and activate HAB. The control interface, in a goroutine of
its own, changes the configuration and restarts the applet, activates HAB and
hands out logs.

Not modelled: the wake handlers in `handler.s` (they edit the Go runtime's
queues by offset, so their correctness is about a runtime that is not in the
repository), memory layout and BEE set-up, USB descriptors, generated protocol
code, LEDs and status formatting, symbol lookup in `debug.go`, and
`cmd/proofbundle`, a batch file converter. Partly modelled are the RPC server and
the control endpoint (calls that only report values are left out), start-up (clock,
board detection) and the fake card (its bounds checks). The applet's `WriteBlocks`
is left out too: the RPC takes any LBA (`rpc.go:146`), and nothing in the OS keeps
the applet away from slots, configurations and crash log. What is said of these
assumes an applet that writes its blocks elsewhere.

## 2. Modules

| module | models | refines / extends |
|---|---|---|
| `AuthMemory` | what package `rpmb` promises its callers: sectors, each read and write taking effect at one point or failing | abstract specification |
| `RPMB` | the driver, card and transport | implements `AuthMemory` |
| `Rollback` | rollback protection on the real and the fake RPMB, and the boot checks | uses the outcomes `AuthMemory` allows |
| `FirmwareStore` | what updates promise: the device boots what was installed last, and an update takes effect at one instant | abstract specification |
| `FirmwareUpdate` | slots, configurations, chunked updates, boot | implements `FirmwareStore` |
| `Device` | updates and boots of images that carry versions | extends `Rollback`, instantiates `FirmwareStore`; implements `Rollback` |
| `Applet` | applet life cycle, watchdog, control updates | |
| `HAB` | fusing procedure | |
| `Network` | reception and transmission, Ethernet and USB | |
| `ConsoleLog` | console and crash logs | |
| `WitnessCtl` | choice of devices by the tool, log transfer to it | |
| `RPMBProofs`, `DeviceProofs` (also about `Rollback`), `FirmwareUpdateProofs`, `NetworkProofs`, `HABProofs`, `AppletProofs`, `ConsoleLogProofs`, `WitnessCtlProofs` | theorems | extend their component |
| `MC*` | instances for TLC | extend their component |

State and actions carry the names of the code where TLA+ allows it. Names in
capitals followed by a suffix, such as `FlushesAlways` next to `Flushes`, are
variants with a plausible mistake in them; each property of each passing run is
violated when its variant takes the place of the definition.

**RPMB.** An action is one bus transfer, so other goroutines run between a
request and its response unless the mutex prevents it; `Write` reads the counter
in one `op` and writes in another. The card follows JESD84-B51 as the driver
relies on it. The transport returns an error with the request delivered or not,
loses requests silently (`SilentLoss`) or also delivers recorded write frames
again (`Replays`); which of these, and which goroutines call the driver, is chosen
initially (`transport`, `callers`). A MAC is a flag. A nonce is fresh if it differs from the one in the
card's response buffer.

**Rollback.** Versions are numbers. The boot sequence is one action per
persistent effect, so that power can fail between any two. A transfer fails with
or without effect. `Long` are versions whose encoding does not fit the buffer
it is read into. The build with the fake RPMB is chosen initially (`fake`): its
memory is lost with the power, its transfers succeed unless they are too long,
and its `expectedVersion`, which takes a whole sector for the version string,
never parses.

**Device.** What the next boot starts is the `installed` of `FirmwareStore`; the
version that `main` and `RPC.Version` check is that of the image. An update is
one step, which `FirmwareUpdate` justifies by implementing `FirmwareStore`. It
asks the verifier and, like the code, looks at no version. Images may also be
written while the OS is not running (`Provision`). The history variable `origin`
tells updates made by an accepted image to a version that is not older.

**FirmwareUpdate.** An image is `N` pieces, of which an RPC appends one (or none, if
it only brings the proof) and a `WriteBlocks` writes one. A verification succeeds exactly for the pieces of a
logged image in order. A piece may fail to be written, wholly or partly, at any
time. The card may also damage a configuration: tear its write, report an error
for one that was written, or fail to read it at boot. Such faults are counted
(`faults`, at most `MaxFaults`), since the code keeps no second copy. `loaded` is the
slot the OS believes it was, or the applet was, loaded from; the history variable
`from` is the slot that was really used. They differ when the OS configuration
could not be read after the boot loader had used it.

**Applet.** Whether the applet is embedded or on storage is chosen initially
(`embedded`) and never changes. A context alternates between the applet and its handler and looks at
its stop flag in between. RPCs and system calls are the applet's steps, in any
order; it may crash or wedge at any time, and configure the OS with an empty
configuration. Of the exceptions it may raise, FIQs and system calls are modelled;
any other ends the OS with `log.Fatalf` (`handler.go:141`). The closing of `Done()`
and the rest of `run` are one step. Time is abstract: the watchdog warns
at any time and resets the device only if nothing is left to service it.

**HAB.** One action per `fuse` call, with four outcomes: done, read back wrong,
blown in part, not read.

**Network.** The kind of controller is chosen initially (`usb`). It receives while
the interrupt handler runs, which is one action per frame and, on LAN models, one
per clearing of the interrupt; on USB models `USB.ServiceInterrupts` is taken to
have called `nic.Rx` for every frame by the time it returns. `nic.Tx` is called
when the USB host asks for a frame, at any time or never. A TX that finds
`txQueue` full blocks with FIQs masked, until then or until the watchdog resets
the device; frames queued then are lost, and `sent` starts again at what the applet
had sent. A
wake of an event handler whose instance has ended has no effect in the model.

**ConsoleLog.** A byte has a number and a kind, a line of the OS is one item. The
ring buffer refuses bytes when full. A store writes block by block and may stop.

**WitnessCtl.** One action per command to a device; an unplugged device's handle
is dead. A compressed log is a sequence of units that name their device,
snapshot and place; a fetch is a command per chunk, any of which may fail. The
history variable `found` keeps the devices `detect` has found, of which `devs` are
those the run goes on with; `shown` and `garbled` keep the device whose status was
fetched before the confirmation of `-H`, and decoded or did not. A status command
that fails ends `-H` in a nil dereference.

## 3. Runs

Passing runs; every action of every module is taken in one of them.

| run | checks | shows |
|---|---|---|
| `MCRPMB_driver` | `TypeOK`, `StaleFramesDead`, `MutexHeldInOp`, `AckedWriteStored`, `ReadFresh`, `ImplementsAuthMemory` | one and two goroutines over a transport that reports its errors and one that loses requests silently, one goroutine over one that also replays writes: a nil error means the transfer was done, no response is stale or another caller's, the dummy write of `Init` invalidates frames recorded before power on, and no path keeps the mutex |
| `MCDevice_boot` | `DTypeOK`, `NoRollback`, `HaltsForAReason`, `ForwardUpdatesLaunch`, `EpochsMonotone` | over updates, provisioning, boots and power loss no older OS comes up and no older applet is accepted (it runs until it has reported its version), the OS does not halt without a reason, and no update to a version not older than the accepted one that installs it is refused |
| `MCFirmwareUpdate_slots` | `TypeOK`, `AlwaysBootable`, `RunningSlotUntouched`, `ImplementsFirmwareStore` | with power loss or a write error at any point an update is atomic, until a configuration itself is damaged; the slot of running firmware is not written even then, except by an OS in slot A that could not read its configuration at boot |
| `MCApplet_life` | `TypeOK`, `OneInstance`, `FIQsWhileLoaded`, `NetworkStarted`, `InstallReboots`, `WedgedAppletEnds`, `ControlAnswers` | instances, interrupt routing and network start under restarts from two sides; nothing waits for ever |
| `MCHAB_fuse` | `TypeOK`, `ClosedWithKey`, `NilMeansComplete` | a device is closed only with a complete, locked hash |
| `MCNetwork_queues` | `TypeOK`, `InOrder`, `NoInterruptStorm`, `NoLostInterrupt`, `SentInOrder`, `FramesLeave` | both directions on both controllers, under overflow, races with the handler, blocked transmissions and restarts of the applet |
| `MCConsoleLog_crash` | `TypeOK`, `EveryByteOnce`, `LinesUnbroken`, `CrashLogReturned` | lines stay whole, the crash log comes back as stored |
| `MCWitnessCtl_runs` | `TypeOK`, `ActsOnNamedIfFound`, `FusedAsShown`, `WholeLog`, `RunsEnd` | if the named device is found no other is changed, and without it only the one device found is configured; only a device whose status was fetched is fused; a log that is printed is one whole snapshot |

Runs in which a statement of the repository's own comments or documents is
violated by what the code does. The details are in `PROJECT.json`, "findings".

| run | statement | what happens |
|---|---|---|
| `MCRollback_transfer` | `WriteRPMB` performs the transfer | with `n`, a failed one returns nil |
| `MCDevice_older` | `updateOS` verifies that, as far as it can tell, the next boot would launch the update | an older OS that is logged is installed, and the version check of the next boot halts it |
| `MCApplet_two` | a configuration exchange terminates the existing instance for re-initialisation | an embedded applet is then loaded twice |
| `MCWitnessCtl_named` | `-d` is the device to act upon, the tool limits itself to just that one | if it is not found, the only other device is configured |

Other places where the code differs from a comment or a document are part of the
models, and the properties say what they except:

| where | what happens | in the model |
|---|---|---|
| `rpmb.go:139` | the OTP bit that indicates key programming is blown first, and power may fail before the key is programmed | a reason in `HaltsForAReason` |
| `rpmb_fake.go:63` | the fake's stored version never parses, so a closed device with a fake RPMB halts at boot | a reason in `HaltsForAReason` (`Decodes`) |
| `rpmb.go:163` | a version longer than `versionLength` is written in full and read in part | `Long`; a reason in `HaltsForAReason` |
| `rpmb.go:232` | `n` is not set after a successful transfer | not told apart |
| `flash.go:336`, `:293`, `main.go:182` | a configuration torn, written with an error reported, or unreadable at boot leads to an unbootable device, at once or by the next update | `faults`, excepted from `AlwaysBootable`; the `Damage` of `FirmwareStore`; the exception of `RunningSlotUntouched` |
| `main.go:227` | a failed verification of the applet is only logged | `Unverified` in `Started` |
| `ctl.go:117`, `rpc.go:76` | the instance being stopped may overwrite an update of the configuration | steps of `Applet`; no property |
| `handler.go:104` | frames queued before an instance has registered its event handler wait for the next interrupt; an interrupt may wake the handler of the previous instance | `late`, excepted from `NoLostInterrupt` and `FramesLeave`; the stale wake has no effect |
| `flash.go:364` | an empty crash log comes back as NUL bytes | said by `CrashLogReturned` |
| `witnessctl.go:130` | a status that does not decode is logged as a failure, and `-H` goes on to the confirmation | `garbled`, allowed by `FusedAsShown` |

**Bounds.** RPMB: two callers are enough for every race over the counter and
the response buffer, since each involves one call and one interfering call; two
sectors tell the dummy block from data; a counter limit of 2 is reached.
Device: three versions allow an accepted one with an older and a newer one, and
one image whose version does not parse; `Long = {3}` puts the undecodable version
above them (`MCDevice_older` has none). FirmwareUpdate: two images
of two pieces give wrong order, truncation, mixture and replacement; the buffers hold three pieces
together, a whole image and the beginning of another; one fault is enough for
each kind of damage to be followed by any updates and boots. Applet: three
contexts, so that an instance, its successor and one still referred to coexist. HAB: hashes that are disjoint, overlapping and
contained in each other. Network: ring 3, queues of 2,
8 frames in and 4 out overflow each several times; two applets end and a third runs on. ConsoleLog: a ring of 4 bytes, a line limit of 1; logs shorter
than, as long as and longer than the area. WitnessCtl: two devices, one named, absent or
neither; logs of less than a chunk, whole chunks, and up to two chunks and a rest.
Symmetry is used for callers and nonces of the RPMB driver, whose run has no liveness properties.

**Fairness.** Applet: the OS's
goroutines run, a context looks at its stop flag each time its handler
returns, and watchdog and interrupts are hardware; nothing is assumed of the
applet. Network: a pending interrupt is taken, an applet that ended is loaded
again, its event handler, once awake, makes its system calls, and the watchdog
bites; nothing is assumed of the USB host. WitnessCtl: a device that is there
answers in the end, and a command to one that is not fails. Deadlock checking is off only where the system may really stop:
`MCNetwork_queues` (no more frames) and `MCFirmwareUpdate_slots` (a device
without a readable OS configuration stays down).

## 4. Proofs

All theorems hold for every value of the constants that the `ASSUME`s of the
component's module allow, and assume nothing else. Each proof is one inductive
invariant, one step per action. Every safety property that a run checks is proved,
as an invariant, an action property or a refinement.

* **RPMBProofs.** `TypeCorrect`, `MutexReleased` and `DummyWriteInvalidates`
  (`Spec => []StaleFramesDead`) for any callers and any transport, replays included.
  `StaleFramesDead` is not inductive: what rules out an early `Init` is that its
  write was answered. `IInv` adds `CountersBounded` (no recorded or pending
  frame carries a counter above the card's), `WriteResponses` (a successful
  result was produced by a write that moved the counter), `ReadSincePowerOn`
  (a counter in use was read since power on, so it is not below a stale
  frame's) and `MacsNeedKey` (an authenticated response comes from a card with a
  key).
  What holds without replays rests on a second invariant, `LInv`: whoever is
  between request and response has the mutex, and its frame is made from its call
  (`FrameOfCall`); a response with the nonce of a request is the answer to it, also
  where requests are lost, since the nonce was not in the card before (`Fresh`); and
  no register names the successor of a write frame's counter unless the card took
  that frame (`Stored`). The last needs `Exclusive`, that errors are reported or that
  there is one caller: a caller without competition sends the card's own counter
  (`Current`), whose successor no earlier answer can carry. `ReadsFresh` follows for
  any number of callers, and `WritesStored`, which names `Exclusive` as its condition. `Refinement`: a call counts
  as applied from the step at which the card takes its frame until it returns, and
  `LInv` makes every step one of `AuthMemory` or none.
* **DeviceProofs.** First about `Rollback` alone: `TypeCorrect`, `RollbackPrevented`,
  `HaltsJustified` and `EpochsGrow`. `NoRollback` compares the running version with
  the newest one accepted in the past; `IInv` connects both with the stored epoch:
  the newest accepted version is at most the epoch (`Stored`), what runs and was
  accepted equals it (`Accepted`), the applet starts only after the OS is up
  (`AppletLate`), and a key implies the OTP bit (`KeyAfterFlag`). Then
  `DeviceImplementsRollback` (`DSpec => Spec`) carries the
  theorems above over to the device: `DeviceNoRollback`,
  `DeviceHaltsJustified`, `DeviceEpochsGrow`. `ForwardUpdates` needs more: that
  what runs has the version of what is installed (`Versions`), that an open
  device has stored nothing (`NoneStored`), and that an update made by accepted
  firmware stays at or above the stored version (`Above`).
* **FirmwareUpdateProofs.** Whatever the card does: `TypeCorrect` and
  `RunningSlotSafe`, from `FInv`: a running job holds a verified image and targets the
  slot that follows from what the OS read at boot, and that is the slot firmware was
  started from, or nothing for an OS that could not read it (`SlotRead`). Until the card first damages a
  configuration: `UpdatesKeepBootable` and `ConfiguredSlotSafe`. Neither is
  inductive: `IInv` adds to `FInv` that, while `faults = 0`, the loaded slot
  is the configured one until an update is complete (`SlotsKnown`) and the pieces
  flashed so far are those of the job's image, in the other slot (`JobSound`).
  `Refinement` maps the state to `FirmwareStore`: writing a configuration is its
  `Install`, the first fault its `Damage`, and every other step of an update
  leaves it alone.
* **NetworkProofs.** `TypeCorrect`, `InterruptsKept`, `InterruptsEnd`,
  `Transmission` and `Reception` for any sizes. `IInv` adds that FIQs are masked
  from the wake of the event handler until it asks for them
  (`MaskedWhileAwake`), so the interrupt handler never fills `rxQueue` behind its
  last RX call, and that on LAN models the interrupt is pending with an empty
  ring only between fetching a frame and clearing (`PendingHasFrame`).
* **HABProofs.** `TypeCorrect`, `KeyBeforeClosing`, `ActivationComplete` for any
  number of callers and any hashes. `IInv`: the fuses before the next one of a
  running activation are blown (`Blown`), and, unless `mixed`, callers that run at
  once pass the same hash (`Same`), past the first fuse it is the one in
  `SRK_HASH` (`Fused`), and a locked hash is a whole one (`Locked`).
* **AppletProofs.** `TypeCorrect`, `SingleInstance`, `FIQRouting`,
  `NetworkStarts` for any number of contexts. `IInv`: whoever stops the applet has
  a context to stop (`HasCtx`), and an applet read from storage runs in the main
  loop's context only, with FIQs routed to it while it does (`MainOnly`).

* **ConsoleLogProofs.** `TypeCorrect`, `BytesKept`, `LinesWhole` and `CrashLogKept`
  for any limit on lines and any sizes of blocks and logs. `EveryByteOnce` is about
  ring buffer and line buffer together; `IInv` says of each what it holds: the line
  buffer the last bytes, none of which ends a line (`Held`), the ring buffer, while it
  has room, all the others in order (`Flushed`). `LinesUnbroken` needs to know how the
  ring buffer may end before the OS prints: inside a line only after `outputLimit`
  bytes of it (`EndsLong`). `CrashLogReturned` needs that the blocks of the card, read
  one after the other, are the stored log padded to the area (`OnCard`), which rests on
  lemmas about block arithmetic and the first NUL byte.
* **WitnessCtlProofs.** `TypeCorrect`, `NamedDeviceOnly`, `FusesShown` and `LogsWhole`
  for any number of devices and any sizes of logs and responses. What a command goes
  to is settled steps before it is sent: by `detect`, or by the status fetched
  (`Settled`). For `WholeLog`, a device always holds the rest of one stream
  (`Buffered`), a fetch from a device that is still there continues the stream whose
  beginning the tool has got (`Fetching`), and so what is printed is a whole one
  (`Printed`). A stream is described by its units as a function of their place
  (`Units`), and lemmas say what taking a chunk from it and appending one give; no
  induction over its length is needed.

Only model-checked: liveness and fairness (`InstallReboots`, `WedgedAppletEnds`,
`ControlAnswers`, `FramesLeave`, `RunsEnd`), which are out of
the prover's reach.

## 5. Limits of the claims

* `AckedWriteStored` and `ReadFresh` are claimed without replays; `AckedWriteStored` and
  the refinement with concurrent callers only without silent loss: a lost write can
  otherwise be answered with the result of another caller's write of the same counter.
* `ForwardUpdatesLaunch` is about versions: a hardware failure, a stored version
  that does not decode, or an OTP bit without a key are excepted (`Excused`).
* `WholeLog` is claimed for one run of the tool at a time: `logBuffer` is shared.
* `ClosedWithKey` excepts two activations at once with different hashes (`mixed`).
* `OneInstance`, `FIQsWhileLoaded` and the liveness of `Applet` are claimed for
  applets on storage; `MCApplet_two` shows why.
* Bootability and atomic updates are claimed until a configuration is damaged
  (`faults = 0`). After that only `RunningSlotUntouched` is left, with its exception:
  an OS update made after the OS configuration could not be read at boot goes to slot
  A, and if the OS runs from there a power loss while it is flashed leaves none.
* Slots, configurations and crash log are written only by the OS: the applet's
  `WriteBlocks`, which could reach them, is not modelled.
* `NoRollback` is about an OS that is up and an applet that is accepted: an older
  applet runs until it calls `RPC.Version`.
* `NetworkStarted` excepts a control update that fills the configuration before the
  applet's first `Config`: the network is then not started.
* `InstallReboots` relies on the watchdog, since `InstallOS` waits for the
  context it runs in.
* `NoLostInterrupt` and `FramesLeave` except frames queued before an instance has
  its event handler ready (`late`).
* Not about contents: cryptography, gob and proto encodings, timing.

## 6. What is left

* The bounds of the fake card and of the RPCs that read and write blocks, and the
  padding in `flash`: arithmetic on sizes that no other state depends on.
* A configuration update that the instance being stopped overwrites
  (`ctl.go:117`), and two tools that fetch logs at once (`ctl.go:181`): the code
  makes no promise to check.
