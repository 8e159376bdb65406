---------------------------- MODULE AppletProofs ----------------------------
(***************************************************************************)
(* The safety properties of the applet's life for any number of contexts   *)
(* and configurations.                                                     *)
(***************************************************************************)
EXTENDS Applet, TLAPS

(***************************************************************************)
(* The inductive invariant.  Whoever stops the applet has a context to     *)
(* stop (HasCtx); an applet read from storage runs in the main loop's      *)
(* context only, and FIQs are routed to it while it does (MainOnly).       *)
(***************************************************************************)
HasCtx == /\ Loaded # {} => ctx \in Ctx
          /\ ctl \in {"stop", "wait"} => ctx \in Ctx
MainOnly == ~embedded => /\ ctlCtx = NoCtx
                         /\ Loaded = {mainCtx} \ {NoCtx}
                         /\ main = "run" <=> mainCtx \in Ctx
                         /\ fiqEn <=> mainCtx \in Ctx

IInv == TypeOK /\ HasCtx /\ MainOnly /\ NetworkStarted

\* Loading into an unused context makes it the current one.
LEMMA LoadFacts ==
  ASSUME TypeOK, NEW c \in Ctx, loadApplet(c)
  PROVE  /\ ctx' = c /\ Loaded' = Loaded \cup {c} /\ c \notin Loaded
         /\ fiqEn' = TRUE /\ wdog' = "armed"
         /\ mode' \in [Ctx -> {"user", "install", "tx", "done"}]
         /\ stop' \subseteq Ctx
         /\ UNCHANGED <<embedded, power, wedged, masked, handler, cfg, net, early>>
<1>1. /\ mode \in [Ctx -> {"user", "install", "tx", "done"}]
      /\ mode' = [mode EXCEPT ![c] = "user"] /\ mode[c] = "done"
  BY DEF loadApplet, Unused, TypeOK
<1>2. Loaded' = Loaded \cup {c} /\ c \notin Loaded
  BY <1>1 DEF Loaded
<1> QED
  BY <1>1, <1>2 DEF loadApplet, RouteFIQs, TypeOK

\* When a context ends, it is loaded no more and its goroutine goes on.
LEMMA ReturnFacts ==
  ASSUME TypeOK, NEW c \in Ctx, RunReturns(c)
  PROVE  /\ Loaded' = Loaded \ {c}
         /\ mode' \in [Ctx -> {"user", "install", "tx", "done"}]
<1>1. /\ mode \in [Ctx -> {"user", "install", "tx", "done"}]
      /\ mode' = [mode EXCEPT ![c] = "done"]
  BY DEF RunReturns, TypeOK
<1> QED
  BY <1>1 DEF Loaded

\* A blocked or resumed handler leaves the set of loaded contexts as it was.
LEMMA SameLoaded ==
  ASSUME TypeOK, NEW c \in Ctx, NEW m \in {"user", "install", "tx"}, mode[c] # "done",
         mode' = [mode EXCEPT ![c] = m]
  PROVE  /\ Loaded' = Loaded /\ c \in Loaded
         /\ mode' \in [Ctx -> {"user", "install", "tx", "done"}]
<1>1. mode \in [Ctx -> {"user", "install", "tx", "done"}]
  BY DEF TypeOK
<1> QED
  BY <1>1 DEF Loaded

\* The initial state.
LEMMA InitInv == Init => IInv
<1> SUFFICES ASSUME Init PROVE IInv
  OBVIOUS
<1>1. TypeOK
  BY Zenon DEF Init, TypeOK
<1>2. Loaded = {} /\ ctx = NoCtx /\ ctl = "idle"
  BY DEF Init, Loaded
<1> QED
  BY <1>1, <1>2, ConstantAssumption DEF Init, IInv, HasCtx, MainOnly, NetworkStarted

\* The state after a reset.
LEMMA ResetInv ==
  ASSUME IInv, Reset
  PROVE  IInv'
<1>1. TypeOK'
  BY Zenon DEF Reset, IInv, TypeOK
<1>2. Loaded' = {} /\ ctl' = "idle" /\ mainCtx' = NoCtx /\ ctlCtx' = NoCtx
  BY DEF Reset, Loaded
<1> QED
  BY <1>1, <1>2, ConstantAssumption DEF Reset, IInv, HasCtx, MainOnly, NetworkStarted

\* main() and the control interface.
LEMMA OSStep ==
  ASSUME IInv, \/ MainLoad \/ MainStore \/ CtlStop \/ CtlDone
               \/ \E req \in Config : CtlConfig(req)
               \/ Warn \/ isr \/ Timeout \/ Reboot
  PROVE  IInv'
<1> USE ConstantAssumption DEF IInv
<1>1. CASE MainLoad
  <2> PICK c \in Ctx : loadApplet(c) /\ mainCtx' = c
    BY <1>1 DEF MainLoad
  <2>1. /\ ctx' = c /\ Loaded' = Loaded \cup {c} /\ fiqEn' = TRUE /\ wdog' = "armed"
        /\ mode' \in [Ctx -> {"user", "install", "tx", "done"}]
        /\ stop' \subseteq Ctx
        /\ UNCHANGED <<embedded, power, wedged, masked, handler, cfg, net, early>>
    BY Zenon, LoadFacts
  <2>2. main = "load" /\ main' = "run" /\ UNCHANGED <<ctl, ctlCtx, await>>
    BY <1>1 DEF MainLoad
  <2>3. TypeOK'
    BY <2>1, <2>2 DEF TypeOK
  <2>4. ~embedded => Loaded = {}
    BY <2>2 DEF MainOnly, TypeOK
  <2> QED
    BY <2>1, <2>2, <2>3, <2>4 DEF HasCtx, MainOnly, NetworkStarted
<1>2. CASE MainStore \/ Warn \/ isr
  <2>1. TypeOK' /\ Loaded' = Loaded
    BY <1>2 DEF MainStore, Warn, isr, contexts, interrupts, config, goroutines, TypeOK, Loaded
  <2> QED
    BY <1>2, <2>1 DEF MainStore, Warn, isr, contexts, interrupts, config, goroutines, HasCtx,
       MainOnly, NetworkStarted
<1>3. CASE CtlStop
  <2>1. TypeOK' /\ Loaded' = Loaded
    BY <1>3 DEF CtlStop, Stop, interrupts, config, TypeOK, HasCtx, Loaded
  <2> QED
    BY <1>3, <2>1 DEF CtlStop, interrupts, config, HasCtx, MainOnly, NetworkStarted
<1>4. CASE CtlDone
  <2>1. CASE \E c \in Ctx : CtlLoad(c)
    <3> PICK c \in Ctx : CtlLoad(c)
      BY <2>1
    <3>1. /\ ctx' = c /\ Loaded' = Loaded \cup {c} /\ fiqEn' = TRUE /\ wdog' = "armed"
          /\ mode' \in [Ctx -> {"user", "install", "tx", "done"}]
          /\ stop' \subseteq Ctx
          /\ UNCHANGED <<embedded, power, wedged, masked, handler, cfg, net, early>>
      BY Zenon, LoadFacts DEF CtlLoad
    <3>2. /\ embedded /\ ctlCtx' = c /\ ctl' = "run" /\ UNCHANGED <<main, mainCtx>>
          /\ await' = [await EXCEPT ![NoCtx] = NoCtx]
      BY <1>4 DEF CtlLoad, CtlDone
    <3>3. TypeOK'
      BY <3>1, <3>2 DEF TypeOK
    <3> QED
      BY <3>1, <3>2, <3>3 DEF HasCtx, MainOnly, NetworkStarted
  <2>2. CASE /\ ctl' = "idle"
             /\ UNCHANGED <<embedded, power, ctlCtx, ctx, mode, stop, wedged, interrupts, config>>
    <3>1. TypeOK' /\ Loaded' = Loaded
      BY <1>4, <2>2 DEF CtlDone, interrupts, config, TypeOK, Loaded
    <3> QED
      BY <1>4, <2>2, <3>1 DEF CtlDone, interrupts, config, HasCtx, MainOnly, NetworkStarted
  <2> QED
    BY <1>4, <2>1, <2>2 DEF CtlDone
<1>5. CASE \E req \in Config : CtlConfig(req)
  <2> PICK req \in Config : CtlConfig(req)
    BY <1>5
  <2>1. TypeOK' /\ Loaded' = Loaded
    BY DEF CtlConfig, contexts, interrupts, TypeOK, Loaded
  <2> QED
    BY Zenon, <2>1 DEF CtlConfig, NoApplet, contexts, interrupts, HasCtx, MainOnly, NetworkStarted, TypeOK
<1>6. CASE Timeout
  BY <1>6, ResetInv DEF Timeout
<1>7. CASE Reboot
  <2>1. TypeOK' /\ Loaded' = Loaded
    BY <1>7 DEF Reboot, goroutines, contexts, interrupts, config, TypeOK, Loaded
  <2> QED
    BY <1>7, <2>1 DEF Reboot, goroutines, contexts, interrupts, config, HasCtx, MainOnly,
       NetworkStarted
<1> QED
  BY <1>1, <1>2, <1>3, <1>4, <1>5, <1>6, <1>7

\* The applet, its calls and the interrupts taken while it runs.
LEMMA AppletStepInv ==
  ASSUME IInv, NEW c \in Ctx, AppletStep(c)
  PROVE  IInv'
<1> USE ConstantAssumption DEF IInv
<1>1. CASE StopActioned(c) \/ Exit(c)
  <2>1. RunReturns(c) /\ mode[c] = "user"
    BY <1>1 DEF StopActioned, Exit, Live
  <2>2. /\ Loaded' = Loaded \ {c} /\ c \in Loaded
        /\ mode' \in [Ctx -> {"user", "install", "tx", "done"}]
    BY <2>1, ReturnFacts DEF Loaded
  <2>3. TypeOK'
    <3>1. /\ main' \in {"store", main} /\ ctl' \in {"idle", ctl}
          /\ mainCtx' \in {NoCtx, mainCtx} /\ ctlCtx' \in {NoCtx, ctlCtx}
          /\ fiqEn' = FALSE
          /\ stop' \subseteq stop /\ wedged' \subseteq wedged /\ masked' \subseteq masked
          /\ UNCHANGED <<embedded, power, ctx, await, handler, wdog, cfg, net, early>>
      BY <2>1 DEF RunReturns, RestoreRouting
    <3>2. /\ main' \in {"load", "run", "store"} /\ ctl' \in {"idle", "stop", "wait", "run"}
          /\ {mainCtx', ctlCtx', ctx', handler'} \subseteq Ctx \cup {NoCtx}
      BY <3>1 DEF TypeOK
    <3>3. stop' \subseteq Ctx /\ wedged' \subseteq Ctx /\ masked' \subseteq Ctx
      BY <3>1 DEF TypeOK
    <3> QED
      BY Zenon, <2>2, <3>1, <3>2, <3>3 DEF TypeOK
  <2>4. HasCtx'
    BY <2>1, <2>2 DEF RunReturns, HasCtx
  <2>5. MainOnly'
    <3>1. ~embedded => c = mainCtx /\ Loaded' = {}
      BY <2>2 DEF MainOnly
    <3> QED
      BY <2>1, <3>1 DEF RunReturns, RestoreRouting, MainOnly
  <2> QED
    BY <2>1, <2>3, <2>4, <2>5 DEF RunReturns, NetworkStarted
<1>2. CASE Wedge(c) \/ Register(c) \/ UnmaskFIQ(c) \/ \E service \in BOOLEAN : fiqHandler(c, service)
  <2>1. /\ UNCHANGED <<embedded, power, goroutines, ctx, mode, stop, await, fiqEn, config>>
        /\ wedged' \subseteq Ctx /\ masked' \subseteq Ctx /\ handler' \in Ctx \cup {NoCtx}
        /\ wdog' \in {"off", "armed", "warned"}
    BY <1>2 DEF Wedge, Register, UnmaskFIQ, fiqHandler, MaskFIQ, contexts, interrupts, TypeOK
  <2>2. TypeOK' /\ Loaded' = Loaded
    BY <2>1 DEF goroutines, config, TypeOK, Loaded
  <2> QED
    BY <2>1, <2>2 DEF goroutines, config, HasCtx, MainOnly, NetworkStarted
<1>3. CASE \E current \in Config \cup {NoConfig} : RPCConfig(c, current)
  <2> PICK current \in Config \cup {NoConfig} : RPCConfig(c, current)
    BY <1>3
  <2>1. Loaded' = Loaded
    BY DEF RPCConfig, contexts, Loaded
  <2>2. net' \in BOOLEAN /\ early' \in BOOLEAN /\ NetworkStarted'
    BY Zenon DEF RPCConfig, StartsNetwork, NetworkStarted, TypeOK
  <2>3. TypeOK'
    BY <2>2 DEF RPCConfig, goroutines, contexts, interrupts, TypeOK
  <2> QED
    BY <2>1, <2>2, <2>3 DEF RPCConfig, goroutines, contexts, interrupts, HasCtx, MainOnly
<1>4. CASE TX(c) \/ asyncTx(c) \/ VersionRefused(c) \/ InstallOS(c)
  <2>1. mode[c] \in {"user", "tx"} /\ c \in Loaded
    BY <1>4 DEF TX, asyncTx, VersionRefused, InstallOS, Live, Loaded
  <2>2. \/ mode' = mode
        \/ \E m \in {"user", "install", "tx"} : mode' = [mode EXCEPT ![c] = m]
    BY <1>4 DEF TX, asyncTx, VersionRefused, InstallOS
  <2>3. Loaded' = Loaded /\ mode' \in [Ctx -> {"user", "install", "tx", "done"}]
    BY <2>1, <2>2, SameLoaded DEF TypeOK, Loaded
  <2>4. ctx \in Ctx
    BY <2>1 DEF HasCtx
  <2>5. /\ UNCHANGED <<embedded, power, goroutines, ctx, wedged, masked, fiqEn, handler, config>>
        /\ stop' \in {stop, stop \cup {ctx}}
        /\ await' \in {await, [await EXCEPT ![c] = ctx]}
        /\ wdog' \in {"off", "armed", "warned"}
    BY <1>4 DEF TX, asyncTx, VersionRefused, InstallOS, Stop, interrupts, TypeOK
  <2>6. TypeOK'
    BY <2>3, <2>4, <2>5 DEF goroutines, config, TypeOK
  <2> QED
    BY <2>3, <2>5, <2>6 DEF goroutines, config, HasCtx, MainOnly, NetworkStarted
<1>5. CASE InstallOSReboot(c) \/ RPCReboot(c)
  BY <1>5, ResetInv DEF InstallOSReboot, RPCReboot
<1> QED
  BY <1>1, <1>2, <1>3, <1>4, <1>5 DEF AppletStep

\* The invariant holds in every reachable state.
LEMMA Invariance == Spec => []IInv
<1>1. IInv /\ [Next]_vars => IInv'
  <2> SUFFICES ASSUME IInv, [Next]_vars PROVE IInv'
    OBVIOUS
  <2>1. CASE Next
    BY <2>1, OSStep, AppletStepInv DEF Next
  <2>2. CASE UNCHANGED vars
    BY <2>2 DEF vars, IInv, TypeOK, HasCtx, MainOnly, NetworkStarted, Loaded
  <2> QED
    BY <2>1, <2>2
<1> QED
  BY <1>1, InitInv, PTL DEF Spec

\* Types, and with them: only a context that exists is ever stopped or awaited.
THEOREM TypeCorrect == Spec => []TypeOK
  BY Invariance, PTL DEF IInv

\* An applet read from storage never has two instances.
THEOREM SingleInstance == Spec => []OneInstance
<1>1. IInv => OneInstance
  BY DEF IInv, MainOnly, OneInstance
<1> QED
  BY <1>1, Invariance, PTL

\* With such an applet, FIQs are routed to its handler exactly while it is loaded.
THEOREM FIQRouting == Spec => []FIQsWhileLoaded
<1>1. IInv => FIQsWhileLoaded
  BY ConstantAssumption DEF IInv, TypeOK, MainOnly, FIQsWhileLoaded
<1> QED
  BY <1>1, Invariance, PTL

\* Once the applet has configured the OS the network has been started, unless the
\* control interface was first.
THEOREM NetworkStarts == Spec => []NetworkStarted
  BY Invariance, PTL DEF IInv

=============================================================================
