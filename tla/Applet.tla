------------------------------- MODULE Applet -------------------------------
(***************************************************************************)
(* The life of the Trusted Applet: the loop of main() that loads, runs and *)
(* reloads it, loadApplet and run (trusted_os/load.go), the exception      *)
(* handler and the watchdog (trusted_os/handler.go), the configuration     *)
(* update of the control interface (ctl.go) and the RPCs that stop the     *)
(* applet or wait for it (rpc.go).                                         *)
(*                                                                         *)
(* An execution context (monitor.ExecCtx, external) alternates between the *)
(* applet in User mode and the handler; it looks at its stop flag when the *)
(* handler has returned, and closes Done() when it leaves Run().  Contexts *)
(* are taken from a pool: one is reused when nothing refers to it.         *)
(*                                                                         *)
(* Time is abstracted: the watchdog warns at any time, and resets the      *)
(* device only if nothing is left that would service it (Starved).         *)
(***************************************************************************)
EXTENDS Naturals

CONSTANTS Ctx,       \* execution contexts
          NoCtx,     \* a nil *ExecCtx
          Config,    \* non-empty network configurations
          NoConfig,  \* the empty one
          USBNet     \* is the network on USB (txQueue) or on LAN?

ASSUME ConstantAssumption == /\ NoCtx \notin Ctx
                             /\ NoConfig \notin Config
                             /\ USBNet \in BOOLEAN

VARIABLES embedded, \* build: is the applet embedded in the OS (taELF)?
          power,   \* "on" or "reset"
          main,    \* goroutine of main(): "load", "run" or "store"
          ctl,     \* goroutine of the HID endpoint: "idle", "stop", "wait" or "run"
          mainCtx, ctlCtx,  \* the contexts they run
          ctx,     \* RPC.Ctx
          mode,    \* each context: "user", "install" and "tx" (its handler is blocked
                   \* in InstallOS, in txFromApplet), "done"
          stop,    \* contexts told to stop
          await,   \* whose Done() each blocked InstallOS, and ctl.Config, waits for
          wedged,  \* contexts whose applet makes no system call any more
          masked,  \* contexts with FIQs masked in their SPSR
          fiqEn,   \* GIC routes interrupts as FIQs, to the applet's handler
          handler, \* whose appletHandlerG, appletHandlerP are registered
          wdog,    \* "off", "armed" or "warned"
          cfg,     \* RPC.Cfg
          net,     \* netStart has been called
          early    \* history: before netStart a control update filled an empty
                   \* RPC.Cfg, and that was not emptied again

goroutines == <<main, ctl, mainCtx, ctlCtx>>
contexts   == <<ctx, mode, stop, await, wedged>>
interrupts == <<masked, fiqEn, handler, wdog>>
config     == <<cfg, net, early>>
vars == <<embedded, power, main, ctl, mainCtx, ctlCtx, ctx, mode, stop, await, wedged,
          masked, fiqEn, handler, wdog, cfg, net, early>>

Init == /\ embedded \in BOOLEAN
        /\ power = "on" /\ main = "load" /\ ctl = "idle"
        /\ mainCtx = NoCtx /\ ctlCtx = NoCtx /\ ctx = NoCtx
        /\ mode = [c \in Ctx |-> "done"] /\ stop = {} /\ wedged = {}
        /\ await = [c \in Ctx \cup {NoCtx} |-> NoCtx]
        /\ masked = {} /\ fiqEn = FALSE /\ handler = NoCtx /\ wdog = "off"
        /\ cfg = NoConfig /\ net = FALSE
        /\ early = FALSE

-----------------------------------------------------------------------------
(***************************************************************************)
(* loadApplet and run.                                                     *)
(***************************************************************************)
Unused(c) == /\ mode[c] = "done"
             /\ c \notin {ctx, handler, mainCtx, ctlCtx}
             /\ \A w \in Ctx \cup {NoCtx} : await[w] # c

\* GIC.FIQEn(true)
RouteFIQsNever == UNCHANGED fiqEn
RouteFIQs == fiqEn' = TRUE

loadApplet(c) ==
  /\ power = "on" /\ Unused(c)
  /\ ctx' = c
  /\ mode' = [mode EXCEPT ![c] = "user"]
  /\ stop' = stop \ {c}
  /\ wdog' = "armed"
  /\ RouteFIQs
  /\ UNCHANGED <<embedded, power, wedged, masked, handler, cfg, net, early>>

MainLoad ==
  /\ main = "load"
  /\ main' = "run"
  /\ \E c \in Ctx : loadApplet(c) /\ mainCtx' = c
  /\ UNCHANGED <<ctl, ctlCtx, await>>

\* GIC.FIQEn(false)
RestoreRoutingNever == UNCHANGED fiqEn
RestoreRouting == fiqEn' = FALSE

\* ctx.Run() closes Done() and returns, then the rest of run and what follows in
\* its goroutine.  One step: of those that wait for Done(), InstallOS resets the
\* device, and ctl.Config touches the routing only if the applet is embedded.
RunReturns(c) ==
  /\ mode' = [mode EXCEPT ![c] = "done"]
  /\ RestoreRouting
  /\ main' = IF c = mainCtx THEN "store" ELSE main
  /\ mainCtx' = IF c = mainCtx THEN NoCtx ELSE mainCtx
  /\ ctl' = IF c = ctlCtx THEN "idle" ELSE ctl
  /\ ctlCtx' = IF c = ctlCtx THEN NoCtx ELSE ctlCtx
  /\ stop' = stop \ {c} /\ wedged' = wedged \ {c} /\ masked' = masked \ {c}
  /\ UNCHANGED <<embedded, power, ctx, await, handler, wdog, cfg, net, early>>

\* The stop flag is looked at after an exception: a wedged applet has one only
\* if an interrupt can still be taken.
StopActioned(c) == /\ power = "on" /\ mode[c] = "user" /\ c \in stop
                   /\ c \notin wedged \cap masked
                   /\ RunReturns(c)

MainStore == /\ power = "on" /\ main = "store"
             /\ main' = "load"
             /\ UNCHANGED <<embedded, power, ctl, mainCtx, ctlCtx, contexts, interrupts, config>>
-----------------------------------------------------------------------------
(***************************************************************************)
(* The applet (external) and the RPCs and system calls it makes.           *)
(***************************************************************************)
Live(c) == power = "on" /\ mode[c] = "user" /\ c \notin wedged

Exit(c)  == Live(c) /\ RunReturns(c)

Wedge(c) == /\ Live(c)
            /\ wedged' = wedged \cup {c}
            /\ UNCHANGED <<embedded, power, goroutines, ctx, mode, stop, await, interrupts, config>>

StartsNetworkLater == cfg # NoConfig
StartsNetwork == cfg = NoConfig

\* RPC.Config.  An empty configuration leaves RPC.Cfg empty: the next call, or a
\* restarted applet, starts the network again.
RPCConfig(c, current) ==
  /\ Live(c)
  /\ net' = (net \/ StartsNetwork)
  /\ cfg' = current
  /\ early' = (early /\ current # NoConfig)
  /\ UNCHANGED <<embedded, power, goroutines, contexts, interrupts>>

\* RPC.Register; the applet's event handler then asks for FIQs
Register(c) == /\ Live(c)
               /\ handler' = c
               /\ UNCHANGED <<embedded, power, goroutines, contexts, masked, fiqEn, wdog, config>>

\* System call FIQ, made by the event handler when it is done
UnmaskFIQ(c) == /\ Live(c) /\ handler = c
                /\ masked' = masked \ {c}
                /\ UNCHANGED <<embedded, power, goroutines, contexts, fiqEn, handler, wdog, config>>

\* System call TX.  A nil or full txQueue blocks.
TX(c) == /\ Live(c)
         /\ wdog' = "armed"
         /\ \/ (USBNet => net) /\ UNCHANGED mode
            \/ USBNet /\ mode' = [mode EXCEPT ![c] = "tx"]
         /\ UNCHANGED <<embedded, power, goroutines, ctx, stop, await, wedged,
                        masked, fiqEn, handler, config>>

\* The host takes a packet from a full txQueue
asyncTx(c) == /\ power = "on" /\ mode[c] = "tx" /\ net
              /\ mode' = [mode EXCEPT ![c] = "user"]
              /\ UNCHANGED <<embedded, power, goroutines, ctx, stop, await, wedged, interrupts, config>>

\* r.Ctx.Stop()
StopNothing == UNCHANGED stop
Stop == stop' = stop \cup {ctx}

\* RPC.Version with a version that checkVersion refuses
VersionRefused(c) ==
  /\ Live(c)
  /\ Stop
  /\ UNCHANGED <<embedded, power, goroutines, ctx, mode, await, wedged, interrupts, config>>

\* The last chunk of RPC.InstallOS: updateOS succeeded
InstallOS(c) ==
  /\ Live(c)
  /\ Stop
  /\ await' = [await EXCEPT ![c] = ctx]
  /\ mode' = [mode EXCEPT ![c] = "install"]
  /\ UNCHANGED <<embedded, power, goroutines, ctx, wedged, interrupts, config>>

\* Nothing of the state survives a reset
Reset == /\ power = "on" /\ power' = "reset"
         /\ main' = "load" /\ ctl' = "idle"
         /\ mainCtx' = NoCtx /\ ctlCtx' = NoCtx /\ ctx' = NoCtx
         /\ mode' = [c \in Ctx |-> "done"] /\ stop' = {} /\ wedged' = {}
         /\ await' = [c \in Ctx \cup {NoCtx} |-> NoCtx]
         /\ masked' = {} /\ fiqEn' = FALSE /\ handler' = NoCtx /\ wdog' = "off"
         /\ cfg' = NoConfig /\ net' = FALSE
         /\ early' = FALSE
         /\ UNCHANGED embedded

InstallOSReboot(c) == mode[c] = "install" /\ mode[await[c]] = "done" /\ Reset

\* RPC.Reboot, also at the end of InstallApplet
RPCReboot(c) == Live(c) /\ Reset

-----------------------------------------------------------------------------
(***************************************************************************)
(* Interrupts and the watchdog.                                            *)
(***************************************************************************)
Warn == /\ power = "on" /\ wdog = "armed"
        /\ wdog' = "warned"
        /\ UNCHANGED <<embedded, power, goroutines, contexts, masked, fiqEn, handler, config>>

\* bits.Set(&ctx.SPSR, CPSR_FIQ)
MaskFIQNever(c) == UNCHANGED masked
MaskFIQ(c) == masked' = masked \cup {c}

\* fiqHandler for an interrupt taken in User mode: isr, mask, wake the applet's
\* event handler.  isr services the watchdog if that raised the interrupt.  (Of
\* handler's exceptions, FIQs and system calls are modelled; any other of the
\* applet ends the OS with log.Fatalf.)
fiqHandler(c, service) ==
  /\ power = "on" /\ fiqEn /\ mode[c] = "user" /\ c \notin masked
  /\ service => wdog = "warned"
  /\ wdog' = IF service THEN "armed" ELSE wdog
  /\ MaskFIQ(c)
  /\ UNCHANGED <<embedded, power, goroutines, contexts, fiqEn, handler, config>>

\* arm.ServiceInterrupts(isr), while no applet runs
isr == /\ power = "on" /\ ~fiqEn /\ wdog = "warned"
       /\ wdog' = "armed"
       /\ UNCHANGED <<embedded, power, goroutines, contexts, masked, fiqEn, handler, config>>

\* Nothing will service the watchdog: interrupts are routed to the applet, and
\* every handler is blocked or its applet wedged with FIQs masked.
Starved == fiqEn /\ \A c \in Ctx : mode[c] = "user" => c \in wedged \cap masked

Timeout == wdog = "warned" /\ Starved /\ Reset

Reboot == /\ power = "reset" /\ power' = "on"
          /\ UNCHANGED <<embedded, goroutines, contexts, interrupts, config>>
-----------------------------------------------------------------------------
(***************************************************************************)
(* controlInterface.Config, one request at a time: the configuration is    *)
(* stored, the applet stopped and awaited, and taELF loaded.  taELF is     *)
(* empty unless the applet is embedded, and an empty ELF does not load.    *)
(***************************************************************************)
NoAppletNever == FALSE
NoApplet == ctx = NoCtx

CtlConfig(req) ==
  /\ power = "on" /\ ctl = "idle"
  /\ cfg' = req
  /\ early' = (early \/ (cfg = NoConfig /\ ~net))
  /\ ctl' = IF NoApplet THEN "idle" ELSE "stop"
  /\ UNCHANGED <<embedded, power, main, mainCtx, ctlCtx, contexts, interrupts, net>>

CtlStop ==
  /\ power = "on" /\ ctl = "stop"
  /\ Stop
  /\ await' = [await EXCEPT ![NoCtx] = ctx]
  /\ ctl' = "wait"
  /\ UNCHANGED <<embedded, power, main, mainCtx, ctlCtx, ctx, mode, wedged, interrupts, config>>

CtlLoadTA(c) == loadApplet(c) /\ ctlCtx' = c /\ ctl' = "run"
CtlLoad(c) == embedded /\ loadApplet(c) /\ ctlCtx' = c /\ ctl' = "run"

CtlDone ==
  /\ power = "on" /\ ctl = "wait" /\ mode[await[NoCtx]] = "done"
  /\ await' = [await EXCEPT ![NoCtx] = NoCtx]
  /\ \/ \E c \in Ctx : CtlLoad(c)
     \/ /\ ~embedded
        /\ ctl' = "idle"
        /\ UNCHANGED <<embedded, power, ctlCtx, ctx, mode, stop, wedged, interrupts, config>>
  /\ UNCHANGED <<main, mainCtx>>

-----------------------------------------------------------------------------
AppletStep(c) == \/ StopActioned(c) \/ Exit(c) \/ Wedge(c)
                 \/ \E current \in Config \cup {NoConfig} : RPCConfig(c, current)
                 \/ Register(c) \/ UnmaskFIQ(c) \/ TX(c) \/ asyncTx(c)
                 \/ VersionRefused(c) \/ InstallOS(c) \/ InstallOSReboot(c) \/ RPCReboot(c)
                 \/ \E service \in BOOLEAN : fiqHandler(c, service)

Next == \/ MainLoad \/ MainStore \/ CtlStop \/ CtlDone
        \/ \E req \in Config : CtlConfig(req)
        \/ \E c \in Ctx : AppletStep(c)
        \/ Warn \/ isr \/ Timeout \/ Reboot

Spec == Init /\ [][Next]_vars

\* The goroutines of the OS keep running, a context looks at its stop flag each
\* time its handler returns, and the watchdog and its interrupts are hardware.
\* Nothing is assumed of the applet.
Fairness ==
  /\ WF_vars(MainLoad \/ MainStore)
  /\ WF_vars(CtlStop \/ CtlDone)
  /\ WF_vars(Warn)
  /\ WF_vars(Timeout)
  /\ WF_vars(Reboot)
  /\ \A c \in Ctx : /\ SF_vars(StopActioned(c))
                    /\ WF_vars(fiqHandler(c, TRUE))
FairSpec == Spec /\ Fairness
-----------------------------------------------------------------------------
TypeOK ==
  /\ power \in {"on", "reset"}
  /\ main \in {"load", "run", "store"} /\ ctl \in {"idle", "stop", "wait", "run"}
  /\ {mainCtx, ctlCtx, ctx, handler} \subseteq Ctx \cup {NoCtx}
  /\ mode \in [Ctx -> {"user", "install", "tx", "done"}]
  /\ stop \subseteq Ctx /\ wedged \subseteq Ctx
  /\ masked \subseteq Ctx
  /\ await \in [Ctx \cup {NoCtx} -> Ctx \cup {NoCtx}]
  /\ fiqEn \in BOOLEAN /\ wdog \in {"off", "armed", "warned"}
  /\ cfg \in Config \cup {NoConfig}
  /\ net \in BOOLEAN /\ early \in BOOLEAN /\ embedded \in BOOLEAN

Loaded == {c \in Ctx : mode[c] # "done"}

\* The applet region never has two instances, whichever of the main loop and
\* ctl.Config comes first once the old one is done, when the applet is read from
\* storage: ctl.Config then has nothing to load.
OneInstance == ~embedded => \A c, d \in Loaded : c = d

\* "Any configuration exchange will cause an existing trusted applet instance
\* to be terminated for re-initialization" (api.proto): so in every build there
\* is at most one instance.
OneInstanceInEveryBuild == \A c, d \in Loaded : c = d

\* With such an applet, FIQs are routed to its handler exactly while it runs, so
\* the watchdog and the control interface are served in every other state.
FIQsWhileLoaded == ~embedded => (fiqEn <=> Loaded # {})

\* Once InstallOS has written the update "the device will reboot", although the
\* RPC waits for a context that can only stop when the RPC has returned.  (This and
\* the next two for an applet on storage: two instances break them.)
InstallReboots == (~embedded /\ \E c \in Ctx : mode[c] = "install") ~> power = "reset"

\* An applet that makes no more system calls does not starve the OS: it is
\* stopped or the watchdog resets the device.
WedgedAppletEnds == ~embedded /\ wedged # {} ~> wedged = {} \/ power = "reset"

\* A configuration request is answered, or the device resets.
ControlAnswers == ~embedded /\ ctl # "idle" ~> ctl = "idle" \/ power = "reset"

\* RPC.Config starts the network when the OS had no configuration yet, and a
\* restarted applet, whose RPC.Config finds the old one, still has it; control
\* updates that come before the first RPC.Config are excepted.
NetworkStarted == cfg # NoConfig /\ ~early => net
=============================================================================
