\* A configuration update and the main loop both restart an embedded applet.
SPECIFICATION Spec
CONSTANTS
  Ctx = {c1, c2, c3}
  NoCtx = NoCtx
  Config = {k1}
  NoConfig = NoConfig
  USBNet = FALSE
INVARIANT OneInstanceInEveryBuild
