\* Both builds, with the fairness of goroutines and watchdog.
SPECIFICATION FairSpec
CONSTANTS
  Ctx = {c1, c2, c3}
  NoCtx = NoCtx
  Config = {k1}
  NoConfig = NoConfig
  USBNet = TRUE
INVARIANT TypeOK
INVARIANT OneInstance
INVARIANT FIQsWhileLoaded
INVARIANT NetworkStarted
PROPERTY InstallReboots
PROPERTY WedgedAppletEnds
PROPERTY ControlAnswers
