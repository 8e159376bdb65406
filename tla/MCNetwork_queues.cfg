\* Both kinds of network; ring and queues overflow, frames arrive while the handler
\* runs, the applet ends and is started again.
SPECIFICATION FairSpec
CONSTANTS
  RingSize = 3
  RXQueueSize = 2
  TXQueueSize = 2
  MaxFrame = 8
  MaxTx = 4
  MaxRestart = 2
INVARIANT TypeOK
INVARIANT InOrder
INVARIANT NoInterruptStorm
INVARIANT NoLostInterrupt
INVARIANT SentInOrder
PROPERTY FramesLeave
\* No frame on the wire and nothing to do.
CHECK_DEADLOCK FALSE
