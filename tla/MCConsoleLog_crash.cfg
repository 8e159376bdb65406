\* Both builds: logs that are empty, short, full and overfull, stored over each other.
SPECIFICATION Spec
CONSTANTS
  outputLimit = 1
  blockSize = 2
  crashLogNumBlocks = 2
  MaxBytes = 4
INVARIANT TypeOK
INVARIANT EveryByteOnce
INVARIANT LinesUnbroken
INVARIANT CrashLogReturned
