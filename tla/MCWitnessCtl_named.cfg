\* A device is named with -d and may not be plugged in.
SPECIFICATION Spec
CONSTANTS
  Device = {d1, d2}
  NoPath = NoPath
  logChunk = 2
  MaxLen = 2
INVARIANT ActsOnNamed
