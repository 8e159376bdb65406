\* Runs of the tool while two devices are plugged and unplugged.
SPECIFICATION FairSpec
CONSTANTS
  Device = {d1, d2}
  NoPath = NoPath
  logChunk = 2
  MaxLen = 5
INVARIANT TypeOK
INVARIANT ActsOnNamedIfFound
INVARIANT FusedAsShown
INVARIANT WholeLog
PROPERTY RunsEnd
