\* Power loss and write errors at any point of an update, and one fault on a
\* configuration.  A device without a readable OS configuration stays down.
CHECK_DEADLOCK FALSE
SPECIFICATION Spec
CONSTANTS
  i1 = i1
  i2 = i2
  None = None
  Unverified = Unverified
  Image = {i1, i2}
  Logged <- MCLogged
  N = 2
  BufMax = 3
  MaxFaults = 1
INVARIANT TypeOK
INVARIANT AlwaysBootable
PROPERTY RunningSlotUntouched
PROPERTY ImplementsFirmwareStore
