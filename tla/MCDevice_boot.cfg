\* Updates and provisioning of images of any version, power cycles and failed
\* transfers.
SPECIFICATION DSpec
CONSTANTS
  Version = {1, 2, 3}
  Unparsable = Unparsable
  Long = {3}
  Value = {a, b}
  Blank = a
  i1 = i1
  i2 = i2
  i3 = i3
  iu = iu
  Image = {i1, i2, i3, iu}
  None = None
  Logged <- MCLogged
  VersionOf <- MCVersionOf
INVARIANT DTypeOK
INVARIANT NoRollback
INVARIANT HaltsForAReason
INVARIANT ForwardUpdatesLaunch
PROPERTY EpochsMonotone
