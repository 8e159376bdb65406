\* Does the next boot launch what updateOS has accepted?
SPECIFICATION DSpec
CONSTANTS
  Version = {1, 2, 3}
  Unparsable = Unparsable
  Long = {}
  Value = {a, b}
  Blank = a
  i1 = i1
  i2 = i2
  i3 = i3
  iu = iu
  Image = {i1, i2, i3, iu}
  None = None
  Logged <- MCLogged
  VersionOf <- MCVersionOf
INVARIANT UpdatesLaunch
