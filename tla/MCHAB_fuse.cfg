\* The control interface and the applet, with any of several hashes.
SPECIFICATION Spec
CONSTANTS
  Activator = {a1, a2}
  Bit = {1, 2, 3}
  SRK = {{}, {1, 2}, {1, 3}, {2}}
INVARIANT TypeOK
INVARIANT ClosedWithKey
INVARIANT NilMeansComplete
