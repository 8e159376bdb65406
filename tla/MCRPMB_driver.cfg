\* Two concurrent callers, and one, over a transport that reports its errors and over
\* one that loses requests silently; one caller over one that also delivers write
\* frames late, out of order and repeatedly.
SPECIFICATION Spec
CONSTANTS
  Proc = {p1, p2}
  NoProc = NoProc
  Sector = {d, s}
  dummyBlock = d
  Value = {z, a}
  Zero = z
  Nonce = {n1, n2}
  NoNonce = NoNonce
  CounterMax = 2
  Setups <- MCSetups
  MaxRecorded = 1
SYMMETRY Symmetry
INVARIANT TypeOK
INVARIANT StaleFramesDead
INVARIANT MutexHeldInOp
PROPERTY AckedWriteStored
PROPERTY ReadFresh
PROPERTY ImplementsAuthMemory
