\* Does a nil error of WriteRPMB mean that the data was transferred?
SPECIFICATION Spec
CONSTANTS
  Version = {1, 2, 3}
  Unparsable = Unparsable
  Long = {}
  Value = {a, b}
  Blank = a
INVARIANT TransferReported
