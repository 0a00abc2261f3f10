SPECIFICATION Spec
CONSTANTS
  a = a  b = b  c = c  d = d
  Proc = {a, b, c, d}
  None = None
  Wants <- OnePath
  Attempts = 2
  Waits = FALSE
SYMMETRY Processes
CHECK_DEADLOCK FALSE
INVARIANT MutualExclusion
