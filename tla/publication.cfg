SPECIFICATION Spec
CONSTANTS
  w1 = w1
  w2 = w2
  Worker = {w1, w2}
  MaxOps = 2
  MaxAttempts = 2
SYMMETRY Calls
INVARIANT AssetsFirst
PROPERTIES ReceiptsStand HoldersDecide
CHECK_DEADLOCK FALSE
