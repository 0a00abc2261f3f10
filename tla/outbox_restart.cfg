SPECIFICATION FairSpec
CONSTANTS
  MaxOutputs = 2
  MaxTurns = 2
  MaxOthers = 2
  TextOf <- Same
  HistoryLimit = 2
  Listed = 1
INVARIANTS  OneMessageInWindow
PROPERTY KeptIsDelivered
