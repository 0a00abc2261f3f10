SPECIFICATION FairSpec
CONSTANTS
  ann = ann
  bob = bob
  Sender = {ann, bob}
  Unknown = Unknown
  Timed = TRUE
  MaxTurns = 2
  MaxTrouble = 2
CHECK_DEADLOCK FALSE
INVARIANTS SenderIsKnown
PROPERTIES ContinuityKept EveryTurnEnds
