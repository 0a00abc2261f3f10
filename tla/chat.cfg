SPECIFICATION Spec
CONSTANTS
  MaxMessages = 2
  Contents = {0, 1}
  Edits <- MCEdits
  MaxActivations = 2
  MaxTrouble = 2
INVARIANTS OneTurnPerThread NoMessageIsLost PlaceholdersHaveRuns
PROPERTIES VersionsAdvance
CHECK_DEADLOCK FALSE
