SPECIFICATION ProjSpec
CONSTANTS
  MaxChunks = 2
  MaxThoughts = 1
  MaxMoves = 1
  MaxLost = 1
INVARIANTS AnswerIsShown RowsAreClosed
PROPERTY EditsNeverGoBack
CHECK_DEADLOCK FALSE
