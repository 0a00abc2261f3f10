SPECIFICATION FairSpec
CONSTANTS
  Command = {p}
  p = p
  None = None
  MaxClaims = 2
  MaxRetries = 1
  MaxLocalAttempts = 2
  MaxRejections = 2
CHECK_DEADLOCK FALSE
INVARIANTS AnswersAgree
PROPERTIES LedgerIsKept EveryCommandSettles
