SPECIFICATION EffectsSpec
CONSTANTS
  p0 = p0
  Run <- OneRun
  Step <- Pair
  RunOf <- InOneRun
  Deps <- InTurnDeps
  RunTime = 2
  StepTimeout <- OneTick
  LeaseTime = 1
  RetryAttempts <- TwoThenOne
  RetryDelay <- AtOnce
  RefetchDelay = 1
  MaxAttempts = 2
  MaxTime = 3
  EffectStep <- Pair
  UpsertStep <- First
  RefetchStep <- Second
  Workers = 2
  Budget = 1
  Policy = {p0}
INVARIANTS
  EffectAtMostOnce
  FailedMeansNotSent
  SuccessMeansLanded
  EffectsWithinBudget
CHECK_DEADLOCK FALSE
