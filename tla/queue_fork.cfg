SPECIFICATION Spec
CONSTANTS
  Run <- OneRun
  Step <- Fork
  RunOf <- ForkRunOf
  Deps <- ForkDeps
  RunTime = 2
  StepTimeout <- OneTick
  LeaseTime = 1
  RetryAttempts <- ForkRetries
  RetryDelay <- OneLater
  RefetchDelay = 1
  MaxAttempts = 2
  MaxTime = 3
INVARIANTS
  DependenciesFirst
  NoRunIsStranded
  EndedRunsAreQuiet
  ApprovalGateIsTotal
  SucceededByLastAttempt
PROPERTIES
  CancellationIsDurable
CHECK_DEADLOCK FALSE
