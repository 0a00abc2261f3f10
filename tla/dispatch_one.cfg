SPECIFICATION FairSpec
CONSTANTS
  w = w
  v1 = v1
  v2 = v2
  g1 = g1
  g2 = g2
  NoWorkflow = NoWorkflow
  NoVersion = NoVersion
  Gateway = {g1}
  Event = {1, 2}
  Workflow <- OneWorkflow
  Version <- TwoVersions
  WorkflowOf <- OfW
  Target <- AllManual
  Configuration <- BothConfigurations
  Automatic = {v1}
  Oversized = {v2}
  MaximumConcurrentRuns = 1
  MaximumRunsPerHour = 1
  MaximumAttempts = 2
  BatchSize = 2
  MaxTime = 1
  MaxCrashes = 1
CHECK_DEADLOCK FALSE
INVARIANTS NoEventIsPassed OneVersionPerEvent ConcurrencyIsLimited
PROPERTIES EveryDeliverySettles
