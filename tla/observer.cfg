SPECIFICATION FairObserverSpec
CONSTANTS
  Object = {o1, o2}
  Content <- Bodies
  NoContent = NoContent
  Parsed <- Bodies
  Uses <- Used
  Declares <- Declared
  Names <- Editor
  Grants <- TwoGrants
  Digest <- Digests
  EmptyDigest = 3
  PageSize = 1
  MaxAt = 2
  MaxEdits = 3
  MaxFaults = 2
CHECK_DEADLOCK FALSE
INVARIANTS UsableIsCurrent
PROPERTIES RevisionsAdvance ArchivedWasGone EveryDefinitionSettles
