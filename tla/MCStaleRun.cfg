SPECIFICATION Spec
CONSTANTS
  image = image
  arm = arm
  older = older
  latest = latest
  v1 = v1
  first = first
  second = second
  e1 = e1
  e2 = e2
  NoSubject = NoSubject
  Nothing = Nothing
  Never = Never
  Off = Off
  Digests <- MCDigests
  Tags <- MCTags
  PlatformsOf <- MCPlatformsOf
  SubjectOf <- MCSubjectOf
  InitialRows <- MCInitialRows
  InitialTags <- MCInitialTags
  PolicySets <- MCPolicySets
  ItemOrder <- MCItemOrder
  Pushable <- MCPushable
  Previews = {first, second}
  Executors = {e1, e2}
  PreviewTTL = 1
  LockTTL = 2
  MaxClock = 3
  MaxTrouble = 1
SYMMETRY Interchangeable
INVARIANT
  StaleRunsRecovered
CHECK_DEADLOCK FALSE
