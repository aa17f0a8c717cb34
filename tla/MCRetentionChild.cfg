SPECIFICATION Spec
CONSTANTS
  image = image
  arm = arm
  older = older
  latest = latest
  v1 = v1
  first = first
  second = second
  e1 = e1
  e2 = e2
  NoSubject = NoSubject
  Nothing = Nothing
  Never = Never
  Off = Off
  Digests <- MCDigests
  Tags <- MCTags
  PlatformsOf <- MCPlatformsOf
  SubjectOf <- MCSubjectOf
  InitialRows <- MCInitialRows
  InitialTags <- MCInitialTags
  PolicySets <- GracePolicySets
  ItemOrder <- MCItemOrder
  Pushable <- NoPushes
  Previews = {first}
  Executors = {e1}
  PreviewTTL = 1
  LockTTL = 2
  MaxClock = 3
  MaxTrouble = 0
INVARIANTS
  KeptIndexesWhole
CHECK_DEADLOCK FALSE
