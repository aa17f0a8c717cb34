SPECIFICATION Spec
CONSTANTS
  image = image
  arm = arm
  amd = amd
  other = other
  signature = signature
  latest = latest
  stable = stable
  c1 = c1
  admin = admin
  NoSubject = NoSubject
  Nothing = Nothing
  Digests <- PlainDigests
  Tags <- MCTags
  PlatformsOf <- PlainPlatformsOf
  SubjectOf <- MCSubjectOf
  ProtectedTags = {}
  InitialTags <- MCInitialTags
  InitialLive <- PlainInitialLive
  Pushers = {c1}
  Jobs = {admin, second}
  References <- LatestOnly
  MaxPushes = 2
  MaxStarts = 4
  OverlapPhases <- OutsideWindow
  LoseObservations = TRUE
  Faults = FALSE
SYMMETRY Interchangeable
CONSTRAINT PushesOrTwoAdministrators
PROPERTIES
  ChildrenUntagged
  ReconcileHeals
CHECK_DEADLOCK FALSE
