SPECIFICATION Spec
CONSTANTS
  image = image
  arm = arm
  amd = amd
  other = other
  signature = signature
  latest = latest
  stable = stable
  c1 = c1
  admin = admin
  NoSubject = NoSubject
  Nothing = Nothing
  Digests <- PlainDigests
  Tags <- MCTags
  PlatformsOf <- PlainPlatformsOf
  SubjectOf <- MCSubjectOf
  ProtectedTags = {}
  InitialTags <- MCInitialTags
  InitialLive <- PlainInitialLive
  Pushers = {c1}
  Jobs = {admin}
  References <- LatestOnly
  MaxPushes = 1
  MaxStarts = 2
  OverlapPhases = {}
  LoseObservations = TRUE
  Faults = FALSE
PROPERTY
  ChildrenUnlisted
CHECK_DEADLOCK FALSE
