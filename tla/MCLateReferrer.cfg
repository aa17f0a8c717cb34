SPECIFICATION Spec
CONSTANTS
  image = image
  arm = arm
  amd = amd
  other = other
  signature = signature
  latest = latest
  stable = stable
  c1 = c1
  admin = admin
  NoSubject = NoSubject
  Nothing = Nothing
  Digests <- MCDigests
  Tags <- MCTags
  PlatformsOf <- MCPlatformsOf
  SubjectOf <- MCSubjectOf
  ProtectedTags = {}
  InitialTags <- MCInitialTags
  InitialLive <- MCInitialLive
  Pushers = {c1}
  Jobs = {admin}
  References <- LatestOnly
  MaxPushes = 1
  MaxStarts = 2
  OverlapPhases = {"list"}
  LoseObservations = FALSE
  Faults = FALSE
PROPERTY
  ReferrersProtected
CHECK_DEADLOCK FALSE
