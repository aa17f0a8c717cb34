SPECIFICATION Spec
CONSTANTS
  image = image
  arm = arm
  amd = amd
  other = other
  signature = signature
  latest = latest
  stable = stable
  c1 = c1
  admin = admin
  NoSubject = NoSubject
  Nothing = Nothing
  Digests <- NestedDigests
  Tags <- MCTags
  PlatformsOf <- NestedPlatformsOf
  SubjectOf <- MCSubjectOf
  ProtectedTags = {}
  InitialTags <- MCInitialTags
  InitialLive <- NestedInitialLive
  Pushers = {c1}
  Jobs = {admin}
  References <- LatestOnly
  MaxPushes = 0
  MaxStarts = 2
  OverlapPhases = {}
  LoseObservations = FALSE
  Faults = FALSE
INVARIANTS
  NeverFails
CHECK_DEADLOCK FALSE
