SPECIFICATION Spec
CONSTANTS
  image = image
  arm = arm
  amd = amd
  other = other
  signature = signature
  latest = latest
  stable = stable
  c1 = c1
  admin = admin
  NoSubject = NoSubject
  Nothing = Nothing
  Digests <- MCDigests
  Tags <- MCTags
  PlatformsOf <- MCPlatformsOf
  SubjectOf <- MCSubjectOf
  ProtectedTags <- StableOnly
  InitialTags <- MCInitialTags
  InitialLive <- MCInitialLive
  Pushers = {c1}
  Jobs = {admin}
  References <- MCReferences
  MaxPushes = 2
  MaxStarts = 3
  OverlapPhases = {}
  LoseObservations = FALSE
  Faults = TRUE
INVARIANTS
  TypeOK
  DeletedIsGone
PROPERTIES
  ChildrenUnlisted
  OnlyReviewedTags
  CompletedMeansGone
CHECK_DEADLOCK FALSE
