SPECIFICATION Spec
CONSTANTS
  image = image
  arm = arm
  other = other
  latest = latest
  stable = stable
  NoSubject = NoSubject
  Nothing = Nothing
  Digests <- MCDigests
  Tags = {latest, stable}
  PlatformsOf <- MCPlatformsOf
  SubjectOf <- MCSubjectOf
  InitialTags <- MCInitialTags
  Handlers = {h1, h2}
  MaxStarts = 2
SYMMETRY Interchangeable
INVARIANT
  MissingDisappeared
CHECK_DEADLOCK FALSE
