SPECIFICATION Spec
CONSTANTS
  image = image
  arm = arm
  other = other
  latest = latest
  stable = stable
  NoSubject = NoSubject
  Nothing = Nothing
  Digests <- MCDigests
  Tags = {latest, stable}
  PlatformsOf <- MCPlatformsOf
  SubjectOf <- MCSubjectOf
  InitialTags <- MCInitialTags
  Handlers = {h1, h2}
  MaxStarts = 3
SYMMETRY Interchangeable
INVARIANTS
  SerialTablesAgree
PROPERTIES
  AloneIsOneStep
  RecordsWhatItSaw
CHECK_DEADLOCK FALSE
