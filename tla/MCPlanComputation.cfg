SPECIFICATION FairSpec
CONSTANTS
  index1 = index1
  inner = inner
  other = other
  leaf = leaf
  NoSubject = NoSubject
  Digests <- MCDigests
  Inputs <- MCInputs
INVARIANTS
  TypeOK
  PruningFindsPlan
  ResultIsDetermined
PROPERTIES
  Terminates
CHECK_DEADLOCK FALSE
