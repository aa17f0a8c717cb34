SPECIFICATION Spec
CONSTANTS
  j1 = j1
  j2 = j2
  j3 = j3
  d1 = d1
  d2 = d2
  Jobs = {j1, j2}
  Requests = {j1, j2}
  Owners = {j1, j2}
  Nobody = Nobody
  Digests = {d1, d2}
  Nothing = Nothing
  MaxStarts = 5
  MaxTrouble = 0
  MaxImports = 1
PROPERTIES
  ImmutableTagsStay
CHECK_DEADLOCK FALSE
