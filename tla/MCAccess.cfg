SPECIFICATION Spec
CONSTANTS
  u1 = u1
  u2 = u2
  j1 = j1
  j2 = j2
  Users = {u1, u2}
  Jobs = {j1, j2}
  Nobody = Nobody
  MaxKeys = 2
  MaxStarts = 4
SYMMETRY Interchangeable
INVARIANTS
  TypeOK
  LastAdminStays
  KeysBounded
  EndedStaysEnded
CHECK_DEADLOCK FALSE
