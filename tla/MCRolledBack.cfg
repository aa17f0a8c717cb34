SPECIFICATION Spec
CONSTANTS
  r1 = r1
  r2 = r2
  s1 = s1
  collector = collector
  backup = backup
  Writer = writer
  Requests = {writer}
  Owners = {collector, backup}
  Nobody = Nobody
  Collector = collector
  Backup = backup
  Deletion = deletion
  Runs = {r1, r2}
  Sets = {s1}
  MaxEvents = 4
  MaxWrites = 1

INVARIANTS
  EveryRestoredBoot
CHECK_DEADLOCK FALSE
