SPECIFICATION FairSpec
CONSTANTS
  r1 = r1
  r2 = r2
  r3 = r3
  r4 = r4
  gc = gc
  removal = removal
  backup = backup
  c1 = c1
  c2 = c2
  Nobody = Nobody
  Requests <- MCRequests
  Owners <- MCOwners
  TimedOwners <- MCTimedOwners
  Channels <- MCChannels
INVARIANTS
  TypeOK
  ExclusiveWhileGranted
  CloseIsSafe
  ShutOnlyByOwner
PROPERTIES
  ImplementsGate
  TimedDrainReturns
  DrainReturns
  GateReopens
