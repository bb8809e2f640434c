SPECIFICATION Spec
CONSTANTS
  None <- Null
  Parcels = {p1, p2}
  Livreurs = {l1}
  Broken = {}
  Delays <- MCDelays
  MaxAttempts = 2
  MaxClientChanges = 1
  BatchSize = 1
  MaxNow = 3
  MaxFaults = 1
INVARIANTS
  TypeOK
  DeadlineIffUndecided
  OneFeePerReturn
PROPERTIES
  ExpiredIsDecided
