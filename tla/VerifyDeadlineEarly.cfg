SPECIFICATION Spec
CONSTANTS
  None <- Null
  Parcels = {p1, p2}
  Livreurs = {l1}
  Broken = {}
  Delays <- MCDelays
  MaxAttempts = 2
  MaxClientChanges = 1
  BatchSize = 2
  MaxNow = 3
  MaxFaults = 0
PROPERTIES
  NoReturnBeforeDeadline
