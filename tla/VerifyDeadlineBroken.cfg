SPECIFICATION Spec
CONSTANTS
  None <- Null
  Parcels = {p1, p2, p3}
  Livreurs = {l1}
  Broken = {p1}
  Delays <- MCOneDelay
  MaxAttempts = 2
  MaxClientChanges = 0
  BatchSize = 2
  MaxNow = 1
  MaxFaults = 0
PROPERTIES
  ExpiredIsDecided
