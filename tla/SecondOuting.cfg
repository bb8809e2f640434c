SPECIFICATION Spec
CONSTANTS
  Parcels = {p1}
  None = None
  DAY = 1
  MaxNow = 1
  MaxScans = 1
  MaxMoves = 2
  MaxLoads = 1
CHECK_DEADLOCK FALSE
INVARIANT
  CanScanItsStops
