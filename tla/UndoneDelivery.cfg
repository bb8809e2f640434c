SPECIFICATION Spec
CONSTANTS
  None = None
  Parcels = {p1, p2}
  Livreurs = {l1, l2}
  LastDay = 2
  MaxScans = 2
  MaxBusy = 2
  MaxCounts = 2
  Amounts = {1}
SYMMETRY Symmetry
CHECK_DEADLOCK FALSE
INVARIANTS
  ExpectedFromHolder
