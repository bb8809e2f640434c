SPECIFICATION Spec
CONSTANTS
  None = None
  Parcels = {p1}
  Livreurs = {l1, l2}
  Charges = {c1, c2, c3, c4}
  MaxAttempts = 3
  MaxClientChanges = 1
SYMMETRY Symmetry
CHECK_DEADLOCK FALSE
INVARIANTS
  DeliveryFeeOnlyIfDelivered
