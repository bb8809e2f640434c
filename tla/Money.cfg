SPECIFICATION Spec
CONSTANTS
  None = None
  Parcels = {p1, p2}
  Returns = {t1, t2}
  Articles = {t2}
  Couriers = {r1, r2}
  Bons = {b1, b2}
  Charges = {c1}
  Single = {s1}
  Plans = {1, 2}
  LastDay = 4
  Rate = 2
  Amounts = {3}
  MaxDebts = 1
  MaxChanges = 2
SYMMETRY Symmetry
CHECK_DEADLOCK FALSE
INVARIANTS
  TypeOK
  CashAtDepotWasCounted
  NoCashForgotten
  PaidUnderOneCertificate
  ChargesFollowTheirBon
  BonsFollowTheirCaisse
  ReturnsFollowTheirBon
  PaidOnce
  AmountsAddUp
