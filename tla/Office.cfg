SPECIFICATION Spec
CONSTANTS
  None = None
  A = {a1, a2}
  B = {b1, b2}
  C = {c1}
  D = {d1}
  Threshold = 2
  MaxBusy = 2
  LastDay = 1
  MaxEdits = 3
  Settings = {2, 4}
  MaxTime = 4
  MaxChanges = 1
  MaxCrashes = 1
  MaxTrips = 2
  MaxTokens = 2
  MaxNow = 8
  MaxFaults = 1
SYMMETRY Symmetry
CHECK_DEADLOCK FALSE
INVARIANTS
  TypeOK
  PickupsCountOnce
  WorkIsHandedOn
  ToldOnce
  PapersAgree
PROPERTIES
  HandledOnce
  SignedIn
