SPECIFICATION Spec
CONSTANTS
  None = None
  Couriers = {a, b}
  BatchSize = 2
  KindOf <- MCTwoKinds
  Requests = {r1, r2}
  MaxFaults = 1
  MaxSessions = 2
CHECK_DEADLOCK FALSE
INVARIANTS
  CancellationIsQueued
