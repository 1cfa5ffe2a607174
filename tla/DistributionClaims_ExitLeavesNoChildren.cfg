SPECIFICATION Spec
CONSTANTS
  ForceAlways = TRUE
  Parts = {}
  Aging = {}
  Quantity = 1
  s1 = s1
  r1 = r1
  r2 = r2
  Signals = {s1}
  Requests = {r1, r2}
  MaxOrders = 3
  MaxFaults = 0
  Children <- MCChildren
CHECK_DEADLOCK FALSE
INVARIANT
  ExitLeavesNoChildren
