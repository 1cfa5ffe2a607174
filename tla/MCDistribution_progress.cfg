SPECIFICATION FairSpec
CONSTANTS
  ForceAlways = FALSE
  Parts = {}
  Aging = {"entry"}
  Quantity = 1
  s1 = s1
  r1 = r1
  r2 = r2
  Signals = {s1}
  Requests = {r1, r2}
  MaxOrders = 2
  MaxFaults = 1
  Children <- MCStop
CHECK_DEADLOCK FALSE
PROPERTY
  FillReachesTheLog
