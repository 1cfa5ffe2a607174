SPECIFICATION Spec
CONSTANTS
  ForceAlways = TRUE
  Parts = {"entry", "exit"}
  Aging = {}
  Quantity = 2
  s1 = s1
  r1 = r1
  r2 = r2
  Signals = {s1}
  Requests = {r1, r2}
  MaxOrders = 3
  MaxFaults = 1
  Children <- MCChildren
CHECK_DEADLOCK FALSE
SYMMETRY MCSymmetry
INVARIANTS
  SuccessMeansTracked
  ChildrenFollowTheFill
  OneChildUnlessAFault
  
  OrdersAreLogged
