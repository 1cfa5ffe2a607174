SPECIFICATION FairSpec
CONSTANTS
  o1 = o1
  o2 = o2
  r1 = r1
  r2 = r2
  None = None
  Orders = {o1, o2}
  Requests = {r1, r2}
  Kinds = {"smart", "batch", "unrouted"}
  MaxFaults = 1
CHECK_DEADLOCK FALSE
INVARIANTS
  OneOrderPerApproval
  RowTellsTheOrder
PROPERTIES
  ImplementsDecision
  ApprovedIsExecuted
