SPECIFICATION FairSpec
CONSTANTS
  c1 = c1
  p1 = p1
  p2 = p2
  w1 = w1
  w2 = w2
  e1 = e1
  m1 = m1
  l1 = l1
  l2 = l2
  None = None
  Callers = {c1}
  Pollers = {p1, p2}
  Watchers = {w1, w2}
  Engines = {e1}
  Monitors = {m1}
  Loops = {l1, l2}
  MaxFaults = 1
INVARIANTS
  StoppedStaysStopped
  OneLoopUnlessLate
PROPERTIES
  ImplementsSwitch
  StopReturns
  UpgradeHappens
  StaleDataIsPolled
