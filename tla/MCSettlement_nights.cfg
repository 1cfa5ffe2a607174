SPECIFICATION FairSpec
CONSTANTS
  a = a
  b = b
  t1 = t1
  t2 = t2
  Symbols = {a, b}
  Settlers = {t1, t2}
  MaxFills = 3
  MaxFaults = 1
CHECK_DEADLOCK FALSE
INVARIANTS
  EachFaultCostsLittle
PROPERTY
  SettlesAtomically
  PositionsSettle
