SPECIFICATION Spec
CONSTANTS
  o1 = o1
  o2 = o2
  o3 = o3
  x = x
  y = y
  Orders = {o1, o2, o3}
  Symbols = {x, y}
  SymbolOf <- MCSymbolOf
  MaxStops = 1
CHECK_DEADLOCK FALSE
INVARIANTS
  OpenOrdersAreIndexed
  
  
