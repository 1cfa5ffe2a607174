---------------------------- MODULE MCPendingIndex ----------------------------
EXTENDS PendingIndex, TLC
CONSTANTS o1, o2, o3, x, y
MCSymbolOf == (o1 :> x) @@ (o2 :> x) @@ (o3 :> y)
===============================================================================
