SPECIFICATION Spec

CONSTANTS
    o1 = o1
    o2 = o2
    Quantities = {1}
    Orders = {o1, o2}
    Engines = {"poll", "tick"}
    Immediate = TRUE
    Edits = {"cancel"}
    Reached = {}
    Faults = TRUE
    MaxCrashes = 0

SYMMETRY RaceSymmetry

CHECK_DEADLOCK FALSE

INVARIANTS
    CompleteHasTraded
    NoPhantomShares
    OneTradePerThread
