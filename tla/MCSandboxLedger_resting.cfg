SPECIFICATION Spec

CONSTANTS
    OrderIds = {o1, o2}
    o1 = o1
    o2 = o2
    Products = {"MIS"}
    OrderTypes = {"LIMIT", "SL", "SL-M"}
    Quantities = {1, 2}
    Prices = {144, 288}
    Leverage <- TwofoldMIS
    Capital = 432
    AutoReset = TRUE

SYMMETRY OrderSymmetry

PROPERTIES
    TerminalOrderIsFinal
    RestingOrderIsAffordable
