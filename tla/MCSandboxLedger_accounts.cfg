SPECIFICATION Spec

CONSTANTS
    OrderIds = {o1, o2, o3}
    o1 = o1
    o2 = o2
    o3 = o3
    Products = {"CNC", "MIS"}
    OrderTypes = {"MARKET"}
    Quantities = {1, 2}
    Prices = {144, 288}
    Leverage <- TwofoldMIS
    Capital = 432
    AutoReset = TRUE

SYMMETRY OrderSymmetry

INVARIANTS
    CashConserved
    FlatHasNoMargin
    RealizedMatchesTrades

PROPERTIES
    SharesFollowTrades
    ProfitBookedOnce
