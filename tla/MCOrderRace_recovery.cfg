SPECIFICATION FairSpec

CONSTANTS
    o1 = o1
    o2 = o2
    Quantities = {1, 2}
    Orders = {o1, o2}
    Engines = {"poll"}
    Immediate = FALSE
    Edits = {"modify"}
    Reached = {o1}
    Faults = TRUE
    MaxCrashes = 2

CHECK_DEADLOCK FALSE

PROPERTIES
    BooksPartForAReason
    ImplementsLifecycle
