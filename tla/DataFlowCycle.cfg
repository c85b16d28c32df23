SPECIFICATION Spec
CONSTANTS
    UniqueLits = {"true", "u1", "u2"}
    OneToOne = {}
    Values <- MCValues
    Order <- MCOrder
    FunctorRows <- MCFunctorRows
    Programs <- CyclePrograms
INVARIANT OutputsPreserved
CHECK_DEADLOCK FALSE
