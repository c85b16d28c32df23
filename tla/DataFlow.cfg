SPECIFICATION Spec
CONSTANTS
    UniqueLits = {"true", "u1", "u2"}
    OneToOne = {}
    Values <- MCValues
    Order <- MCOrder
    FunctorRows <- MCFunctorRows
    Programs <- Programs1
INVARIANT OutputsPreserved KnowledgeTrue DifferentialSound TablesShared InductionsLayered PassesConverge
CHECK_DEADLOCK FALSE
