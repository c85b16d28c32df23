SPECIFICATION SpecParts
CONSTANTS
    NumViews = 4
    Graphs <- LooplessGraphs
    Roles <- SomeRoles
    ModelOf <- TwoModels
    Table <- FourTables
    Programs <- FlowPrograms
    Addresses <- OneOrder
CHECK_DEADLOCK FALSE
INVARIANTS
    StrataOrdered
    RejectsUnstratified
    StrataExact
    NeverAborts
    ChangesFoldedOnce
    ReadsSettled
PROPERTIES
    Terminates
