SPECIFICATION Spec
CONSTANTS
    Row = {x1, x2}
    IntMax = 3
    Recursive = TRUE
SYMMETRY RowSymmetry
INVARIANTS
    IndInv
    FrontierExact
    SealedCoherent
    MirrorExact
    LiveCount
PROPERTIES
    ClaimedOnce
    CompactionInvisible
