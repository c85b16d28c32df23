SPECIFICATION Spec
CONSTANTS
    Row = {x1, x2}
    IntMax = 3
    Recursive = FALSE
SYMMETRY RowSymmetry
INVARIANTS
    FrontierExact
