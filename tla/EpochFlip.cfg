SPECIFICATION Spec
CONSTANTS
    Row <- FlRow
    Received <- FlReceived
    Stratum <- FlStratum
    Scc <- FlScc
    Inst <- FlInst
INVARIANTS
    ViewExact
