SPECIFICATION SideSpec
CONSTANTS
    Row <- MixedRow
    Received <- MixedReceived
    Stratum <- MixedStratum
    Scc <- MixedScc
    Inst <- MixedInst
INVARIANTS
    NeverFails
PROPERTIES
    RefinesViewMaintenance
