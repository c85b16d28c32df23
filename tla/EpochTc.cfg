SPECIFICATION Spec
CONSTANTS
    Row <- TcRow
    Received <- TcReceived
    Stratum <- TcStratum
    Scc <- TcScc
    Inst <- TcInst
INVARIANTS
    CountersExact
    FreshClaims
PROPERTIES
    BatchSettles
    RefinesViewMaintenance
