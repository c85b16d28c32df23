SPECIFICATION SideSpec
CONSTANTS
    Row <- NettingRow
    Received <- NettingReceived
    Stratum <- NettingStratum
    Scc <- NettingScc
    Inst <- NettingInst
INVARIANTS
    ViewExact
    LowerFinal
    DrainContract
