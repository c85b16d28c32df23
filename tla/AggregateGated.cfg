SPECIFICATION SpecGroups
CONSTANTS
    InitialCapacity = 16
    CompactFloor = 2
    Row <- RowsAndFillers
    Key <- Keys
    KeyOf <- RowKey
    HashOf <- RowHash
    KeyHash <- KeyHashes
    BatchRow = {"x", "y", "z"}
    MaxOps = 3
    InRow <- GroupRows
    GroupOf <- RowGroup
    ValueOf <- RowValue
    Functor <- Gated
    Threshold <- GroupThreshold
    Int32Min <- LeastInt
INVARIANTS
    AggregateExact
