CONSTANTS
    N = 4
    Ensemble <- MCThreeNodes
    WriteQuorum = 3
    AckQuorum = 2
    Data = {d1}
    NoData = NoData
    Recoverers = {}
    Sealing = TRUE
    MaxEntries = 2
    MaxFaults = 2
    MaxStoreErrors = 1
SPECIFICATION FairSpec
CHECK_DEADLOCK FALSE
INVARIANTS TypeOK  StoredIsPrefix
PROPERTY AppendReturns
