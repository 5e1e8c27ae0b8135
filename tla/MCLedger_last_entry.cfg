CONSTANTS
    N = 1
    Ensemble <- MCOneNode
    WriteQuorum = 1
    AckQuorum = 1
    Data = {d1}
    NoData = NoData
    Recoverers = {r1}
    Sealing = FALSE
    MaxEntries = 2
    MaxFaults = 0
    MaxStoreErrors = 0
SPECIFICATION Spec
CHECK_DEADLOCK FALSE
INVARIANT SealedLastCoversLac
