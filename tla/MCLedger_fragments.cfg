CONSTANTS
    N = 4
    Ensemble <- MCTwoNodes
    WriteQuorum = 2
    AckQuorum = 2
    Data = {d1}
    NoData = NoData
    Recoverers = {r1}
    Sealing = FALSE
    MaxEntries = 3
    MaxFaults = 2
    MaxStoreErrors = 0
SPECIFICATION Spec
CHECK_DEADLOCK FALSE
INVARIANT SealCoversEarlierFragments
