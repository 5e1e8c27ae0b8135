CONSTANTS
    N = 3
    Ensemble <- MCTwoNodes
    WriteQuorum = 2
    AckQuorum = 2
    Data = {d1}
    NoData = NoData
    Recoverers = {r1, r2}
    Sealing = FALSE
    MaxEntries = 3
    MaxFaults = 1
    MaxStoreErrors = 0
SPECIFICATION Spec
CHECK_DEADLOCK FALSE
SYMMETRY MCSymmetry
INVARIANTS SealCoversStored SealShortByAtMostOne
