CONSTANTS
    n1 = n1  n2 = n2  n3 = n3  n4 = n4
    Nodes = {n1, n2, n3, n4}
    NoNode = NoNode
    Auditors = {n3, n4}
    LastEntry = 2
    Ledgers <- MCLedgers
    Resolvers <- MCResolvers
    MaxBoots = 2
    Down = {n1}
    Failing = {n1, n3}
    MaxFaults = 1
SPECIFICATION Spec
CHECK_DEADLOCK FALSE
INVARIANTS RepairsSound SteadyNodeListed
PROPERTIES ReplicaExchanged OnlyDeletedReplaced StoppedUnlisted 
