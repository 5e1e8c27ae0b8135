CONSTANTS
    c1 = c1
    c2 = c2
    e1 = e1
    e2 = e2
    NoLedger = NoLedger
    Clients <- MCClients
    Edits <- MCEdits
    MaxId = 2
    MaxVersion = 2
    ID_GEN_CAS_RETRIES = 2
SPECIFICATION Spec
SYMMETRY MCSymmetry
CHECK_DEADLOCK FALSE
INVARIANTS TypeOK NoLostUpdate  FreshIds
PROPERTY ImplementsStore
