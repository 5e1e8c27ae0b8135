SPECIFICATION Spec
CONSTANTS
    Size <- MCSize
    Entries = {1, 2}
    Align = 2
    SealAt = 4
    EntrySealAt = 2
    Pressure = TRUE
    MaxBatch = 2
    MaxSegment = 1
    MaxErrors = 1
    MaxCrashes = 1
CHECK_DEADLOCK FALSE
INVARIANTS TypeOK     SealIdFresh
  
