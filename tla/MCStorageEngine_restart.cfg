SPECIFICATION Spec
CONSTANTS
    Size <- MCSize
    Entries = {1, 2}
    Align = 2
    SealAt = 4
    EntrySealAt = 2
    Pressure = FALSE
    MaxBatch = 1
    MaxSegment = 1
    MaxErrors = 0
    MaxCrashes = 1
CHECK_DEADLOCK FALSE
INVARIANTS AckedRecovered
