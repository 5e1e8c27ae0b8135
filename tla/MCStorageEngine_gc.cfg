SPECIFICATION Spec
CONSTANTS
    Size <- MCSize
    Entries = {1, 2}
    Align = 2
    SealAt = 4
    EntrySealAt = 1
    Pressure = TRUE
    MaxBatch = 1
    MaxSegment = 1
    MaxErrors = 0
    MaxCrashes = 0
CHECK_DEADLOCK FALSE
PROPERTY GcOnlyFlushed
