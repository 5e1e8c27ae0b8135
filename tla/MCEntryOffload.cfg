CONSTANTS
    NumEntries = 2
    SealAfter = 2
    MaxRetries = 1
    MaxCrashes = 1
    MaxFaults = 1
SPECIFICATION Spec
CHECK_DEADLOCK FALSE
INVARIANTS TypeOK BytesSurvive FlushedReachable ReadsWholeRecords
PROPERTIES RemovedOnlyUploaded SealedUploaded
