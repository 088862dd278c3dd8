\* Two slots, a staging gate that admits one upload, a pool of one slot, dedup,
\* local faults and a crash.  No symmetry: these are liveness properties.
SPECIFICATION FairSpec
CONSTANTS
    Idx <- TwoSlots
    Jobs = {j1}
    NoJob = NoJob
    Concurrency = 1
    PackThreshold = 2
    DirtyCap = 2
    Dedup = TRUE
    Allow = {"localFault"}
    MaxWrites = 2
    MaxCrashes = 1
PROPERTIES
    UploadsEnd
    SyncReturns
    RecoveryCompletes
CHECK_DEADLOCK FALSE
