\* The file is opened for writing while recoverPending still has its wires.
SPECIFICATION Spec
CONSTANTS
    Idx <- OneSlot
    Jobs = {j1, j2}
    NoJob = NoJob
    Concurrency = 1
    PackThreshold = 2
    DirtyCap = 1
    Dedup = FALSE
    Allow = {"reopen"}
    MaxWrites = 3
    MaxCrashes = 1
SYMMETRY JobSymmetry
INVARIANTS
    SyncedIsDurable
CHECK_DEADLOCK FALSE
