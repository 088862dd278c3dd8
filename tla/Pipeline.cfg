\* Two slots, both routes, network and database failures, truncation, unlink,
\* a crash and the recovery of the next mount.
SPECIFICATION Spec
CONSTANTS
    Idx <- TwoSlots
    Jobs = {j1, j2}
    NoJob = NoJob
    Concurrency = 1
    PackThreshold = 2
    DirtyCap = 1
    Dedup = FALSE
    Allow = {"truncate", "unlink"}
    MaxWrites = 2
    MaxCrashes = 1
SYMMETRY JobSymmetry
INVARIANTS
    TypeOK
    EntriesOwned
    SyncedIsDurable
    NoLostWrite
    OneUploadPerSlot
    NoRowAfterUnlink
CHECK_DEADLOCK FALSE
