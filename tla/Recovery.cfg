\* Batches of one, a failed step, a crash with or without the database.
SPECIFICATION FairSpec
CONSTANTS
    Inos <- FewInos
    RootIno = 1
    Names = {a, b}
    MaxSize = 0
    BatchSize = 1
    Retention = 1
    OpDuringTake = FALSE
    MaxOps = 2
    MaxRows = 1
    MaxTrouble = 1
INVARIANTS
    FirstLossRecovers
    SyncedCoversNames
    RetainedReplayable
PROPERTIES
    Settles
CHECK_DEADLOCK FALSE
