\* A chunk_map row that lands while a snapshot is on its way.
SPECIFICATION Spec
CONSTANTS
    Inos <- FewInos
    RootIno = 1
    Names = {a, b}
    MaxSize = 0
    BatchSize = 1
    Retention = 1
    OpDuringTake = FALSE
    MaxOps = 2
    MaxRows = 1
    MaxTrouble = 1
INVARIANTS
    SyncedCoversAll
CHECK_DEADLOCK FALSE
