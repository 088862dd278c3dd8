\* A second loss, after a recovery that replayed the journal.
SPECIFICATION Spec
CONSTANTS
    Inos <- FewInos
    RootIno = 1
    Names = {a, b}
    MaxSize = 0
    BatchSize = 1
    Retention = 1
    OpDuringTake = FALSE
    MaxOps = 2
    MaxRows = 0
    MaxTrouble = 1
INVARIANTS
    EveryLossRecovers
CHECK_DEADLOCK FALSE
