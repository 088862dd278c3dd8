SPECIFICATION MCSpec
CONSTANTS
    Inos <- MCInos
    RootIno = 1
    Names <- MCNames
    MaxSize = 1
    Plain = {a}
    TrashName = dotTrash
    TTL = 2
    MaxClock = 3
    MaxEvents = 4
    f1 = f1
    f2 = f2
    Wires <- ThreeWires
    Inodes = {f1, f2}
    InoOf <- MCInoOf
    SizeOf <- MCSizeOf
    Target = 3
INVARIANTS
    NlinkExact
    TreeConnected
    RowsHaveInodes
    RmIsRecoverable
    ReplayIdempotent
    ExtentsDisjoint
    StagedUntilCommitted
    FullBufferSignalled
PROPERTIES
    ImplementsQueue
    Answered
CHECK_DEADLOCK FALSE
