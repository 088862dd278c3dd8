SPECIFICATION Spec
CONSTANTS
    Idx <- MCIdx
    Procs <- MCProcs
    NoProc = NoProc
    Readers = {r1}
    Ahead = {a1}
    Blob = blob
    DiskCap = 1
    MemCap = 1
    MaxVer = 2
    QueueCap = 1
    Allow = {}
    MaxReads = 2
    MaxUploads = 1
    MaxFaults = 1
INVARIANTS CacheFresh LostOnlyAfterFailure WaitsAreBacked
CHECK_DEADLOCK FALSE
