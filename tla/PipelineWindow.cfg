\* A failed upload's chunk is dispatched again in the exit window.
SPECIFICATION Spec
CONSTANTS
    Idx <- OneSlot
    Jobs = {j1, j2}
    NoJob = NoJob
    Concurrency = 1
    PackThreshold = 2
    DirtyCap = 1
    Dedup = FALSE
    Allow = {"exitWindow"}
    MaxWrites = 2
    MaxCrashes = 0
SYMMETRY JobSymmetry
INVARIANTS
    UploadsTracked
CHECK_DEADLOCK FALSE
