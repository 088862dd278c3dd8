\* Repair: two slots of a file, two misfortunes.
\* GC: four messages, three of them within the page limit, two retained.
\* Console: two requests at a time, two daemons, one profile and mountpoint.
SPECIFICATION Spec
SYMMETRY Symmetry
CONSTANTS
    ChunkSize = 2
    MaxSize = 3
    MaxTrouble = 2
    Allow = {}
    Keys = {k1, k2}
    Retention = 2
    Pages = 3
    MaxMsgs = 4
    MaxAge = 2
    Requests = {r1, r2}
    Profiles = {p1}
    Unnamed = {}
    Mountpoints = {m1}
    MaxPid = 2
    Watchdog = 1
    StopWait = 2
    Races = {}
INVARIANTS
    RowsReachable
    SnapshotsReplayable
    StopMeansGone
    ShutdownCompletes
PROPERTIES
    RepairKeepsData
    OneDaemon
CHECK_DEADLOCK FALSE
