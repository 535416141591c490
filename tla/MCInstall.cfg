SPECIFICATION Spec
CONSTANTS
    Names = {"INSTALLER", "ROOT", "rpool", "tank", "new", "be", "data", "x"}
    Files <- MCFiles
    Bundle <- MCBundle
    Unreadable = {"missing"}
    Starts = {"main", "host", "data", "image", "loop", "nested", "bails"}
    HostPools <- MCHostPools
    HostDatasets <- MCHostDatasets
    HostDisks = {"d0"}
    MaxDepth = 4
    MaxFaults = 2
INVARIANTS
    TypeOK
    DocumentOrder
    PoolsNeverFinish
PROPERTY HostPoolsKept
