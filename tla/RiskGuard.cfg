SPECIFICATION FairSpec
CONSTANTS
    Levels <- MCLevels
    Ruin = 1000
    Stops <- MCStops
    Workers = 3
    PoolTasks = {"book", "recon", "macro"}
INVARIANTS
    TypeOK
    WaitsEnd
PROPERTIES
    FloorKept
    FloorRises
    OverdueClosed
CHECK_DEADLOCK FALSE
