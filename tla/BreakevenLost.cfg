SPECIFICATION HistorySpec
CONSTANTS
    Levels <- MCLevels
    Ruin = 1000
    Stops <- MCStops
    Workers = 3
    PoolTasks = {"book", "recon", "macro"}
PROPERTY BreakevenKept
CHECK_DEADLOCK FALSE
