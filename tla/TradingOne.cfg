SPECIFICATION FairSpec
CONSTANTS
    s1 = s1
    s2 = s2
    o1 = o1
    o2 = o2
    Symbols = {s1}
    OrderIds = {o1}
    Lot = 1
    MaxPositions = 1
    MaxOpens = 1
    MaxCrashes = 1
    Modes = {{"crash", "reconciler"}, {"lostReply", "slowClose", "liquidation", "reconciler"}, {"lostReply", "crash", "reconciler"}, {"dryRun", "crash", "restFail", "reconciler"}, {"restFail", "reconciler"}}
    RiskReasons = {"hard"}
    SentinelReasons = {}
    main = main
    risk = risk
    sentinel = sentinel
    NoPosition = NoPosition
    NoOrder = NoOrder
    NoJob = NoJob
    NoId = NoId
INVARIANTS
    TypeOK
    LockHasOwner
    NoOrphanOrders
PROPERTIES
    DryRunPlacesNothing
    KeepsLeases
    GhostTracked
    ZombieRemoved
