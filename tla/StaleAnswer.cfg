SPECIFICATION Spec
CONSTANTS
    s1 = s1
    s2 = s2
    o1 = o1
    o2 = o2
    Symbols = {s1}
    OrderIds = {o1}
    Lot = 1
    MaxPositions = 1
    MaxOpens = 1
    MaxCrashes = 0
    Modes = {{"reconciler"}}
    RiskReasons = {}
    SentinelReasons = {}
    main = main
    risk = risk
    sentinel = sentinel
    NoPosition = NoPosition
    NoOrder = NoOrder
    NoJob = NoJob
    NoId = NoId
PROPERTY ZombieRemovalIsSound
