SPECIFICATION Spec
CONSTANTS
    s1 = s1
    s2 = s2
    o1 = o1
    o2 = o2
    Symbols = {s1, s2}
    OrderIds = {o1, o2}
    Lot = 2
    MaxPositions = 1
    MaxOpens = 2
    MaxCrashes = 0
    Modes = {{"liquidation"}, {"dryRun", "liquidation"}, {"restFail"}, {"lostReply", "liquidation"}}
    RiskReasons = {"hard", "exit"}
    SentinelReasons = {"stop"}
    main = main
    risk = risk
    sentinel = sentinel
    NoPosition = NoPosition
    NoOrder = NoOrder
    NoJob = NoJob
    NoId = NoId
SYMMETRY Symmetry
CHECK_DEADLOCK FALSE
INVARIANTS
    NoBlindExposure
    OpenIsExact
    OpenedWithinLimit
    OneClosePerPosition
PROPERTIES
    ForgottenOnlyWhenFlat
