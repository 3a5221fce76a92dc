SPECIFICATION FairSpec
CONSTANTS
    Symbols = {"a", "b"}
    HotLists <- MCHotLists
    Layer2 = {}
    Layer3 = {}
    Probs <- MCProbs
    Prices <- MCPrices
    QueueMax = 1
    Threshold <- MCThreshold
    MaxPositions = 1
    Others = 1
INVARIANTS
    TypeOK
PROPERTIES
    HeldWatched
    CycleEnds
    SubscriptionFollows
