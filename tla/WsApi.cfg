SPECIFICATION FairSpec
CONSTANTS
    c1 = c1
    c2 = c2
    Callers = {c1, c2}
    Link = Link
    MaxRequests = 3
    MaxDrops = 2
    Nobody = Nobody
INVARIANTS
    TypeOK
    AnswerIsOwn
    NoPendingLeak
    TurnsTaken
PROPERTIES
    KeepsPromise
    RequestReturns
    LinkComesBack
CHECK_DEADLOCK FALSE
