SPECIFICATION FairSpec
CONSTANTS
    r1 = r1
    r2 = r2
    d1 = d1
    d2 = d2
    Requests = {r1, r2}
    DSPs = {d1, d2}
    Offers <- MCOffers
    Blocked <- MCBlocked
    NoBid = noBid
    FloorPrice = 20
    Dollar = 10
    MaxTokens = 1
    Refill = 2
    Capacity = 2
    MaxTime = 2
CHECK_DEADLOCK FALSE
INVARIANTS
    AnswerIsBestReceived
    RateLimited
PROPERTY
    EverythingEnds
