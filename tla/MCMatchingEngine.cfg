SPECIFICATION FairSpec
CONSTANTS
    Slots = {s1, s2}
    MaxOrders = 3
    Prices = {5, 10}
    Quantities = {0, 1, 2}
    DecayPercent = 79
    Free = free
CHECK_DEADLOCK FALSE
INVARIANTS
    UnitsAccounted
    PricePriority
PROPERTY
    AuctionsEnd
