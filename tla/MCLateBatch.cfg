SPECIFICATION ChainVMSpec
CONSTANTS
    Campaigns = {c1}
    Reservations = {r1, r2}
    Publishers = {p1, p2}
    Advertisers = {adv, escrow}
    EscrowAccount = escrow
    NoOne = noOne
    NoReservation = noReservation
    Amounts = {5}
    Deals <- MCDeals
    TTLs = {1}
    Holdbacks = {2000}
    Supply = 10
    MaxBudget = 10
    MaxDeals = 1
    MaxTime = 3
    Buckets = {q1, q2}
    Idle = idle
    MaxProofs = 2
    Slots = {s1}
    SlotPublishers = {pub}
    Traders = {t1}
    Orders = {o1}
    None = none
    Windows <- MCWindows
    Supplies = {2}
    Floors = {2}
    Prices = {1, 3}
    SealedPrices = {1}
    DeliveryCounts = {1, 7}
    Liquidities <- MCLiquidities
    SwapAmounts = {1, 2, 7}
    Rates = {4, 6}
    One = 4
    Scale = 2
    Word = 8
    Funds = 1
    Pool = pool
    MaxReserve = 4
    MaxClock = 3
SYMMETRY Interchangeable
CHECK_DEADLOCK FALSE
INVARIANT
    DeliveredIsPaid
