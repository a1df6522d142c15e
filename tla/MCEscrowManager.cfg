SPECIFICATION FairSpec
CONSTANTS
    Campaigns = {c1, c2}
    Reservations = {r1, r2}
    Publishers = {p1, p2}
    Advertisers = {adv}
    Escrow = escrow
    NoOne = noOne
    NoReservation = noReservation
    Amounts = {1, 2}
    TTLs = {0, 1}
    Holdbacks = {500}
    Supply = 3
    MaxTime = 3
CHECK_DEADLOCK FALSE
INVARIANTS
    BudgetAccounted
    EveryCoinHasAReservation
    Solvent
PROPERTIES
    SettledForever
    NothingStaysLocked
    ImplementsIdealEscrow
