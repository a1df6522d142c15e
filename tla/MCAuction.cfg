SPECIFICATION AuctionsSpec
CONSTANTS
    Bidders = {x, y}
    Numbers = {0, 1, 2, 3, 12}
    Short = short
    Empty = empty
    None = none
    Reserve = 1
    Modulus = 10
    MaxBids = 3
    FirstByte <- SameByte
    TwoBytes = 16
    Intn = 4
    MaxEncrypted = 3
    FieldModulus = 31
    ShortDigests <- OneShortDigest
    Word = 32
    NumBids = 2
    FirstSimulated = 1
    SimulatedStep = 1
SYMMETRY AnyBidder
CHECK_DEADLOCK FALSE
INVARIANTS
    OutcomeIsSecondPrice
    EnclaveAgrees
    AnnouncedIsProven
PROPERTY
    LateRunIsProven
