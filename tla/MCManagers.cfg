SPECIFICATION MCSpec
CONSTANTS
    Devices = {d1, d2, d3}
    Campaigns = {c1}
    Caps = {0, 1, 2}
    Byte = 2
    None = none
    BucketSizes = {1, 2}
    MaxTokens = 3
    MaxEpoch = 1
    FieldModulus = 97
    ShortDigests <- NoShortDigests
    Word = 16
    HaloAdvertisers = {a1, a2}
    Amounts = {4, 9}
    DefaultBudget = 5
    MaxDeductions = 3
    Advertisers = {a1, a2}
    Publishers = {p1}
    MaxUint = 4
    NoBudget = noBudget
    NoProof = noProof
    MaxReceipts = 2
    MaxCharged = 5
    alice = alice
    bob = bob
    PrivateKeys = {alice, bob}
    BadKey = badKey
    Failed = failed
    Layers = {"celestia", "local"}
    Plaintexts = {p, q}
    AADs = {aad}
    RecipientLists <- Lists
    MaxBlobSize = 7
    BlobExpiration = 1
    MaxBlobs = 2
    MaxTime = 3
SYMMETRY AnyDevice
CHECK_DEADLOCK FALSE
INVARIANTS
    RootCommitsToCounts
    TokensRedeemedOnce
    StateIsProven
    ManagersAgree
    BudgetConserved
    ProofsChain
    DeductionsSettledOnce
    ReadsAreCommitted
    RecipientsOpen
