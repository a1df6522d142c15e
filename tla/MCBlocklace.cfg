SPECIFICATION Spec
CONSTANTS
    Honest = {m1, m2}
    Byz = {b}
    Callers = {c1, c2}
    Handlers = {h1}
    Ids = {i1, i2, i3}
    Genesis = genesis
    NoHeader = none
    MaxHeaders = 3
SYMMETRY Interchangeable
CHECK_DEADLOCK FALSE
INVARIANTS
    HonestNeverAccused
    RoundAgreement
    DeliveredInCausalOrder
