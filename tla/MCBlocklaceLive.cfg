SPECIFICATION FairSpec
CONSTANTS
    Honest = {m1, m2}
    Byz = {}
    Callers = {c1, c2}
    Handlers = {h1}
    Ids = {i1, i2, i3}
    Genesis = genesis
    NoHeader = none
    MaxHeaders = 0
CHECK_DEADLOCK FALSE
PROPERTY
    HonestHeadersSpread
