SPECIFICATION Spec
CONSTANTS
    Honest = {m1}
    Byz = {b}
    Callers = {c1}
    Handlers = {h1, h2}
    Ids = {i1, i2, i3}
    Genesis = genesis
    NoHeader = none
    MaxHeaders = 3
CHECK_DEADLOCK FALSE
PROPERTY
    Quarantine
