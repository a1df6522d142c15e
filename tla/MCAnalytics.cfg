SPECIFICATION TrackerSpec
CONSTANTS
    p1 = p1
    p2 = p2
    m1 = m1
    Operations <- MCOperations
    Calls = {k1, k2, k3}
    Publishers = {p1, p2}
    Known = {p1}
    Miners = {m1}
    NoMiner = noMiner
    Latencies = {1, 4}
    Prices = {150}
    StreamCapacity = 1
    MaxMinute = 1
CHECK_DEADLOCK FALSE
INVARIANTS
    RatesWithinObserved
    LedgersAgreeAtRest
PROPERTY
    CallsReturn
