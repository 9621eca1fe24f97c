SPECIFICATION Spec
CONSTANTS
    Threads = {t1, t2}
    Players = {p1, p2}
    Windows = {w1, w2, w3}
    MaxHandle = 3
INVARIANTS
    OneOwner
    ReleasedIsOver
PROPERTIES
    EveryCallReturns
