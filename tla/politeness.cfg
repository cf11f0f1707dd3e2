SPECIFICATION Spec
CONSTANTS
    Workers = {w1, w2}
    Hosts = {A}
    Delay = 2
    MaxClock = 3
INVARIANTS
    TypeOK
    KeepsItsRate
