CHECK_DEADLOCK FALSE
SPECIFICATION Spec
CONSTANTS
    Changes = {c1, c2, c3, c4}
    Configs = {k1, k2}
    Threads = {t1}
    None = None
    MaxFaults = 1
SYMMETRY Symmetry
INVARIANTS
    TypeOK
    RestoreFromSnapshot
PROPERTIES
    IsStack
    RedoReturns
