CHECK_DEADLOCK FALSE
SPECIFICATION Spec
CONSTANTS
    Changes = {c1, c2, c3}
    Configs = {k1, k2}
    Threads = {t1, t2}
    None = None
    MaxFaults = 0
SYMMETRY Symmetry
INVARIANT StackOrder
