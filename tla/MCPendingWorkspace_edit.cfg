CHECK_DEADLOCK FALSE
SPECIFICATION Spec
CONSTANTS
    Drafts = {d1, d2}
    Texts = {x1, x2}
    Tabs = {b1}
    Clients = {c1}
    None = None
    NoSnapshot = NoSnapshot
    MaxJournal = 3
    MaxFaults = 1
SYMMETRY Symmetry
INVARIANTS
    TypeOK
    RunsAsApproved
PROPERTIES
    ApprovedIsFrozen
    SaveIsFresh
    IsTimeline
