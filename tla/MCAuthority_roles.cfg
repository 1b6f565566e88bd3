CHECK_DEADLOCK FALSE
SPECIFICATION Spec
SYMMETRY LabSymmetry
CONSTANTS
    Users = {adm, tea, stu, pup}
    Admin = adm
    Second = tea
    Third = stu
    Pupil = pup
    Clients = {c1, c2}
    None = None
    MaxVersion = 1
    Projects = {lab, p2}
    DefaultLab = lab
    Lab2 = p2
    Groups = {g1, g2}
    Class = g1
    Other = g2
    Devices = {d1, d2}
    Node = d1
    Spare = d2
    First = c1
    Actions = {"config.create"}
    Delays = {0}
    MaxGrants = 2
    MaxTime = 2
    Commands = {"vlan", "route"}
    HighCommands = {"route"}
    MaxChanges = 1
    Slots = {0, 1}
    Labs = {l1, l2}
    LabLimit = 2
    LabLimits = {1, 2}
    AiLimit = 1
    MaxRecords = 2
    MaxDisturb = 2
INVARIANTS
    OneAdmin
    TokenFitsRoleAlone
    WithinIssuer
    NoDoubleBooking
    LabTellsTruth
    SubmittedWork
PROPERTIES
    LabQuota
    TransferKeepsGrants
    WritesUnderAuthority
