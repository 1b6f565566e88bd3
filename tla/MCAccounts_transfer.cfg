CHECK_DEADLOCK FALSE
SPECIFICATION Spec
CONSTANTS
    Users = {adm, tea}
    Admin = adm
    Teacher = tea
    Clients = {c1, c2}
    None = None
    MaxVersion = 2
INVARIANTS
    AdminRemains
