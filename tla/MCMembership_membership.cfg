CONSTANTS
    Users = {c, u}
    Creator = c
    Roles = {"admin", "viewer"}
    Handlers = {h1, h2}
    MaxMembers = 3
    MaxInvites = 2
    MaxErrors = 1
    OneAtATime = TRUE
    None = None
SPECIFICATION Spec
INVARIANTS TypeOK  CountRight
 
SYMMETRY Symmetry
CHECK_DEADLOCK FALSE
