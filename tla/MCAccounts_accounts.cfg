SPECIFICATION Spec
CONSTANTS
    None = None
    Users = {u1, u2, empty}
    Empty = empty
    Invites = {i1, i2}
    Idents = {x1}
    Ceremonies = {c1}
    Requests = {r1, r2}
    Creations = {"enroll", "recover", "device"}
    HasAdminGroups = TRUE
SYMMETRY Symmetry
CHECK_DEADLOCK FALSE
INVARIANTS InviteOnce AdminRemains DeletedStaysDeleted EntryOffered
