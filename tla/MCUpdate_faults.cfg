SPECIFICATION Spec
CONSTANTS
    None = None
    CID = {c1, c2, c3}
    Jobs = {j1, j2}
    Images = {v1, v2}
    Good = {v1}
    InitImage = v1
    Specs = {s1, s2}
    Healthcheck = FALSE
    Faults = {"inspect", "pull", "create", "start", "stop", "rename", "list"}
    InitStates = {"running"}
    MaxCrashes = 1
    MaxRecreates = 1
SYMMETRY Symmetry
INVARIANTS KnownGoodKept NameHeldByVerified IndInv
PROPERTIES ImplementsSwap
