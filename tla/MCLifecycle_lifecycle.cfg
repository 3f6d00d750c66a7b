SPECIFICATION LSpec
CONSTANTS
    None = None
    CID = {c1, c2, c3}
    Jobs = {j1}
    Actors = {a1}
    Images = {v1, v2}
    Good = {v1}
    InitImage = v1
    Specs = {s1, s2}
    Healthcheck = TRUE
    Faults = {}
    InitStates = {"running", "stopped"}
    MaxCrashes = 1
    MaxRecreates = 1
SYMMETRY Symmetry
CHECK_DEADLOCK FALSE
INVARIANTS LTypeOK RecordNotTentative RecordVerified UpdateKeepsSpec NameHeldByVerified

