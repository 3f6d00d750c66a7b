SPECIFICATION LFairSpec
CONSTANTS
    None = None
    CID = {c1, c2, c3}
    Jobs = {j1}
    Actors = {a1}
    Images = {v1, v2}
    Good = {v1}
    InitImage = v1
    Specs = {s1}
    Healthcheck = FALSE
    Faults = {}
    InitStates = {"running"}
    MaxCrashes = 1
    MaxRecreates = 0
CHECK_DEADLOCK FALSE
INVARIANTS NothingParked
PROPERTIES AllReturn NameComesBack
