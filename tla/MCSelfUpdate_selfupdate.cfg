SPECIFICATION FairSpec
CONSTANTS
    None = None
    CID = {c1, c2, c3}
    Jobs = {j1}
    Images = {v1, v2}
    Good = {v1}
    InitImage = v1
    Specs = {s1}
    Healthcheck = TRUE
    Faults = {"inspect", "pull", "create", "start", "stop", "rename"}
    MaxCrashes = 2
    MaxKills = 1
INVARIANTS KnownGoodKept RecoverAlone
PROPERTIES JobsFinish SpinnerResolves VeeryReturns VerdictKind
