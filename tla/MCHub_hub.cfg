SPECIFICATION LiveSpec
CONSTANTS
    None = None
    Pages = {p1}
    UpdateJobs = {u1}
    OtherJobs = {s1}
    Lists = {l1, l2}
    Cap = 2
    MaxChanges = 1
    MaxFaults = 1
    MaxJobs = 1
CHECK_DEADLOCK FALSE
INVARIANTS ReplayClears FinalSeen
PROPERTY StacksConverge
