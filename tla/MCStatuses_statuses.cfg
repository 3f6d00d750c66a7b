SPECIFICATION FairSpec
CONSTANTS
    None = None
    Containers = {c1, c2}
    Poller = poller
    Others = {job}
    HostStates = {"running", "crashed", "gone"}
    MaxOthers = 2
    MaxUpsets = 2
INVARIANT NothingRepeated
PROPERTY LastWordTrue
