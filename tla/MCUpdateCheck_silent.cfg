SPECIFICATION Spec
CONSTANTS
    None = None
    Containers = {c1}
    Poller = poller
    Manual = {}
    MaxVersion = 2
    MaxUpdates = 1
    MaxRecreates = 0
    MaxSwitches = 0
    MaxFaults = 0
    MaxCrashes = 1
PROPERTY UpdateAnnounced
