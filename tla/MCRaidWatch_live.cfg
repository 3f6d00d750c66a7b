SPECIFICATION FairSpec
CONSTANTS
    None = None
    early = early
    late = late
    Arrays = {a1}
    Rules = {early}
    Occ <- Occurrences
    RetryDelays <- OneDelay
    Requests = {}
    Disturb = {"disk", "sync", "inactive", "vanish"}
    StartFaults = TRUE
    MaxTime = 2
    MaxEdits = 0
    MaxCrashes = 1
PROPERTIES AnnouncedFirst DueServed WarningClears
