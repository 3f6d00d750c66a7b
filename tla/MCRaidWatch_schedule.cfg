SPECIFICATION Spec
CONSTANTS
    None = None
    early = early
    late = late
    Arrays = {a1, a2}
    Rules = {early}
    Occ <- Occurrences
    RetryDelays <- Delays
    Requests = {q1}
    Disturb = {}
    StartFaults = TRUE
    MaxTime = 3
    MaxEdits = 1
    MaxCrashes = 0
SYMMETRY Symmetry
INVARIANTS SweepCurrent PendingRetryDue OncePerOccurrence ScheduleInv AttemptsBounded
