SPECIFICATION Spec
CONSTANTS
    None = None
    Kinds = {"status", "auth"}
    DefaultEventLimit = 1
    MaxEventLimit = 2
    Limits = {0, 3}
    Retention = 1
    MaxTime = 2
    MaxEvents = 3
    MaxLosses = 1
CHECK_DEADLOCK FALSE
INVARIANTS PagesInOrder NothingSkipped
