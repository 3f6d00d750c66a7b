SPECIFICATION LiveSpec
CONSTANTS
    None = None
    s1 = s1
    CID = {c1, c2, c3}
    Services = {web}
    Stacks = {s1}
    StackOf <- OneStack
    Specs = {good, bad}
    Good = {good}
    MaxRows = 4
    Adopters = {a1, a2}
    MaxCalls = 2
    MaxRecreates = 2
CHECK_DEADLOCK FALSE
INVARIANTS ForgottenStays OneRowPerName
PROPERTY RecordFollows
