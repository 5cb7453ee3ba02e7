SPECIFICATION FairSpec
CONSTANTS
    None = None
    Stamps = {s1, s2, s3, s4, s5, s6, s7}
    MaxEdits = 2
    MaxChanges = 2
    MaxRacing = 1
    MaxCrashes = 1
    MaxCalls = 2
    Scenarios = {{"edit"}}
INVARIANTS
    DirtyIsRecoverable
PROPERTIES
    EditsAreSaved
CHECK_DEADLOCK FALSE
