SPECIFICATION Spec
CONSTANTS
    None = None
    Stamps = {s1, s2, s3, s4, s5, s6, s7}
    MaxEdits = 2
    MaxChanges = 2
    MaxRacing = 1
    MaxCrashes = 0
    MaxCalls = 2
    Scenarios = {{}, {"overlap", "change", "mode"}}
INVARIANTS
    CleanMeansSaved
    LastEditIsKept
PROPERTIES
    OthersWorkIsSeen
CHECK_DEADLOCK FALSE
