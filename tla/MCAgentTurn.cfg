CONSTANTS
    read = read
    write = write
    trash = trash
    note = note
    Call = {read, write, trash, note}
    Tool = {read, write, trash, note}
    ToolOf <- MCToolOf
    Needs <- MCNeeds
    Kind <- MCKind
    Effectful = {write, trash, note}
    MaxSteps = 2
    MaxBatch = 2
    NoCall = none
SPECIFICATION FairSpec
CHECK_DEADLOCK FALSE
INVARIANTS
    EffectsWithinSteps
PROPERTIES
    KeepsToolPromise
    StopHolds
    CancelledTurnEnds
