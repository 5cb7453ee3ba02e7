SPECIFICATION TurnSpec
CONSTANTS
    Index <- MCIndex
    Named <- MCNamed
    Loose <- MCLoose
    Fragments = 2
    MaxAttempts = 2
    MaxText = 1
    CodexCall = {c1, c2}
    MaxRounds = 2
    MaxItems = 3
    MaxCalls = 1
INVARIANTS
    CallsAreKept
    TranscriptIsTrue
CHECK_DEADLOCK FALSE
