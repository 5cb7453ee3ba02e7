CONSTANTS
    Turn = {t1}
    Thread = {a, b}
    First = a
    NoTurn = none
    NoRecord = none
    MaxSent = 3
    Races = {"double", "switch", "overtake"}
SPECIFICATION FairSpec
CHECK_DEADLOCK FALSE
INVARIANTS
    WorkingIsAwaited
PROPERTIES
    EndedTurnsSettle
    EndedTurnsAreSaved
