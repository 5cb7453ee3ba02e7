CONSTANTS
    Turn = {t1, t2}
    Thread = {a, b}
    First = a
    NoTurn = none
    NoRecord = none
    MaxSent = 2
    Races = {}
SPECIFICATION Spec
CHECK_DEADLOCK FALSE
SYMMETRY MCTurns
INVARIANTS
    DeletedStaysDeleted
    NeverFalselyFailed
PROPERTIES
    HistoryIsKept
