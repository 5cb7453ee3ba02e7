CONSTANTS
    Scene = {s1, s2}
    MaxVersions = 6
    Scenarios <- MCScenarios
    Nothing = Nothing
SPECIFICATION FairCameraSpec
INVARIANTS
    CacheIsTrue
    ReadyIsNotMissed
PROPERTIES
    OnlyPresentIsApplied
    EveryCallIsAnswered
    NavigatorCatchesUp
CHECK_DEADLOCK FALSE
