SPECIFICATION Spec
CONSTANTS
    Page = {a, b}
    Key = {k1, k2}
    Capacity = 1
    MaxDemand = 1
    Url = {u1, u2, u3, u4, u5}
    None = None
INVARIANTS
    ImagesLiveWhileNeeded
    ShownIsCurrent
PROPERTIES
    ThumbnailsCatchUp
CHECK_DEADLOCK FALSE
