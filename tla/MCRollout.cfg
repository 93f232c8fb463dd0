SPECIFICATION FairSpec
CONSTANTS
    Writers = {w1, w2}
    Configs = {empty, one, two, bare}
    Runnable = {one, two}
    Torn = Torn
    None = None
    Restores = FALSE
    MaxEdits = 3
    MaxCrashes = 2
CHECK_DEADLOCK FALSE
INVARIANTS FileFollowsRows
PROPERTIES NeverHalf ChangesReachChild
