SPECIFICATION Spec
CONSTANTS
    Writers = {w1, w2}
    Configs = {empty, one, two, bare}
    Runnable = {one, two}
    Torn = Torn
    None = None
    Restores = TRUE
    MaxEdits = 2
    MaxCrashes = 0
CHECK_DEADLOCK FALSE
INVARIANT FileIsRows
