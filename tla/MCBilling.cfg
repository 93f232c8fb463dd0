SPECIFICATION Spec
CONSTANTS
    Workspace = ws
    Intents = {i1, i2, i3}
    Generations = {g1, g2}
    Threads = {t1, t2}
    Amount = 2
    Cost = 1
    Threshold = 3
    Cooldown = 2
    Delayed = FALSE
    MaxRefunds = 0
    MaxTime = 2
    Nothing = Nothing
CHECK_DEADLOCK FALSE
INVARIANTS ChargesSpaced ChargesFirstCustomer
