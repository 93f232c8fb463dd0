SPECIFICATION FairSpec
CONSTANTS
    Workspace = ws
    Intents = {i1, i2}
    Generations = {g1}
    Threads = {t1}
    Amount = 2
    Cost = 1
    Threshold = 3
    Cooldown = 2
    Delayed = TRUE
    MaxRefunds = 1
    MaxTime = 0
    Nothing = Nothing
CHECK_DEADLOCK FALSE
INVARIANTS CheckoutCreditedOnce 
PROPERTY PaidIsCredited
