SPECIFICATION FairSpec
CONSTANTS
    Requests = {r1, r2}
    Silent = {r1}
    SpendLimit = 1
    Credit = 1
    BucketLimit <- MCBucketLimit
    Faults = TRUE
CHECK_DEADLOCK FALSE
INVARIANTS OneRow StreamTerminated StatusTruthful BudgetRefuses
PROPERTIES HangUpEnds RequestsEnd
