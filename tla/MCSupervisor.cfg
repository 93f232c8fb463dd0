SPECIFICATION FairSpec
CONSTANTS
    Names <- MCNames
    Addresses <- MCAddresses
    Configs <- MCConfigs
    Callers = {p1}
    MaxReload = 1
CHECK_DEADLOCK FALSE
INVARIANTS
    ReconcileKeepsIntent
    OnlyStartRevives
    CloseOutlastsReconcile
PROPERTY
    DeclaredIsServed
