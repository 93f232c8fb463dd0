SPECIFICATION Spec
CONSTANTS
    Tasks = {t1, t2}
    Requests = {r1}
    Conns = {c1}
    Leaves = {leafA, leafB}
    Attestable = {leafA}
    NoPin = NoPin
    Nil = Nil
    FailModes = {"closed", "open"}
    OnDemandRetry = 1
    VerdictCacheTTL = 1
    MaxAge = 1
    MaxGeneration = 3
    MaxReload = 0
SYMMETRY Symmetry
INVARIANTS
    SingleFlight
    NoStaleGeneration
    NoOrphanLoop
    AdmittedSinceTeardown

    
