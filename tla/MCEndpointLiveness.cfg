SPECIFICATION FairSpec
CONSTANTS
    Tasks = {t1, t2}
    Requests = {}
    Conns = {}
    Leaves = {leafA, leafB}
    Attestable = {leafA}
    NoPin = NoPin
    Nil = Nil
    FailModes = {"closed"}
    OnDemandRetry = 1
    VerdictCacheTTL = 0
    MaxAge = 1
    MaxGeneration = 3
    MaxReload = 1
PROPERTIES
    
    RunningGetsVerdict
    ReloadTakesHold
