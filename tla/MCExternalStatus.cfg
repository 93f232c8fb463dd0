SPECIFICATION FairSpec
CONSTANTS
    Grace = 1
    AttestWindow = 2
    AfterFailures = 2
    AfterNoSuccess = 2
    Urls = {u1, u2}
    None = None
    MaxTime = 2
    MaxEvents = 2
INVARIANTS VerdictsExpire DisabledStaysOut
PROPERTIES  CatalogueFollowsRows 
