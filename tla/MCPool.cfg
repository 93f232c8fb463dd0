SPECIFICATION PoolFairSpec
CONSTANTS
    Conns = {c1, c2, c3}
    Leaves = {leafA, leafB}
    NoPin = NoPin
INVARIANTS
    PinnedConns
    LiftedPinKeepsNothing
PROPERTY
    StaleConnsClose
