SPECIFICATION FairSpec
CONSTANTS
    Conns = {c1, c2}
    Limits = {0, 1}
    None = None
INVARIANTS TypeOK StoreOutlivesItsThreads NoThreadIsLeft
PROPERTIES StopReturns StopWaitsForPeers
CHECK_DEADLOCK FALSE
