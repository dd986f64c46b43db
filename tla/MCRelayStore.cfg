CONSTANTS
    Ids = {r1, r2, r3}
    TTL = 2
    SweepAfter = 1
    Limit = 2
SPECIFICATION StoreSpec
INVARIANTS
    StoreBounded
PROPERTIES
    ClosedStaysClosed
    SweepSparesLive
    StoreDrains
