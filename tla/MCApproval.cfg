CONSTANTS
    c1 = c1
    c2 = c2
    Ids = {c1, c2}
    TTL = 1
    SweepAfter = 1
    Limit = 1
    Timeout = 3
    Oversized = {}
SPECIFICATION BusySpec
INVARIANTS
    ApprovedOnlyByHuman
    AnsweredOnce
    CauseIsHonest
PROPERTIES
    ApproveReturns
    ImplementsOneShot
