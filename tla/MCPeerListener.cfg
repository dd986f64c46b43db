CONSTANTS
    Conns = {a, b, c, x}
    Trusted = {a, b, c}
    Cap = 2
    Backlog = 2
    MaxFaults = 2
SPECIFICATION FairSpec
INVARIANTS
    SlotsAccounted
PROPERTIES
    QueueMoves
    SignalStops
