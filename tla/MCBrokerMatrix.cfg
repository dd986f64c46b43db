CONSTANTS
    Runs = {r1}
    Asked <- MatrixAsked
    Installed <- MatrixPolicies
    Written <- MatrixWritten
    Trees <- Moving
    PipeCap = 1
    MaxOut = 2
SPECIFICATION FairSpec
CHECK_DEADLOCK FALSE
INVARIANTS
    RanOnlyAuthorized
PROPERTIES
    ClientReturns
