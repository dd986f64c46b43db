CONSTANTS
    Runs = {r1, r2}
    Asked <- PairAsked
    Installed <- Guarded
    Written <- Lifted
    Trees <- Still
    PipeCap = 1
    MaxOut = 0
SPECIFICATION Spec
CHECK_DEADLOCK FALSE
ACTION_CONSTRAINT ReplacedAfterPreflight
SYMMETRY Symmetry
INVARIANTS
    RanOnlyAudited
    AuditTellsTruth
    ExitTellsTruth
    PreflightForetells
