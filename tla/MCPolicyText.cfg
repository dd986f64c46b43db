CONSTANTS
    Texts <- AllTexts
    Canonical <- CanonicalTexts
    Ops <- EveryOp
    MaxOps = 3
SPECIFICATION Spec
CHECK_DEADLOCK FALSE
INVARIANTS
    StaysEditable
PROPERTIES
    EditsAreExact
    LinesKept
    RestoreIsIdentity
