CONSTANTS
    h1 = h1
    h2 = h2
    Handlers = {h1, h2}
    Contents <- PlainContents
    Inputs <- CreateInputs
    First <- Plain
    Others <- PlainOthers
    FormActions = {"path", "access", "discover", "create"}
    Limit = 4
    Life = 1
    MaxTokens = 4
    MaxEdits = 1
SPECIFICATION Spec
SYMMETRY Symmetry
CHECK_DEADLOCK FALSE
INVARIANTS
    ChecksAreCurrent
