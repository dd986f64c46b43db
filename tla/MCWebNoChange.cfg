CONSTANTS
    h1 = h1
    h2 = h2
    Handlers = {h1, h2}
    Contents <- NameContents
    Inputs <- NameInputs
    First <- Plain
    Others <- NameContents
    FormActions = {"metadata"}
    Limit = 2
    Life = 1
    MaxTokens = 2
    MaxEdits = 2
SPECIFICATION Spec
SYMMETRY Symmetry
CHECK_DEADLOCK FALSE
PROPERTIES
    NoChangeIsTrue
