CONSTANTS
    h1 = h1
    h2 = h2
    Handlers = {h1, h2}
    Contents <- EditContents
    Inputs <- EditInputs
    First <- EditFirst
    Others <- EditOthers
    FormActions = {"metadata", "mode", "add", "remove"}
    Limit = 4
    Life = 1
    MaxTokens = 5
    MaxEdits = 1
SPECIFICATION Spec
SYMMETRY Symmetry
CHECK_DEADLOCK FALSE
INVARIANTS
    TokensSound
    PageShowsRevision
PROPERTIES
    CommitsAsReviewed
    WideningConfirmed
