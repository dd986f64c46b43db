CONSTANTS
    a = a
    b = b
    c = c
    none = none
    NoAlias = none
    Commands <- AllCommands
    Policies <- SomePolicies
    Places <- AllPlaces
    Sayings <- SomeSayings
    Listings <- SomeListings
    StderrLimit = 2
    OutputLimit = 2
    MaxProjects = 2
    MaxWritten = 3
    MaxChanges = 1
SPECIFICATION DiagnosticSpec
INVARIANTS
    CaptureIsHonest
    TableIsTrue
    ExitIsAudited
    PathIsTrue
PROPERTIES
    DiagnosticEnds
CHECK_DEADLOCK FALSE
