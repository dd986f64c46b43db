CONSTANTS
    e1 = e1
    e2 = e2
    Editors = {e1, e2}
    Asked <- Pairs
    FirstPolicy <- TwoProjects
    FirstArtifacts <- Earlier
SPECIFICATION FairSpec
CHECK_DEADLOCK FALSE
INVARIANTS
    NeverEmpty
    AuditTellsTruth
    RemovalRecoverable
PROPERTIES
    NoLostUpdate
    RevisionHonoured
    RestoreIsExact
    ListingExplained
    OperationsEnd
