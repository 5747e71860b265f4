SPECIFICATION FairSpec
CONSTANTS
    Scopes <- EveryScope
    MaxFailures = 1
    MaxRevisions = 2
INVARIANTS
    DoneIsCurrent
PROPERTIES
    OnlyKnownScopesStall
CHECK_DEADLOCK FALSE
