SPECIFICATION FairSpec
CONSTANTS
    Folds = 3
    ResetScopes <- AnyFolds
    MaxResets = 1
    MaxCrashes = 1
INVARIANTS
    ClosedIsCurrent
PROPERTIES
    ImplementsFoldSequence
    OnlyTheseJam
