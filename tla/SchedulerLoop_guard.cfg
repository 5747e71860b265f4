SPECIFICATION MCSpec
CONSTANTS
    a = a
    b = b
    Queue <- MCQueue
    Months = 2
    MaxCrashes = 1
    MaxByHand = 1
    Proc = {p1, p2, p3}
    NoProc = NoProc
    PromptWrite = FALSE
INVARIANT ExclusiveUnlessUsurped
PROPERTIES
    RotationIsByHand
    SilenceHasCause
    ReleaseRemovesOwnFile
    LeftBehindIsReplaced
CHECK_DEADLOCK FALSE
