SPECIFICATION MCSpec
CONSTANTS
    Handler = {d}
    Daemon = d
    Order <- TwoRequests
    Fingerprint <- SameError
    Sites <- AllSites
    Window = 0
    Limit = 1
    MaxTime = 2
    MaxRaises = 2
    MaxUpsets = 1
    MaxMonth = 3
    MaxBytes = 2
    MaxRows = 3
    MaxDeaths = 1
    MaxByHand = 1
INVARIANTS
    NumbersAreKept
    PendingHasACaller
    ActedOnce
    OnlyForgottenWait
    StatusIsExplained
PROPERTIES
    ClosedHasCause
CHECK_DEADLOCK FALSE
