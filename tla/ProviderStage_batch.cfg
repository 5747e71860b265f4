SPECIFICATION FairSpec
CONSTANTS
    Worker = {d, c}
    Order <- TwoRequests
    Routes <- BothRoutes
    Limit = 1
    NoWorker = NoWorker
    MaxFailures = 1
    MaxReviews = 1
    MaxUpsets = 1
INVARIANTS
    OverlapIsTheOnlyHole
PROPERTIES
    OptionPaidOnce
    ReadyIsSettled
    OnlyReviewsAndGapsJam
CHECK_DEADLOCK FALSE
