SPECIFICATION FairInputSpec
CONSTANTS
    Order <- Signals
    Month <- Months2
    Target <- OneTarget
    Rows = 1
    ProviderLimit = 2
    FeatureLimit = 3
    Reach = {1, 3}
    Contracts <- Contracts2
    MaxUpsets = 1
INVARIANTS
    RefusalCostsItsBatch
PROPERTIES
    UndrainedOnlyByRefusal
    OnlyTheseHoldReplay
CHECK_DEADLOCK FALSE
