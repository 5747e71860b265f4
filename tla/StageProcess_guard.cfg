SPECIFICATION FairSpec
CONSTANTS
    d = d
    o = o
    Executor = {d, o}
    Service = {d}
    LongStage = {o}
    Forking = {d}
    NoExecutor = NoExecutor
    MaxRuns = 1
    MaxCrashes = 1
INVARIANT ExecutionsAreAccountedFor
PROPERTY HungIsLeft
CHECK_DEADLOCK FALSE
