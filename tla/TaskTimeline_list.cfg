SPECIFICATION TimelineSpec
CONSTANTS
    LaneFolds = 2
    MonthsOf <- MCWindows
    NumLayers = 2
    Reruns <- MCReruns
    MaxMoves = 1
    MaxFailed = 1
    MaxStops = 1
INVARIANT TimelineIsExplained
CHECK_DEADLOCK FALSE
