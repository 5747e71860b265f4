SPECIFICATION MCSpec
CONSTANTS
    Worker = {d, c}
    Plan <- OneLayerPlan
    Provider <- Source
    OptionSource <- Source
    Preparable <- Source
    SeedOptions <- MonthOrFold
    NoStage = NoStage
    NoWorker = NoWorker
    MaxCrashes = 0
    MaxFailures = 1
    MaxLosses = 1
    MaxRevisions = 1
    FoldPlan <- ThreeStages
    Folds = {f}
    Operators = {o1, o2}
    MaxResets = 2
    Tickers = {p1, p2}
    Window = 2
    NextLimit = 1
    Flags <- AllFlags
    MaxFeedCalls = 4
    MaxChanges = 1
SYMMETRY WritersSymmetry
INVARIANTS
    ReadyIsSound
    CopiesAreSound
    ArtifactsAreAccountedFor
    FeedIsAccountedFor
CHECK_DEADLOCK FALSE
