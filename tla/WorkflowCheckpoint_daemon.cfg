SPECIFICATION MCSpec
CONSTANTS
    Worker = {d}
    Plan <- TwoLayerPlan
    Provider <- Sources
    OptionSource <- Option
    Preparable <- Inputs
    SeedOptions <- MonthOrFold
    NoStage = NoStage
    NoWorker = NoWorker
    MaxCrashes = 3
    MaxFailures = 2
    MaxLosses = 2
    MaxRevisions = 0
    ModelLayers = {1, 2}
    DependsOn <- Below
    TargetFrom = 2
    MinimumMonths <- Minimum
    SplitNames = {"train", "calibration", "validation", "test",
                  "forward_holdout", "history", "extra"}
    RoleNamed <- Roles
    Shapes <- Datasets
    MaxSnapshots = 2
    MaxFacts = 2
    MaxReads = 1
INVARIANTS
    EvidenceIsExplained
PROPERTIES
    ImplementsProgress
    EventuallySettled
CHECK_DEADLOCK FALSE
