SPECIFICATION MCSpec
CONSTANTS
    earnings = earnings
    price = price
    session = session
    cpi = cpi
    spy = spy
    xlf = xlf
    review = review
    FamilyOrder <- Order
    Kind <- KindOf
    Minimum = 2
    SampleLimit = 2
    Times <- ThreeTimes
    Releases = {1}
    SessionRows = 2
    Filings = 2
    Shapes <- CrawlShapes
    Routings <- Orders
    MaxCrawls = 2
    Requests = {spy, xlf, review}
    Batches <- BatchesFor
    Commands <- CommandsFor
    Processes = {one, two}
    MaxCommands = 3
    Tasks = {bars, shadow}
    Rewritten = {shadow}
    Recorders = {one, two}
    MaxRuns = 2
    MaxRecords = 3
INVARIANTS HandoffHasCause RecordsAgree
PROPERTIES ReleaseIsKept SummaryIsComplete
CHECK_DEADLOCK FALSE
