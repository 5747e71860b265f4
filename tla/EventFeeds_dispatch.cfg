SPECIFICATION MCSpec
CONSTANTS
    news = news
    gdelt = gdelt
    aapl = aapl
    msft = msft
    one = one
    two = two
    FeedOrder <- Order
    Months <- OneMonth
    Targets = {aapl, msft}
    Dispatchers = {one, two}
    Prepared <- PreparedFor
    Commands <- CommandsFor
    FirstYear = 1980
    LastYear = 2007
    MaxCalls = 3
    MaxCompacted = 1
INVARIANTS RacesHaveCause
PROPERTIES NothingBoughtIsLost CalendarIsOrderly
SYMMETRY Alike
CHECK_DEADLOCK FALSE
