\* The constants of the components that are instantiated are in MCParts.
CONSTANTS
    MaxAttempts = 3
    Tagged = TRUE
    Events = {"answer_lost", "closed_elsewhere", "times_out"}
    Strategies = {"ema", "condor"}
    MaxFaults = 1
    ConfirmBars = 2
    ReversalBars = 2
    LastBar = 3
    MaxLost = 1
    MaxPullback = 3
    MinEstablished = 2
    LastCandle = 6
    LastClose = 3
    Short = "short"
    Long = "long"
    Other = "other"
    Prices = {2, 6}
    InitialCapital = 70
    FeePerOrder = 1
    MarginMultiple = 10
    MaxTrades = 2
    Shapes = {"s"}
    Ended = {"COMPLETE"}
    MaxPlaced = 2
    MaxManual = 1
    MaxRuns = 1
    MaxMishaps = 1
    PriceLevels = {18, 22}
    Chains <- SomeChains
    MinSpreadCredit = 5
    MinCondorCredit = 9
    Quotes = {40, 60}
    Estimates = {1, 130}
    MaxNights = 2
    LastMinute = 4
    DayLength = 4
    BarLength = 1
    MaxVolume = 1
    RvolBars = 1
    MaxFailedReads = 1
SPECIFICATION PartsSpec
INVARIANTS PartsTypeOK OneOrderPerTag EntryIsSound AccountIsSound RecordsMatch SignalIsEarned
PROPERTIES
    CallAnswers FeedHeals RecordIsTrue PositionsAreWatched RegimeIsObeyed
    CrossingsAreConfirmed
\* The calls, the days and the minutes come to an end.
CHECK_DEADLOCK FALSE
