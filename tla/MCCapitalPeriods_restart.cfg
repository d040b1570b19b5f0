CONSTANTS
    LastDay = 4
    Months <- SmallMonths
    MonthOf <- SmallMonthOf
    Expiry <- SmallExpiry
    Amounts <- OneAmount
    Default = 2
    Legacy <- NoLegacy
    Startup = startup
    DailyJob = job
    Faults = {"crash"}
SPECIFICATION FairSpec
INVARIANTS RiskFollowsPeriod PeriodsApart
PROPERTIES CatchesUp
