CONSTANTS
    LastDay = 5
    Months <- SmallMonths
    MonthOf <- SmallMonthOf
    Expiry <- SmallExpiry
    Amounts <- SmallAmounts
    Default = 2
    Legacy <- BrokenLegacy
    Startup = startup
    DailyJob = job
    Faults = {"db_fails", "crash"}
SPECIFICATION Spec
INVARIANTS OneOpenPeriod ClosedBooksAreFinal RiskCapitalIsPositive
