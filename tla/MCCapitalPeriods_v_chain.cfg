CONSTANTS
    LastDay = 5
    Months <- SmallMonths
    MonthOf <- SmallMonthOf
    Expiry <- SmallExpiry
    Amounts <- SmallAmounts
    Default = 2
    Legacy <- NoLegacy
    Startup = startup
    DailyJob = job
    Faults = {"crash"}
SPECIFICATION Spec
INVARIANTS Compounds
