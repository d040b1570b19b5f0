CONSTANTS
    Contracts = {call, put}
    NoContract = NoContract
    Cycle = cycle
    Admins = {}
    MaxConcurrent = 2
    MaxDailyOrders = 1
    Budget = 2
    MaxHeld = 1
    MaxRestarts = 0
    MaxNights = 1
    MaxOrders = 3
    Env = {"orders_age", "entry_rejected"}
SPECIFICATION FairSpec
CHECK_DEADLOCK FALSE
INVARIANTS BooksCoverHeld
PROPERTY SquareOffCloses
