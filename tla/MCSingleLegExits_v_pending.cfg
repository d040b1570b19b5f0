CONSTANTS
    Contracts = {call}
    NoContract = NoContract
    Cycle = cycle
    Admins = {}
    MaxConcurrent = 2
    MaxDailyOrders = 2
    Budget = 2
    MaxHeld = 1
    MaxRestarts = 0
    MaxNights = 0
    MaxOrders = 3
    Env = {"exit_doubtful"}
SPECIFICATION Spec
CHECK_DEADLOCK FALSE
INVARIANT NoFictitiousExit
