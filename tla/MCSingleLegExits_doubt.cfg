CONSTANTS
    Contracts = {call}
    NoContract = NoContract
    Cycle = cycle
    Admins = {admin}
    MaxConcurrent = 2
    MaxDailyOrders = 1
    Budget = 2
    MaxHeld = 1
    MaxRestarts = 1
    MaxNights = 0
    MaxOrders = 3
    Env = {"entry_doubtful", "exit_doubtful", "positions_fail", "journal_fails"}
SPECIFICATION Spec
CHECK_DEADLOCK FALSE
VIEW Live
INVARIANTS TypeOK NeverOversold CloseWasAccepted
PROPERTY DoubtIsRemembered
