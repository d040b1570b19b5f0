CONSTANTS
    Cycle = cycle
    Fast = fast
    NoOne = noone
    MaxDailyOrders = 4
    MaxOrders = 2
    MaxHeld = 1
    Scenes <- All
SPECIFICATION FairSpec
CHECK_DEADLOCK FALSE
INVARIANTS TypeOK NeverOverclosed OneCount StopsGuard NakedIsReported
PROPERTIES DroppedIsFlat DueIsClosed LeftoversAreClosed
