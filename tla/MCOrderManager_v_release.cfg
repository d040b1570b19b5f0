CONSTANTS
    signal = signal
    api = api
    job = job
    admin = admin
    call = call
    put = put
    momentum = momentum
    spread = spread
    NoStrategy = NoStrategy
    NoRequest = NoRequest
    Symbols = {call, put}
    Strategies = {momentum, spread}
    MultiLegStrategies = {spread}
    Requests <- EntryRequests
    Callers = {signal}
    SignalCycle = signal
    OrderSync = job
    Admins = {}
    MaxRequests = 1
    Budget = 2
    Env = {"orders_age"}
SPECIFICATION Spec
INVARIANTS ReleasedAtMostOnce
