CONSTANTS
    signal = signal
    api = api
    job = job
    admin = admin
    call = call
    put = put
    momentum = momentum
    spread = spread
    NoStrategy = NoStrategy
    NoRequest = NoRequest
    Symbols = {call, put}
    Strategies = {momentum, spread}
    MultiLegStrategies = {spread}
    Requests <- FaultRequests
    Callers = {signal, api}
    SignalCycle = signal
    OrderSync = job
    Admins = {admin}
    MaxRequests = 2
    Budget = 2
    CallersBudget = 4
    StaleBudget = 3
    Env = {"orders_age", "place_times_out", "get_orders_fails", "cancel_fails", "broker_rejects", "broker_cancels", "db_write_fails", "context_lost", "risk_rejects", "crash"}
    CallersEnv = {"place_times_out", "get_orders_fails", "broker_rejects", "broker_cancels"}
    StaleEnv = {"orders_age", "place_times_out", "cancel_fails", "broker_rejects"}
SPECIFICATION RacesSpec
INVARIANTS TypeOK BoughtOnce CapitalIsCounted OneRestingEntry LimitsHold
PROPERTIES ClosedRowsAreFinal ImplementsLedger
