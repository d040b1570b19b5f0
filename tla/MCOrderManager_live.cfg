CONSTANTS
    signal = signal
    api = api
    job = job
    admin = admin
    call = call
    put = put
    momentum = momentum
    spread = spread
    NoStrategy = NoStrategy
    NoRequest = NoRequest
    Symbols = {call, put}
    Strategies = {momentum, spread}
    MultiLegStrategies = {spread}
    Requests <- LiveRequests
    Callers = {signal}
    SignalCycle = signal
    OrderSync = job
    Admins = {}
    MaxRequests = 1
    Budget = 2
    Env = {"orders_age", "place_times_out", "get_orders_fails", "cancel_fails", "broker_rejects", "broker_cancels", "db_write_fails", "risk_rejects", "crash"}
SPECIFICATION FairSpec
PROPERTIES OrdersSettle
