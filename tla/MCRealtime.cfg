SPECIFICATION LiveFairSpec
CONSTANTS
    Parts = {"trade", "webhook", "reconciliation", "breaker", "gateway", "client",
             "manager", "sockets", "cache", "pool", "probes"}
    Requests = {r1, r2}
    Users <- MCUsers
    Keys <- MCKeys
    NoRequest = NoRequest
    NoTrade = NoTrade
    Events = {e1}
    Subs <- LiveSubs
    MaxAttempts <- MCMaxAttempts
    Workers = {w1}
    Operators = {o1}
    MaxDeliveries = 3
    MaxCrashes = 1
    MaxTx = 3
    Other = {2}
    Payment <- MCPayment
    Invoices <- LiveInvoices
    Bill <- MCBill
    NoRef = none
    Scale = 2
    PageSize = 1
    Calls = {c1}
    Pollers = {p1}
    MaxManual = 0
    ReconFaults = 1
    Thresholds = {2, 3}
    Recovery = 2
    MinCalls = 3
    SlowPercent = 50
    MaxCalls = 6
    MaxInFlight = 2
    MaxConfigures = 1
    Clients = {k1, k2}
    StaleAge = 1
    BufferSize = 1
    DashboardEvents = {0, 1}
    MaxDelay = 4
    MaxTries = 0
    MaxBuffered = 1
    MaxUserCalls = 3
    PoolSize = 1
    Upstreams = {u1, u2}
    Instances = {i1, i2}
    CacheCalls = {q1, q2}
    Ttl = 1
    MaxWrites = 1
    MaxReads = 3
    NoCached = NoCached
    NoCall = NoCall
    Reconnects = {n1, n2}
    Borrowers = {b1}
    MaxInitRetries = 1
    MaxConsecutive = 2
    MaxOutages = 2
    MaxBorrows = 2
INVARIANTS
    ServicesAreSound
PROPERTIES
    TradesReturn
    JobsEnd
    
    BreakerRecovers
    ClosedIsForgotten
    ManagerReconnects
    StaleExpires
    PoolRecovers
CHECK_DEADLOCK FALSE
