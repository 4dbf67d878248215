SPECIFICATION MCSpec
CONSTANTS
    Parts = {"reconciliation"}
    Requests = {r1, r2}
    Users <- MCUsers
    Keys <- MCKeys
    NoRequest = NoRequest
    NoTrade = NoTrade
    Events = {e1}
    Subs <- MCSubs
    MaxAttempts <- MCMaxAttempts
    Workers = {w1}
    Operators = {o1}
    MaxDeliveries = 3
    MaxCrashes = 1
    MaxTx = 3
    Other = {2}
    Payment <- MCPayment
    Invoices <- MCInvoices
    Bill <- MCBill
    NoRef = none
    Scale = 2
    PageSize = 1
    Calls = {c1}
    Pollers = {p1}
    MaxManual = 1
    ReconFaults = 1
INVARIANTS
    PaidOnce
CHECK_DEADLOCK FALSE
