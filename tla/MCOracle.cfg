SPECIFICATION MCSpec
CONSTANTS
    Payloads = {p1}
    Slots = {c1, c2}
    Txs = {t1, t2}
    NoTx = NoTx
    NoPayload = NoPayload
    MaxRetries = 2
    BatchPayloads = {1, 2}
    Runs = {r1, r2}
    BatchSize = 1
    BatchMaxRetries = 2
    NoWaiter = NoWaiter
    MaxConcurrent = 1
    MaxStarts = 2
    MaxBatchFaults = 1
    Providers = {1, 2}
    ProviderCalls = {q1, q2, q3}
    FailureThreshold = 2
    Cooldown = 1
    MaxFailovers = 1
    PriceCalls = {v1}
    Quotes = {0, 100, 103, 106}
    Signers = {"a1", "a2"}
INVARIANTS
    ConfirmedIsOnChain
    RecordedTxIsOwn
    SubmittedIsResumable
    BatchesAreSound
    InFlightIsExact
    PricesAreSound
SYMMETRY Interchangeable
CHECK_DEADLOCK FALSE
