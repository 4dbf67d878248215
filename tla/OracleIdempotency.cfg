SPECIFICATION Spec
CONSTANTS
    Payloads = {p1}
    Slots = {c1, c2}
    Txs = {t1, t2}
    NoTx = NoTx
    NoPayload = NoPayload
    MaxRetries = 2
INVARIANTS
    SubmittedOnce
