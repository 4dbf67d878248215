SPECIFICATION FairSpec
CONSTANTS
    Addresses = {a1}
    Calls = {c1, c2}
    NoCall = NoCall
    MaxNonce = 2
INVARIANTS
    NoncesIssuedOnce
PROPERTIES
    OnlySetLowers
    ImplementsAllocation
    CallsEnd
