SPECIFICATION Spec
CONSTANTS
    customers = customers
    audit = audit
    k1 = k1
    Table = {customers}
    Unmapped = {audit}
    Key = {k1}
    MaxSeq = 2
    MaxTx = 2
    MaxTxSize = 2
    BatchSize = 2
    MaxRetries = 2
    MaxFaults = 0
    MaxPgFaults = 0
    MaxEnds = 1
    BackoffBase = 5
    BackoffMax = 120
INVARIANT NoEventLost
