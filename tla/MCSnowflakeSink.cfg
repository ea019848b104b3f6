SPECIFICATION SinkSpec
CONSTANTS
    customers = customers
    devices = devices
    k1 = k1
    k2 = k2
    Table = {customers, devices}
    Key = {k1, k2}
    MaxSeq = 3
    MaxTx = 1
    BatchSize = 3
    MaxRetries = 2
    MaxFaults = 2
SYMMETRY Symmetry
INVARIANTS
    SinkTypeOK
    BatchWritten
    DuplicatesNeedFailure
PROPERTY NoStaleOverwrite
