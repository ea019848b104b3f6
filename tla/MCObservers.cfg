SPECIFICATION FairSpec
CONSTANTS
    customers = customers
    devices = devices
    Pairs <- TwoTables
    Threshold = 0
    StatError = 1
    MaxRows = 2
    Moving = {customers}
    MaxFailures = 1
    QueueSize = 2
    MaxBatch = 2
    MaxOps = 3
INVARIANTS
    TypeOK
    RecordsAccounted
    ShippedInOrder
    CountsAccounted
    GateHonest
PROPERTIES
    VerdictJustified
    RecordsLeave
    StandingDriftReported
CHECK_DEADLOCK FALSE
