SPECIFICATION SetupSpec
CONSTANTS
    customers = customers
    v1 = v1
    v2 = v2
    Oid = {customers}
    Mapped = customers
    Layout <- Layouts
    Unreadable <- OddOnly
    SfName <- SfNames
    Columns = {"ID", "NAME", "PLAN"}
    Val = {v1, v2}
    None = None
    MaxTx = 2
    MaxAlters = 1
    BatchSize = 2
    MaxChanges = 3
SYMMETRY Symmetry
INVARIANTS
    ParserTypeOK
    EventFaithful
    ChangesGetThrough
    ReplicaTypeOK
    MirrorFaithful
PROPERTY PoisonStays
