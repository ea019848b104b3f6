SPECIFICATION HandoffFairSpec
CONSTANTS
    customers = customers
    acme = acme
    Tables <- OneTable
    Tenant = {acme}
    PageSize = 2
    InsertSize = 1
    MaxId = 3
    MaxChanges = 2
    MaxCrashes = 2
INVARIANTS
    HandoffTypeOK
    CheckpointHonest
    CopiesNeedCrash
    GapClosed
PROPERTIES
    LoadIsFinal
    BackfillEnds
    EveryRowArrives
