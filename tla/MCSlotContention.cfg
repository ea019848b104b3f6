SPECIFICATION FairSpec
CONSTANTS
    old = old
    new = new
    Instance = {old, new}
    Retiring = {old}
    Pid = {1, 2, 3, 4, 5}
    MaxWal = 2
    MaxFaults = 1
INVARIANTS
    SlotTypeOK
    NoDoubleProcessing
    StuckNeedsSkippedSetup
PROPERTIES
    LossNamed
    BackwardsNeedsTwo
    Takeover
