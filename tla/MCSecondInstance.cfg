SPECIFICATION Spec
CONSTANTS
    old = old
    new = new
    Instance = {old, new}
    Retiring = {old}
    Pid = {1, 2, 3, 4, 5}
    MaxWal = 3
    MaxFaults = 0
INVARIANT
    SecondInstanceWaits
