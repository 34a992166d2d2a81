SPECIFICATION Spec
CONSTANTS
    Units = {u1, u2}
    Intervals = {0, 2}
    StorageInterval = 3
    MaxCount = 1
    MaxTime = 4
INVARIANTS
    TrueRates
    Fresh
    MountsHaveCapacity
