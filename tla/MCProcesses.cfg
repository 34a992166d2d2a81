SPECIFICATION Spec
CONSTANTS
    Pids = {2, 3, 4}
    Managers = {4}
    Heavy = {3}
    Hidden = {3}
    Compressed = {2}
    Denied = {3}
    Top = 2
    Interval = 2
    Boost = 1
    Cores = 1
    TotalMemory = 40
    Floor = 20
    Named = 1
    MaxLives = 3
    MaxWork = 1
    MaxTime = 3
INVARIANTS
    TrueCpu
    HogsListed
    NoStrangers
    FamiliesTogether
CHECK_DEADLOCK FALSE
