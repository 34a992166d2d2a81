SPECIFICATION SocketsSpec
CONSTANTS
    Inodes = {i4, i6}
    V6 = {i6}
    Pids = {1, 2, 3}
    Denied = {2}
    MaxBytes = 1
    MaxChanges = 2
    Attempts = 2
INVARIANTS
    SocketsNamed
    TrafficCountedOnce
    FramingIsStrict
CHECK_DEADLOCK FALSE
