SPECIFICATION Spec
CONSTANTS
  Window = 1
  SlowWindow = 2
  Rearm = 2
  Reminder = 3
  ReminderMax = 6
  Settings = {2, 4}
  Pauses = {1, 2}
  MaxTime = 20
INVARIANTS Pulse Sparse
PROPERTIES NewsOnce NewsPersisted
CHECK_DEADLOCK FALSE
