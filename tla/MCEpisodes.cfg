SPECIFICATION MonitorSpec
CONSTANTS
  Kinds = {"Cpu", "Memory", "AppCpu", "AppMemory"}
  Pids = {1}
  Loads = {0, 4}
  Holdings <- MCHoldings
  Settings = {1, 2}
  Base = 2
  AcuteFactor = 2
  Window = 2
  MinSpan = 1
  SlowFactor = 3
  Cooldown = 3
  Reminder = 5
  RecordEvery = 3
  RecordTop = 1
  Pauses = {1, 2}
  MaxTime = 9
INVARIANTS FollowUp Told Sustained Noticed
PROPERTIES Spaced
CHECK_DEADLOCK FALSE
