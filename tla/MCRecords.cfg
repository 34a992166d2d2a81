SPECIFICATION RecordsSpec
CONSTANTS
  Writers = {"daemon", "gui"}
  MaxDay = 3
  Retention = 1
  MaxRecords = 3
INVARIANTS AckedIsRead
PROPERTIES HistorySpec
CHECK_DEADLOCK FALSE
