SPECIFICATION FairViewSpec
CONSTANTS
  Clients = {c1}
  Capacity = 2
  MaxSnapshots = 5
  PipeCapacity = 2
  Garbled = {3}
INVARIANTS NoHole LagKeepsTail
PROPERTY Delivered
CHECK_DEADLOCK FALSE
