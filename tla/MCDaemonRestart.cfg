SPECIFICATION DaemonSpec
CONSTANTS
  Daemons = {d1, d2}
  NoDaemon = NoDaemon
  Clients = {c1, c2}
  Operators = {"stopped"}
PROPERTY SilentStopMeansStopped
CHECK_DEADLOCK FALSE
