SPECIFICATION DaemonFairSpec
CONSTANTS
  Daemons = {d1, d2}
  NoDaemon = NoDaemon
  Clients = {c1}
  Operators = {"exited", "stopped", "any"}
INVARIANTS ServingIsReachable NothingLeftBehind
PROPERTIES StartSucceeds StopHonoured
CHECK_DEADLOCK FALSE
