SPECIFICATION Spec
CONSTANTS
  Sinks = {s1, s2}
  Tasks = {t1, t2, t3}
  NoTask = NoTask
  UsesOnce = TRUE
  Panics = TRUE
  MaxSnapshots = 3
SYMMETRY Symmetry
INVARIANTS RoundsAreOwn
CHECK_DEADLOCK FALSE
