CONSTANTS
  Volumes = {"home", "data"}
  Levels = {0, 1, 2, 3}
  Bars = {2, 3}
  DefaultBar = 3
  Margin = 1
  ReloadEvery = 2
  NotifyTimeout = 2
  SinkTimeout = 3
  MaxEdits = 2
  MaxNow = 2
  Defaults <- MCDefaults
  ProcessNames <- MCProcessNames
  Patterns <- MCPatterns
  Percents = {0, 1, 3}
  Totals = {100, 400}
  Width = 1000000000
  Inputs <- MCInputs
  Names <- MCNames
  ThenKeys <- MCThenKeys
SPECIFICATION Spec
INVARIANTS WithinBudget UserDecides CommandsKeepTheRest
PROPERTIES CrossingOnce Follows
