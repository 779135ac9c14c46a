CONSTANTS
  w1 = w1
  Watchers = {w1}
  OutputCapacity = 1
  EventCapacity = 1
  Tick = 1
  Settle = 2
  MaxWait = 3
  MaxChunks = 3
CHECK_DEADLOCK FALSE
SPECIFICATION PromptSpec
INVARIANTS TypeOK TextsJoin NothingOverdue LosesOnlyOldEvents
PROPERTIES ExitReachesWatchers ImplementsEventLog
