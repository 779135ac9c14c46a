CONSTANTS
  w1 = w1
  Watchers = {}
  OutputCapacity = 2
  EventCapacity = 1
  Tick = 1
  Settle = 1
  MaxWait = 1
  MaxChunks = 2
CHECK_DEADLOCK FALSE
SPECIFICATION Spec
INVARIANT ExitTellsTheRest
