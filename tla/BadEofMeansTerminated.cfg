CONSTANTS
  Attachers = {a1}
  Watchers = {}
  Capacity = 1
  SockBuf = 1
  MaxChunks = 3
CHECK_DEADLOCK FALSE
SPECIFICATION Spec
INVARIANT EofMeansTerminated
