CONSTANTS
  Attachers = {a1}
  Watchers = {w1}
  Capacity = 1
  SockBuf = 1
  MaxChunks = 2
CHECK_DEADLOCK FALSE
SPECIFICATION FairSpec
INVARIANTS TypeOK NoHole WatchSeamless AttachRepeatsAtMostOne ClientsExact
PROPERTIES SlowClientsDontStall DeliveredOrClosed ImplementsOutputStream
