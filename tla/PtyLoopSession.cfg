CONSTANTS
  c1 = c1
  c2 = c2
  Clients = {c1, c2}
  Sizes = {small, large}
  InitialSize = small
  None = None
  Forms <- Paste
  Room = 2
  MaxMessages = 2
  MaxOutput = 1
CHECK_DEADLOCK FALSE
SPECIFICATION FairSpec
INVARIANTS TypeOK InputInOrder InputComplete SizesAgree LeavesNoShell StraySignals
PROPERTIES InputIsTaken SessionEnds
