CONSTANTS
  Rows = 3
  Cols = 2
  Scrollback = 4
  MaxPrinted = 6
  MaxEarlier = 2
SPECIFICATION Spec
INVARIANTS TypeOK TextIsExact NewestIsTold NewLineCounts
