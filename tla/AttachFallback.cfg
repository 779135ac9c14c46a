CONSTANTS
  Names = {a, b, c}
  Sessions = {s1, s2, s3}
  None = None
  MaxVisits = 3
CHECK_DEADLOCK FALSE
SPECIFICATION FairSpec
INVARIANTS TypeOK MostRecentLast
PROPERTIES BackToMostRecent GivesUpAlone Arrives
