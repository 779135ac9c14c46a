CONSTANTS
  d1 = d1
  d2 = d2
  d3 = d3
  a = a
  b = b
  p = p
  Names = {a, b}
  Daemons = {d1}
  Commands = {c1, c2}
  None = None
  NumeralOf <- Plain
  Faults = {"crash", "accept"}
SPECIFICATION FairSpec
INVARIANTS TypeOK LinkedOnce
PROPERTIES KillIsFinal CommandsFinish
