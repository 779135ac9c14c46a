CONSTANTS
  d1 = d1
  d2 = d2
  d3 = d3
  a = a
  b = b
  p = p
  Names = {a, p}
  Daemons = {d1, d2}
  Commands = {c1}
  None = None
  NumeralOf <- WithNumeral
  Faults = {}
SPECIFICATION Spec
PROPERTY CleanRemovesStale
