CONSTANTS
  d1 = d1
  d2 = d2
  d3 = d3
  a = a
  b = b
  p = p
  Names = {a, p}
  Daemons = {d1, d2, d3}
  Commands = {c1, c2}
  None = None
  NumeralOf <- WithNumeral
  Faults = {"crash"}
SPECIFICATION OrderlySpec
SYMMETRY SymmetricNumeral
INVARIANTS Reachable LeavesNoFile
PROPERTIES ImplementsSessionMap LiveSocketStays
