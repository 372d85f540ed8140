SPECIFICATION Spec
CONSTANTS
  b1 = b1
  b2 = b2
  x = x
  d1 = d1
  d2 = d2
  d3 = d3
  d4 = d4
  Null = Null
  Bufs = {b1, b2}
  Descs = {d1, d2, d3, d4}
  Strings <- MCStrings
  Slop = 1
  MaxPos = 2
SYMMETRY AnyHeap
INVARIANTS LinksSound
PROPERTIES Implements
