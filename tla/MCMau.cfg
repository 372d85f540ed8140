SPECIFICATION Spec
CONSTANTS
  m1 = m1
  m2 = m2
  m3 = m3
  m4 = m4
  p = p
  q = q
  NoOwner = NoOwner
  MD <- Descriptors
  Owner <- Owners
  Base = 1
  Length = 5
  Ents = 8
  Abs <- AllAbs
SYMMETRY Symmetry
INVARIANTS TableSound
PROPERTIES Implements FreeCollapses
