SPECIFICATION Spec
CONSTANTS
  a = a
  b = b
  c = c
  d = d
  Ids = {a, b, c, d}
  MaxDepth = 6
INVARIANTS
  TypeOK
  ListedTwice
PROPERTY
  Implements
CHECK_DEADLOCK FALSE
