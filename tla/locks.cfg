SPECIFICATION Spec
CONSTANTS
  top = top
  mid = mid
  low = low
  r1 = r1
  r2 = r2
  Nobody = Nobody
  Chunks = {top, mid, low}
  Up <- Triangle
  Requests = {r1, r2}
INVARIANTS
  TypeOK
  OnlyViewsCross
PROPERTIES
  OnlyNotesPoison
  RequestsEnd
CHECK_DEADLOCK FALSE
