SPECIFICATION Spec
CONSTANTS
  photo = photo
  scan = scan
  Ids = {photo, scan}
  Uploads = {u1, u2}
  Blocks = 2
INVARIANTS
  TypeOK
  AnsweredIsThere
PROPERTY
  AnsweredSettles
CHECK_DEADLOCK FALSE
