SPECIFICATION Spec
CONSTANTS
  ann = ann
  Users = {ann}
  Public = Public
  Absent = Absent
  Tokens = {k1, k2}
  NoToken = NoToken
  Conns = {c1, c2}
  Week = 2
  MaxTime = 2
  MaxBacks = 1
  MaxRuns = 2
INVARIANTS
  TypeOK
  RevokedStayOut
  FreshTokensPass
  SurvivorsCameLate
PROPERTIES
  LogoutUnwrapSafe
  LogoutReaches
CHECK_DEADLOCK FALSE
