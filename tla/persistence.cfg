SPECIFICATION Spec
CONSTANTS
  e1 = e1
  Edits = {e1}
  Period = 2
  Day = 3
  MaxHour = 5
INVARIANTS
  TypeOK
  StopKeepsAll
  CrashLossBounded
PROPERTIES
  KeptUntilHeld
  SignalEnds
CHECK_DEADLOCK FALSE
