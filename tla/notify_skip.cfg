SPECIFICATION Spec
CONSTANTS
  ann = ann
  bob = bob
  s1 = s1
  s2 = s2
  r1 = r1
  r2 = r2
  Users = {ann, bob}
  Owner = ann
  Sockets = {s1, s2}
  UserOf <- BothSockets
  Requests = {r1}
  Capacity = 2
  MaxVersion = 1
PROPERTY
  OnlyOwnSkipped
CHECK_DEADLOCK FALSE
