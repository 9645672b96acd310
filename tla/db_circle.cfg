SPECIFICATION Spec
CONSTANTS
  a = a
  b = b
  c = c
  o1 = o1
  ann = ann
  bob = bob
  eve = eve
  T1 = T1
  T2 = T2
  Public = Public
  NoUser = NoUser
  NoId = NoId
  NoTitle = T1
  Ids = {a, b, c}
  Old = {}
  Users = {ann}
  Titles = {T1}
  Texts <- GraphTexts
  Writers = {ann, Public}
  Viewers = {}
  Listers = {}
  MaxTime = 0
INVARIANT
  StoredAcyclic
CHECK_DEADLOCK FALSE
