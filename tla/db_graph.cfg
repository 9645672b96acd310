SPECIFICATION Spec
CONSTANTS
  a = a
  b = b
  c = c
  o1 = o1
  ann = ann
  bob = bob
  eve = eve
  T1 = T1
  T2 = T2
  Public = Public
  NoUser = NoUser
  NoId = NoId
  NoTitle = T1
  Ids = {a, b, c}
  Old = {o1}
  Users = {ann, bob}
  Titles = {T1}
  Texts <- LinkTexts
  Writers = {ann, bob}
  Viewers = {bob}
  Listers = {bob}
  MaxTime = 1
SYMMETRY Symmetry
VIEW View
CONSTRAINT Bounds
INVARIANTS
  LinksMirror
  LinksDeclared
  LinksAcyclic
  CacheCoversEdits
  WellReachesAll
CHECK_DEADLOCK FALSE
