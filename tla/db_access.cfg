SPECIFICATION Spec
CONSTANTS
  a = a
  b = b
  c = c
  o1 = o1
  ann = ann
  bob = bob
  eve = eve
  T1 = T1
  T2 = T2
  Public = Public
  NoUser = NoUser
  NoId = NoId
  NoTitle = T1
  Ids = {a, b}
  Old = {}
  Users = {ann, bob, eve}
  Titles = {T1, T2}
  Texts <- AccessTexts
  Writers = {ann, bob, eve, Public}
  Viewers = {}
  Listers = {}
  MaxTime = 0
INVARIANTS
  TypeOK
  TextGrantsNoMore
  UpdateKeepsSight
PROPERTIES
  OnlyAuthorised
  SightChangeTold
  RestartKeepsGrants
CHECK_DEADLOCK FALSE
