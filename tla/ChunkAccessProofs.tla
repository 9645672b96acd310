-------------------------- MODULE ChunkAccessProofs --------------------------
(***************************************************************************)
(* The access properties of ChunkDB that TLC checks on two ids and three   *)
(* users, for every set of ids, users and texts: the invariants first,     *)
(* then, from the invariant Rules, what a step may do to a chunk and who   *)
(* is told of it.                                                          *)
(***************************************************************************)
EXTENDS ChunkDBProofs

\* Levels compare like numbers.
LEMMA LevelsCompare ==
  /\ \A x \in Levels : x <= x /\ None <= x
  /\ \A x \in Levels : x >= Admin => x >= Read
  /\ Write \in Levels /\ Write >= Read
  BY DEF Levels, None, Read, Write, Admin

-----------------------------------------------------------------------------
(* What happens to the chunks of the store *)

\* Putting new under id i: the old version has a place outside of the ids.
Puts(i, new) == /\ live' = live \union {i}
                /\ chunk'[i] = new
                /\ \A j \in Ids \ {i} : chunk'[j] = chunk[j]

\* The chunks of the store stay.
Stays == live' = live /\ \A i \in Ids : chunk'[i] = chunk[i]

LEMMA InstallPuts ==
  ASSUME Inv, NEW i \in Ids, NEW new, \E old \in Places(i) : Install(i, new, old)
  PROVE  Puts(i, new)
<1>1. PICK old \in Places(i) : Install(i, new, old)
  OBVIOUS
<1>2. old \in SUBSET Old /\ i \notin old /\ old \intersect Ids = {}
  BY PlaceIsFree DEF Inv, Links
<1>3. chunk'[i] = new /\ \A j \in Ids \ {i} : chunk'[j] = chunk[j]
  BY <1>1, <1>2, InstallData DEF Inv
<1> QED
  BY <1>1, <1>3 DEF Install, Puts

LEMMA AcceptsPuts ==
  ASSUME Inv, NEW u, NEW i \in Ids, NEW v, Accepts(u, i, v)
  PROVE  Puts(i, NewChunk(u, i, v))
  BY InstallPuts DEF Accepts

LEMMA DelLeavePuts ==
  ASSUME Inv, NEW i \in Ids, DelLeave(i)
  PROVE  i \in live /\ Puts(i, LeftChunk(i))
<1>1. \E old \in Places(i) : Install(i, LeftChunk(i), old)
  BY DEF DelLeave
<1> QED
  BY <1>1, InstallPuts DEF DelLeave, Leaves

LEMMA DelRemoveTakes ==
  ASSUME Inv, NEW i \in Ids, DelRemove(i)
  PROVE  /\ live' = live \ {i}
         /\ chunk'[i] = Blank
         /\ \A j \in Ids \ {i} : chunk'[j] = chunk[j]
<1>1. PICK old \in Places(i) : /\ live' = live \ {i}
                               /\ chunk' = [Carried(chunk, i, old) EXCEPT ![i] = Blank]
  BY DEF DelRemove
<1>2. old \intersect Ids = {} /\ i \in Nodes
  BY PlaceIsFree, IdsAreNodes DEF Inv, Links
<1> QED
  BY <1>1, <1>2, IdsAreNodes DEF Carried

LEMMA LetGoStays ==
  ASSUME Inv, NEW n \in Nodes, LetGo(n)
  PROVE  Stays
<1>1. n \in live \/ n \notin Ids
  BY IdsAssumption DEF LetGo, Inv, TypeOK
<1>2. CASE n \in live
  BY <1>2 DEF LetGo, Stays
<1>3. CASE n \notin live /\ n \notin Ids
  BY <1>3, IdsAreNodes DEF LetGo, Stays, Inv, TypeOK
<1> QED
  BY <1>1, <1>2, <1>3

LEMMA RestartReads ==
  ASSUME Inv, Restart, NEW i \in Ids
  PROVE  /\ live' = live
         /\ chunk'[i] = [chunk[i] EXCEPT !.access = chunk[i].value.share]
         /\ chunk[i] \in Chunks
         /\ chunk'[i].value = chunk[i].value
         /\ chunk'[i].access = chunk[i].value.share
<1>1. i \in Nodes /\ i \notin Old
  BY IdsAssumption, IdsAreNodes
<1>2. chunk'[i] = [chunk[i] EXCEPT !.access = chunk[i].value.share]
  BY <1>1 DEF Restart
<1>3. chunk[i] \in Chunks
  BY <1>1 DEF Inv, TypeOK
<1> QED
  BY <1>2, <1>3 DEF Restart, Chunks

-----------------------------------------------------------------------------
(* A restart grants nothing *)

\* The chunk a reader leaves behind grants by its text what it grants, or, its
\* share line having been glued to a tail, nothing.
LEMMA LeftGrantsNoMore ==
  ASSUME Inv, NEW i \in live, NEW p \in Principals
  PROVE  LeftChunk(i).value.share[p] <= LeftChunk(i).access[p]
<1> DEFINE share == [chunk[i].value.share EXCEPT ![del.user] = None]
<1>1. chunk[i] \in Chunks /\ chunk[i].value \in Values
  BY IdsAreNodes DEF Inv, TypeOK, Chunks
<1>2. share \in Grants
  <2>1. None \in Levels
    BY DEF None, Levels, Admin
  <2> QED
    BY <1>1, <2>1 DEF Grants, Values
<1>3. LeftChunk(i) = [chunk[i] EXCEPT !.value = Override(chunk[i].value, share),
                                      !.access = share, !.modified = now]
  BY DEF LeftChunk
<1> HIDE DEF share, LeftChunk
<1>4. Override(chunk[i].value, share).share \in {NoGrants, share}
  BY <1>1 DEF Override, Values
<1>5. LeftChunk(i).access = share
      /\ LeftChunk(i).value = Override(chunk[i].value, share)
  BY <1>1, <1>3 DEF Chunks
<1>6. NoGrants[p] = None /\ share[p] \in Levels
  BY <1>2 DEF NoGrants, Grants
<1> QED
  BY <1>4, <1>5, <1>6, LevelsCompare

\* Installing a chunk whose text grants no more than it does.
LEMMA InstallGrants ==
  ASSUME Inv, TextGrantsNoMore, NEW i \in Ids, NEW new, Puts(i, new),
         \A p \in Principals : new.value.share[p] <= new.access[p]
  PROVE  TextGrantsNoMore'
  BY DEF TextGrantsNoMore, Puts, Inv, TypeOK

LEMMA AcceptsGrants ==
  ASSUME Inv, TextGrantsNoMore, NEW u \in Principals, NEW i \in Ids, NEW v \in Texts,
         Accepts(u, i, v)
  PROVE  TextGrantsNoMore'
<1> DEFINE new == NewChunk(u, i, v)
<1>1. new.value = v /\ new.access = v.share /\ v.share \in Grants
  BY TextsAssumption DEF NewChunk, Values
<1>2. \A p \in Principals : new.value.share[p] <= new.access[p]
  BY <1>1, LevelsCompare DEF Grants
<1>3. Puts(i, new)
  BY AcceptsPuts
<1> HIDE DEF new
<1> QED
  BY <1>2, <1>3, InstallGrants

LEMMA GrantsStep ==
  ASSUME Inv, TextGrantsNoMore, [Next]_vars
  PROVE  TextGrantsNoMore'
<1> USE UsersAssumption
<1>1. ASSUME NEW u \in Writers, NEW i \in Ids, NEW v \in Texts, Accepts(u, i, v)
      PROVE  TextGrantsNoMore'
  BY <1>1, AcceptsGrants
<1>2. ASSUME NEW i \in Ids, DelLeave(i)
      PROVE  TextGrantsNoMore'
  <2>1. i \in live /\ Puts(i, LeftChunk(i))
    BY <1>2, DelLeavePuts
  <2>2. \A p \in Principals : LeftChunk(i).value.share[p] <= LeftChunk(i).access[p]
    BY <2>1, LeftGrantsNoMore
  <2> QED
    BY <2>1, <2>2, InstallGrants
<1>3. ASSUME NEW i \in Ids, DelRemove(i)
      PROVE  TextGrantsNoMore'
  BY <1>3, DelRemoveTakes DEF TextGrantsNoMore, Inv, TypeOK
<1>4. CASE Restart
  <2>1. ASSUME NEW i \in Ids
        PROVE  /\ chunk'[i].value = chunk[i].value
               /\ chunk'[i].access = chunk[i].value.share
               /\ chunk[i].value.share \in Grants
    BY <1>4, RestartReads DEF Chunks, Values
  <2>2. ASSUME NEW i \in Ids, NEW p \in Principals
        PROVE  chunk'[i].value.share[p] <= chunk'[i].access[p]
    <3>1. chunk[i].value.share[p] \in Levels
      BY <2>1 DEF Grants
    <3> QED
      BY <3>1, <2>1, LevelsCompare
  <2>3. live' \subseteq Ids
    BY <1>4 DEF Restart, Inv, TypeOK
  <2> QED
    BY <2>2, <2>3 DEF TextGrantsNoMore
<1>5. CASE Stays
  BY <1>5 DEF Stays, TextGrantsNoMore, Inv, TypeOK
<1>6. ASSUME NEW u, NEW i, NEW v, Denies(u, i, v) \/ Rejects(u, i, v)
      PROVE  Stays
  BY <1>6 DEF Denies, Rejects, Fail, store, Stays
<1>7. ASSUME NEW u \in Writers, NEW i \in Ids, NEW v \in Texts,
             SetChunk(u, i, v) \/ UpdateChunk(u, i, v)
      PROVE  TextGrantsNoMore'
  BY <1>1, <1>5, <1>6, <1>7 DEF SetChunk, UpdateChunk
<1>8. ASSUME NEW i \in Ids, DelAdmin(i) \/ DelExpectFails(i) \/ DelLinkFails(i) \/ DelStops(i)
      PROVE  Stays
  BY <1>8 DEF DelAdmin, DelExpectFails, DelLinkFails, DelStops, Fail, store, Stays
<1>9. ASSUME NEW u, NEW i, \/ UpdateHidden(u, i) \/ ViewChunk(u, i) \/ DelStart(u, i)
                           \/ ListNotes(u) \/ TakeRoot(u, i)
      PROVE  Stays
  BY <1>9 DEF UpdateHidden, ViewChunk, DelStart, ListNotes, TakeRoot, Fail, store, Stays
<1>10. CASE DelPublic \/ DelFinish \/ RestartFails \/ Tick \/ UNCHANGED vars
  <2>1. Stays
    BY <1>10 DEF DelPublic, DelFinish, RestartFails, Tick, vars, Fail, store, Stays
  <2> QED
    BY <1>5, <2>1
<1>11. ASSUME NEW n \in Nodes, LetGo(n)
       PROVE  Stays
  BY <1>11, LetGoStays
<1> QED
  BY <1>2, <1>3, <1>4, <1>5, <1>7, <1>8, <1>9, <1>10, <1>11 DEF Next

\* What a chunk's text grants, the store grants: extracting all the texts again
\* when the server starts gives nobody more than they had.
THEOREM RestartGrantsNoMore == Spec => []TextGrantsNoMore
<1>1. Init => TextGrantsNoMore
  BY DEF Init, TextGrantsNoMore
<1>2. Inv /\ TextGrantsNoMore /\ [Next]_vars => TextGrantsNoMore'
  BY GrantsStep
<1> QED
  BY <1>1, <1>2, Invariance, PTL DEF Spec

-----------------------------------------------------------------------------
(* The unwrap at the end of update_chunk *)

\* Whoever may update a chunk that exists can see what they made of it: the
\* owner stays, an admin must stay one, a writer cannot touch the grants.
LEMMA UpdaterSees ==
  ASSUME Inv, NEW u \in Principals, NEW i \in live, NEW v \in Texts,
         NEW sameOrder \in BOOLEAN, ~Refuses(u, i, v, sameOrder)
  PROVE  VisibleTo(NewChunk(u, i, v), u)
<1> DEFINE new == NewChunk(u, i, v)
<1>1. MayUpdate(chunk[i], new, u, sameOrder)
  BY DEF Refuses
<1>2. new.owner = chunk[i].owner /\ new.access = v.share /\ v.share \in Grants
  BY TextsAssumption DEF NewChunk, Values
<1>3. new.access[u] \in Levels
  BY <1>2 DEF Grants
<1> HIDE DEF new
<1>4. HasAccess(new, u, Read)
  BY <1>1, <1>2, <1>3, LevelsCompare DEF MayUpdate, HasAccess
<1> QED
  BY <1>4 DEF VisibleTo, new

LEMMA SightStep ==
  ASSUME Inv, UpdateKeepsSight, [Next]_vars
  PROVE  UpdateKeepsSight'
<1> USE UsersAssumption
<1>1. ASSUME NEW u, NEW result \in Results \ {"NoneUnwrapped"}, NEW told,
             Return(u, result, told)
      PROVE  UpdateKeepsSight'
  BY <1>1 DEF Return, UpdateKeepsSight
<1>2. ASSUME NoReturn
      PROVE  UpdateKeepsSight'
  BY <1>2 DEF NoReturn, NoReply, UpdateKeepsSight
<1>3. ASSUME NEW u \in Writers, NEW i \in Ids, NEW v \in Texts, UpdateChunk(u, i, v)
      PROVE  UpdateKeepsSight'
  <2>1. CASE Denies(u, i, v) \/ Rejects(u, i, v)
    BY <2>1, <1>1 DEF Denies, Rejects, Fail, Results
  <2>2. CASE Accepts(u, i, v)
    <3>1. VisibleTo(NewChunk(u, i, v), u)
      BY <1>3, <2>2, UpdaterSees DEF UpdateChunk, Sees, Accepts, OrdersOf
    <3>2. Return(u, "Ok", Told(u, i, v)) \/ Denies(u, i, v) \/ Rejects(u, i, v)
      BY <1>3, <3>1 DEF UpdateChunk
    <3> QED
      BY <3>2, <2>1, <1>1 DEF Results
  <2> QED
    BY <1>3, <2>1, <2>2 DEF UpdateChunk
<1>4. ASSUME NEW u \in Writers, NEW i \in Ids, NEW v \in Texts, SetChunk(u, i, v)
      PROVE  UpdateKeepsSight'
  BY <1>4, <1>1 DEF SetChunk, Denies, Rejects, Fail, Results
<1>5. ASSUME NEW u, NEW i, \/ UpdateHidden(u, i) \/ ViewChunk(u, i) \/ DelStart(u, i)
                           \/ ListNotes(u) \/ TakeRoot(u, i) \/ LetGo(i)
      PROVE  UpdateKeepsSight'
  BY <1>5, <1>1, <1>2
     DEF UpdateHidden, ViewChunk, DelStart, ListNotes, TakeRoot, LetGo, Fail, Results
<1>6. ASSUME NEW i \in Ids,
             \/ DelAdmin(i) \/ DelLeave(i) \/ DelExpectFails(i)
             \/ DelLinkFails(i) \/ DelStops(i) \/ DelRemove(i)
      PROVE  UpdateKeepsSight'
  BY <1>6, <1>1, <1>2
     DEF DelAdmin, DelLeave, DelExpectFails, DelLinkFails, DelStops, DelRemove, Fail, Results
<1>7. CASE DelPublic \/ DelFinish \/ RestartFails
  BY <1>7, <1>1 DEF DelPublic, DelFinish, RestartFails, Fail, Results
<1>8. CASE Restart \/ Tick
  BY <1>8, <1>2 DEF Restart, Tick
<1>9. CASE UNCHANGED vars
  BY <1>9 DEF vars, UpdateKeepsSight
<1> QED
  BY <1>3, <1>4, <1>5, <1>6, <1>7, <1>8, <1>9 DEF Next

\* get_chunk(..).unwrap() at the end of update_chunk never finds nothing: no
\* update that try_clone_to lets through hides the chunk from its author.
THEOREM UpdateNeverHides == Spec => []UpdateKeepsSight
<1>1. Init => UpdateKeepsSight
  BY DEF Init, NoReply, UpdateKeepsSight
<1>2. Inv /\ UpdateKeepsSight /\ [Next]_vars => UpdateKeepsSight'
  BY SightStep
<1> QED
  BY <1>1, <1>2, Invariance, PTL DEF Spec

-----------------------------------------------------------------------------
(* What the access rules add up to                                         *)
(*                                                                         *)
(* The properties are about single steps.  What a step may do to a chunk   *)
(* depends on three facts about the steps before: that the grants of the   *)
(* text are those of the store, or nobody's (Faithful); that an id outside *)
(* of the store has no chunk (Vacant); and that what a running del_chunk   *)
(* has set aside is the caller's to remove, and that all who see it are    *)
(* noted down (Aside).                                                     *)

Faithful ==
  \A i \in live : \/ chunk[i].value.share = chunk[i].access
                  \/ chunk[i].value.tail /\ chunk[i].value.share = NoGrants

Vacant == \A i \in Ids \ live : chunk[i] = Blank

Aside ==
  \A i \in del.remove : /\ i \in live /\ i \notin del.todo
                        /\ HasAccess(chunk[i], del.user, Admin)
                        /\ AccessUsers(chunk[i]) \subseteq del.changed

Rules == Faithful /\ Vacant /\ Aside

LEMMA QuietRules ==
  ASSUME Inv, Rules, Stays, Aside'
  PROVE  Rules'
  BY DEF Stays, Rules, Faithful, Vacant, Inv, TypeOK

LEMMA NoDelAside ==
  ASSUME NEW d, d = NoDel
  PROVE  d.remove = {} /\ d.user = NoUser
  BY DEF NoDel

\* Installing a chunk whose grants are those of its text.
LEMMA InstallRules ==
  ASSUME Inv, Rules, NEW i \in Ids, NEW new, Puts(i, new),
         \/ new.value.share = new.access
         \/ new.value.tail /\ new.value.share = NoGrants
  PROVE  Faithful' /\ Vacant'
  BY DEF Rules, Faithful, Vacant, Puts, Inv, TypeOK

\* What a reader leaves behind has the grants of its text, or a tail.
LEMMA LeftChunkIs ==
  ASSUME Inv, NEW i \in live
  PROVE  LET c == LeftChunk(i) IN
         /\ c.owner = chunk[i].owner
         /\ c.value.title = chunk[i].value.title
         /\ c.value.parents = chunk[i].value.parents
         /\ c.value.tail = chunk[i].value.tail
         /\ c.access = [chunk[i].value.share EXCEPT ![del.user] = None]
         /\ c.value.share = IF c.value.tail THEN NoGrants ELSE c.access
<1> DEFINE share == [chunk[i].value.share EXCEPT ![del.user] = None]
<1>1. chunk[i] \in Chunks /\ chunk[i].value \in Values
  BY IdsAreNodes DEF Inv, TypeOK, Chunks
<1>2. LeftChunk(i) = [chunk[i] EXCEPT !.value = Override(chunk[i].value, share),
                                      !.access = share, !.modified = now]
  BY DEF LeftChunk
<1> HIDE DEF share, LeftChunk
<1>3. /\ LeftChunk(i).owner = chunk[i].owner
      /\ LeftChunk(i).value = Override(chunk[i].value, share)
      /\ LeftChunk(i).access = share
  BY <1>1, <1>2 DEF Chunks
<1>4. /\ Override(chunk[i].value, share).title = chunk[i].value.title
      /\ Override(chunk[i].value, share).parents = chunk[i].value.parents
      /\ Override(chunk[i].value, share).tail = chunk[i].value.tail
      /\ Override(chunk[i].value, share).share =
           IF chunk[i].value.tail THEN NoGrants ELSE share
  BY <1>1 DEF Override, Values
<1> QED
  BY <1>3, <1>4 DEF share

LEMMA AcceptsRules ==
  ASSUME Inv, Rules, NEW u \in Principals, NEW i \in Ids, NEW v \in Texts,
         Accepts(u, i, v)
  PROVE  Rules'
<1> DEFINE new == NewChunk(u, i, v)
<1>1. new.value.share = new.access
  BY DEF NewChunk
<1>2. Puts(i, new) /\ del' = NoDel
  BY AcceptsPuts DEF Accepts, Free
<1> HIDE DEF new
<1> QED
  BY <1>1, <1>2, InstallRules, NoDelAside DEF Rules, Aside

LEMMA DelAdminRules ==
  ASSUME Inv, Rules, NEW i \in Ids, DelAdmin(i)
  PROVE  Rules'
<1>1. /\ i \in live /\ HasAccess(chunk[i], del.user, Admin)
      /\ del' = [del EXCEPT !.todo = @ \ {i}, !.remove = @ \union {i},
                            !.changed = @ \union AccessUsers(chunk[i])]
      /\ UNCHANGED <<live, chunk>> /\ Stays
  BY DEF DelAdmin, store, Stays
<1>2. /\ del'.user = del.user /\ del'.todo = del.todo \ {i}
      /\ del'.remove = del.remove \union {i}
      /\ del'.changed = del.changed \union AccessUsers(chunk[i])
  BY <1>1 DEF Inv, TypeOK, Dels
<1>3. Aside'
  BY <1>1, <1>2 DEF Rules, Aside, HasAccess, AccessUsers
<1> QED
  BY <1>1, <1>3, QuietRules

LEMMA DelLeaveRules ==
  ASSUME Inv, Rules, NEW i \in Ids, DelLeave(i)
  PROVE  Rules'
<1>1. /\ i \in live /\ i \in del.todo
      /\ Puts(i, LeftChunk(i))
      /\ del' = [del EXCEPT !.todo = @ \ {i}, !.changed = @ \union {del.user}]
  BY DelLeavePuts DEF DelLeave, Leaves, Takes
<1>2. Faithful' /\ Vacant'
  BY <1>1, LeftChunkIs, InstallRules
<1>3. /\ del'.user = del.user /\ del'.todo = del.todo \ {i}
      /\ del'.remove = del.remove
      /\ del'.changed = del.changed \union {del.user}
  BY <1>1 DEF Inv, TypeOK, Dels
<1>4. live' = live \union {i} /\ \A j \in live : j # i => chunk'[j] = chunk[j]
  BY <1>1 DEF Puts, Inv, TypeOK
<1>5. Aside'
  BY <1>1, <1>3, <1>4 DEF Rules, Aside, HasAccess, AccessUsers
<1> QED
  BY <1>2, <1>5 DEF Rules

LEMMA DelRemoveRules ==
  ASSUME Inv, Rules, NEW i \in Ids, DelRemove(i)
  PROVE  Rules'
<1>1. /\ live' = live \ {i} /\ live \subseteq Ids /\ chunk'[i] = Blank
      /\ \A j \in Ids \ {i} : chunk'[j] = chunk[j]
  BY DelRemoveTakes DEF Inv, TypeOK
<1>2. /\ del'.user = del.user /\ del'.todo = del.todo
      /\ del'.remove = del.remove \ {i} /\ del'.changed = del.changed
  BY DEF DelRemove, Inv, TypeOK, Dels
<1>3. Faithful' /\ Vacant'
  BY <1>1 DEF Rules, Faithful, Vacant
<1>4. Aside'
  BY <1>1, <1>2 DEF Rules, Aside, HasAccess, AccessUsers
<1> QED
  BY <1>3, <1>4 DEF Rules

\* The start reads the texts, and there is nothing to read of a chunk that is
\* not there.
LEMMA RestartRules ==
  ASSUME Inv, Rules, Restart
  PROVE  Rules'
<1>1. /\ live' = live /\ del' = NoDel
      /\ \A i \in Ids : chunk'[i] = [chunk[i] EXCEPT !.access = chunk[i].value.share]
  BY RestartReads DEF Restart, Free
<1>2. \A i \in Ids : chunk[i] \in Chunks
  BY RestartReads
<1>3. \A i \in Ids : /\ chunk'[i].value = chunk[i].value
                     /\ chunk'[i].access = chunk[i].value.share
  BY RestartReads
<1>4. Faithful'
  BY <1>1, <1>3 DEF Faithful, Inv, TypeOK
<1>5. [Blank EXCEPT !.access = Blank.value.share] = Blank
  <2>1. Blank.value.share = Blank.access
    BY DEF Blank
  <2>2. \A c \in Chunks : [c EXCEPT !.access = c.access] = c
    BY DEF Chunks
  <2> QED
    BY <2>1, <2>2, BlankType
<1>6. Vacant'
  BY <1>1, <1>5 DEF Rules, Vacant
<1> QED
  BY <1>1, <1>4, <1>6, NoDelAside DEF Rules, Aside

\* The steps that leave the chunks of the store alone, and add nothing to what is set aside.
Quiet == Stays /\ (del' = del \/ del'.remove = {})

AcceptStep ==
  \E u \in Writers, i \in Ids, v \in Texts :
    /\ Accepts(u, i, v)
    /\ Return(u, "Ok", Told(u, i, v)) \/ Return(u, "NoneUnwrapped", {})

\* All that may happen to a chunk.
LEMMA StepKinds ==
  ASSUME Inv, [Next]_vars
  PROVE  \/ Quiet \/ AcceptStep
         \/ \E i \in Ids : DelAdmin(i) \/ DelLeave(i) \/ DelRemove(i)
         \/ Restart
<1>1. ASSUME NEW u \in Writers, NEW i \in Ids, NEW v \in Texts,
             SetChunk(u, i, v) \/ UpdateChunk(u, i, v)
      PROVE  Quiet \/ AcceptStep
  <2>1. CASE Denies(u, i, v) \/ Rejects(u, i, v)
    BY <2>1 DEF Denies, Rejects, Fail, store, Quiet, Stays
  <2>2. CASE Accepts(u, i, v) /\ (Return(u, "Ok", Told(u, i, v))
                                  \/ Return(u, "NoneUnwrapped", {}))
    BY <2>2 DEF AcceptStep
  <2> QED
    BY <1>1, <2>1, <2>2 DEF SetChunk, UpdateChunk
<1>2. ASSUME NEW u, NEW i, \/ UpdateHidden(u, i) \/ ViewChunk(u, i)
                           \/ ListNotes(u) \/ TakeRoot(u, i)
      PROVE  Quiet
  BY <1>2 DEF UpdateHidden, ViewChunk, ListNotes, TakeRoot, Fail, store, Quiet, Stays
<1>3. ASSUME NEW u, NEW ids, DelStart(u, ids)
      PROVE  Quiet
  <2>1. del'.remove = {}
    BY <1>3 DEF DelStart, NoDel
  <2> QED
    BY <1>3, <2>1 DEF DelStart, store, Quiet, Stays
<1>4. ASSUME NEW i \in Ids, DelExpectFails(i) \/ DelLinkFails(i) \/ DelStops(i)
      PROVE  Quiet
  BY <1>4, NoDelAside DEF DelExpectFails, DelLinkFails, DelStops, Fail, store, Quiet, Stays
<1>5. CASE DelPublic \/ DelFinish \/ RestartFails \/ Tick \/ UNCHANGED vars
  BY <1>5, NoDelAside DEF DelPublic, DelFinish, RestartFails, Tick, vars, Fail, store, Quiet, Stays
<1>6. ASSUME NEW n \in Nodes, LetGo(n)
      PROVE  Quiet
  BY <1>6, LetGoStays DEF LetGo, Quiet
<1> QED
  BY <1>1, <1>2, <1>3, <1>4, <1>5, <1>6 DEF Next

LEMMA RulesStep ==
  ASSUME Inv, Rules, [Next]_vars
  PROVE  Rules'
<1>1. CASE Quiet
  <2>1. Aside'
    BY <1>1 DEF Quiet, Stays, Rules, Aside, HasAccess, AccessUsers, Inv, TypeOK
  <2> QED
    BY <1>1, <2>1, QuietRules DEF Quiet
<1>2. CASE AcceptStep
  BY <1>2, AcceptsRules, UsersAssumption DEF AcceptStep
<1>3. ASSUME NEW i \in Ids, DelAdmin(i) \/ DelLeave(i) \/ DelRemove(i)
      PROVE  Rules'
  BY <1>3, DelAdminRules, DelLeaveRules, DelRemoveRules
<1>4. CASE Restart
  BY <1>4, RestartRules
<1> QED
  BY <1>1, <1>2, <1>3, <1>4, StepKinds

LEMMA RulesInvariance == Spec => [](Inv /\ Rules)
<1>1. Init => Rules
  BY NoDelAside, IdsAreNodes DEF Init, Rules, Faithful, Vacant, Aside
<1>2. Inv /\ Rules /\ [Next]_vars => Rules'
  BY RulesStep
<1> QED
  BY <1>1, <1>2, Invariance, PTL DEF Spec

-----------------------------------------------------------------------------
(* Who changes a chunk *)

\* What OnlyAuthorised allows a step to do to chunk i.
Allowed(i) ==
  \/ Meta(chunk'[i]) = Meta(chunk[i])
  \/ Restart
  \/ i \notin live /\ chunk'[i].owner = Actor
  \/ HasAccess(chunk[i], Actor, Admin) /\ chunk'[i].owner \in {chunk[i].owner, NoUser}
  \/ Meta(chunk'[i]) = Meta([chunk[i] EXCEPT !.access = [@ EXCEPT ![Actor] = None]])

\* set_chunk acts for its caller, who is allowed to by try_clone_to.
LEMMA AcceptAllowed ==
  ASSUME Inv, NEW u \in Principals, NEW i \in Ids, NEW v \in Texts,
         Accepts(u, i, v), reply'.user = u, NEW j \in Ids
  PROVE  Allowed(j)
<1> DEFINE new == NewChunk(u, i, v)
<1>1. del.user = NoUser /\ Actor = u
  BY NoDelAside DEF Accepts, Free, Actor
<1>2. chunk'[i] = new /\ \A k \in Ids \ {i} : chunk'[k] = chunk[k]
  BY AcceptsPuts DEF Puts
<1>3. /\ new.owner = IF i \in live THEN chunk[i].owner ELSE u
      /\ new.value = v /\ new.access = v.share
  BY DEF NewChunk
<1>4. i \in live => \E same \in BOOLEAN : MayUpdate(chunk[i], new, u, same)
  BY DEF Accepts, Refuses, OrdersOf
<1> HIDE DEF new
<1>5. CASE j # i
  BY <1>2, <1>5 DEF Allowed
<1>6. CASE j = i /\ i \notin live
  BY <1>1, <1>2, <1>3, <1>6 DEF Allowed
<1>7. CASE j = i /\ i \in live
  <2>1. chunk'[i] = new /\ new.owner = chunk[i].owner
    BY <1>2, <1>3, <1>7
  <2>2. CASE u = chunk[i].owner \/ chunk[i].access[u] = Admin
    <3>1. HasAccess(chunk[i], Actor, Admin)
      BY <1>1, <2>2 DEF HasAccess, Admin
    <3> QED
      BY <1>7, <2>1, <3>1 DEF Allowed
  <2>3. CASE /\ new.access = chunk[i].access
             /\ new.value.title = chunk[i].value.title
             /\ new.value.parents = chunk[i].value.parents
    BY <1>7, <2>1, <2>3 DEF Allowed, Meta
  <2> QED
    BY <1>4, <1>7, <2>2, <2>3 DEF MayUpdate
<1> QED
  BY <1>5, <1>6, <1>7

LEMMA LeaveAllowed ==
  ASSUME Inv, Rules, NEW i \in Ids, DelLeave(i), NEW j \in Ids
  PROVE  Allowed(j)
<1>1. /\ i \in live /\ del.user # NoUser /\ chunk[i].value.share # NoGrants
      /\ chunk'[i] = LeftChunk(i) /\ \A k \in Ids \ {i} : chunk'[k] = chunk[k]
      /\ \A k \in Ids : chunk[k] \in Chunks
  BY DelLeavePuts, IdsAreNodes DEF DelLeave, Leaves, Takes, Running, Puts, Inv, TypeOK
<1>2. Actor = del.user
  BY <1>1 DEF Actor
<1>3. chunk[i].value.share = chunk[i].access
  BY <1>1 DEF Rules, Faithful
<1>4. CASE j = i
  <2>1. [chunk[i] EXCEPT !.access = [@ EXCEPT ![Actor] = None]] =
        [chunk[i] EXCEPT !.access = [chunk[i].access EXCEPT ![Actor] = None]]
    OBVIOUS
  <2> DEFINE left == [chunk[i].access EXCEPT ![Actor] = None]
  <2>2. \A c \in Chunks : \A g :
          Meta([c EXCEPT !.access = g]) = <<c.owner, c.value.title, c.value.parents, g>>
    BY DEF Meta, Chunks
  <2>3. LeftChunk(i).access = left
    BY <1>1, <1>2, <1>3, LeftChunkIs
  <2> HIDE DEF left
  <2>4. chunk'[i] = LeftChunk(i) /\ chunk[i] \in Chunks
    BY <1>1
  <2>5. Meta(chunk'[i]) = <<chunk[i].owner, chunk[i].value.title,
                            chunk[i].value.parents, left>>
    BY <1>1, <2>3, <2>4, LeftChunkIs DEF Meta
  <2>6. Meta([chunk[i] EXCEPT !.access = left]) = Meta(chunk'[i])
    BY <2>2, <2>4, <2>5
  <2> QED
    BY <1>4, <2>1, <2>6 DEF Allowed, left
<1>5. CASE j # i
  BY <1>1, <1>5 DEF Allowed
<1> QED
  BY <1>4, <1>5

LEMMA RemoveAllowed ==
  ASSUME Inv, Rules, NEW i \in Ids, DelRemove(i), NEW j \in Ids
  PROVE  Allowed(j)
<1>1. del.user # NoUser /\ Actor = del.user /\ i \in del.remove
  BY DEF DelRemove, Running, Actor
<1>2. chunk'[i] = Blank /\ \A k \in Ids \ {i} : chunk'[k] = chunk[k]
  BY DelRemoveTakes
<1>3. Blank.owner = NoUser
  BY DEF Blank
<1> QED
  BY <1>1, <1>2, <1>3 DEF Allowed, Rules, Aside

\* A chunk is created, changed in title, parents or grants, and removed by those
\* who may, and left by its readers: over any sequence of set_chunk,
\* update_chunk and del_chunk, however far a del_chunk comes.
THEOREM ChangesAreAuthorised == Spec => OnlyAuthorised
<1>1. ASSUME Inv, Rules, [Next]_vars, NEW j \in Ids
      PROVE  Allowed(j)
  <2>1. CASE Quiet
    BY <2>1 DEF Quiet, Stays, Allowed
  <2>2. CASE AcceptStep
    <3>1. PICK u \in Writers, i \in Ids, v \in Texts :
             Accepts(u, i, v) /\ reply'.user = u
      BY <2>2 DEF AcceptStep, Return
    <3> QED
      BY <1>1, <3>1, AcceptAllowed, UsersAssumption
  <2>3. ASSUME NEW i \in Ids, DelAdmin(i)
        PROVE  Allowed(j)
    BY <2>3 DEF DelAdmin, store, Allowed
  <2>4. ASSUME NEW i \in Ids, DelLeave(i)
        PROVE  Allowed(j)
    BY <1>1, <2>4, LeaveAllowed
  <2>5. ASSUME NEW i \in Ids, DelRemove(i)
        PROVE  Allowed(j)
    BY <1>1, <2>5, RemoveAllowed
  <2>6. CASE Restart
    BY <2>6 DEF Allowed
  <2> QED
    BY <1>1, <2>1, <2>2, <2>3, <2>4, <2>5, <2>6, StepKinds
<1>2. Inv /\ Rules /\ [Next]_vars => [\A i \in Ids : Allowed(i)]_vars
  BY <1>1
<1>3. OnlyAuthorised <=> [][\A i \in Ids : Allowed(i)]_vars
  BY DEF OnlyAuthorised, Allowed
<1> QED
  BY <1>2, <1>3, RulesInvariance, PTL DEF Spec

-----------------------------------------------------------------------------
(* Who is told *)

\* Whether user w sees chunk j is another matter after the step.
SightChanges(w, j) == HasAccess(chunk[j], w, Read) # HasAccess(chunk'[j], w, Read)

\* No user sees what is not there; who sees a chunk is one of its users.
LEMMA Sight ==
  ASSUME NEW w \in Users
  PROVE  /\ ~HasAccess(Blank, w, Read)
         /\ \A c \in Chunks : HasAccess(c, w, Read) => w \in AccessUsers(c)
<1>1. w # NoUser /\ w \in Principals /\ Blank.owner = NoUser /\ Blank.access = NoGrants
  BY UsersAssumption DEF Blank, Principals
<1>2. NoGrants[w] = 0
  BY <1>1 DEF NoGrants, None
<1>3. ~HasAccess(Blank, w, Read)
  BY <1>1, <1>2 DEF HasAccess, Read
<1>4. ASSUME NEW c \in Chunks, HasAccess(c, w, Read), w # c.owner
      PROVE  c.access[w] # None
  BY <1>4 DEF HasAccess, Read, None
<1> QED
  BY <1>1, <1>3, <1>4 DEF AccessUsers, Grantees

LEMMA AcceptTells ==
  ASSUME Inv, Rules, NEW u \in Principals, NEW i \in Ids, NEW v \in Texts,
         Accepts(u, i, v), NEW w \in Users, NEW j \in Ids, SightChanges(w, j)
  PROVE  w \in Told(u, i, v)
<1> DEFINE new == NewChunk(u, i, v)
<1>1. new \in Chunks
  BY AcceptsKeeps, NewChunkType DEF Inv
<1>2. new.owner = IF i \in live THEN chunk[i].owner ELSE u
  BY DEF NewChunk
<1>3. chunk'[i] = new /\ \A k \in Ids \ {i} : chunk'[k] = chunk[k]
  BY AcceptsPuts DEF Puts
<1>4. Told(u, i, v) = IF i \in live THEN AccessDiff(chunk[i], new) ELSE AccessUsers(new)
  BY DEF Told
<1> HIDE DEF new
<1>5. j = i /\ chunk'[i] = new /\ w \in Principals
  BY <1>3 DEF SightChanges, Principals
<1>6. CASE i \in live
  <2>1. chunk[i].access[w] # new.access[w]
    BY <1>2, <1>5, <1>6 DEF SightChanges, HasAccess
  <2> QED
    BY <1>4, <1>5, <1>6, <2>1 DEF AccessDiff
<1>7. CASE i \notin live
  <2>1. ~HasAccess(chunk[i], w, Read)
    BY <1>7, Sight DEF Rules, Vacant
  <2>2. HasAccess(new, w, Read)
    BY <2>1, <1>5 DEF SightChanges, HasAccess
  <2> QED
    BY <1>1, <1>4, <1>7, <2>2, Sight
<1> QED
  BY <1>6, <1>7

LEMMA LeaveTells ==
  ASSUME Inv, Rules, NEW i \in Ids, DelLeave(i),
         NEW w \in Users, NEW j \in Ids, SightChanges(w, j)
  PROVE  w \in del'.changed
<1>1. /\ i \in live /\ chunk[i].value.share # NoGrants
      /\ chunk'[i] = LeftChunk(i) /\ \A k \in Ids \ {i} : chunk'[k] = chunk[k]
      /\ \A k \in Ids : chunk[k] \in Chunks
  BY DelLeavePuts, IdsAreNodes DEF DelLeave, Leaves, Puts, Inv, TypeOK
<1>2. del.user \in del'.changed
  BY DEF DelLeave, Inv, TypeOK, Dels
<1>3. /\ LeftChunk(i).owner = chunk[i].owner
      /\ LeftChunk(i).access = [chunk[i].access EXCEPT ![del.user] = None]
  BY <1>1, LeftChunkIs DEF Rules, Faithful
<1>4. j = i /\ chunk'[i] = LeftChunk(i)
  BY <1>1 DEF SightChanges
<1>5. chunk[i].access \in Grants /\ w \in Principals
  BY <1>1 DEF Chunks, Principals
<1>6. w = del.user
  BY <1>3, <1>4, <1>5 DEF SightChanges, HasAccess, Grants
<1> QED
  BY <1>2, <1>6

LEMMA RemoveTells ==
  ASSUME Inv, Rules, NEW i \in Ids, DelRemove(i),
         NEW w \in Users, NEW j \in Ids, SightChanges(w, j)
  PROVE  w \in del'.changed
<1>1. del'.changed = del.changed /\ i \in del.remove
  BY DEF DelRemove, Inv, TypeOK, Dels
<1>2. chunk'[i] = Blank /\ \A k \in Ids \ {i} : chunk'[k] = chunk[k]
  BY DelRemoveTakes
<1>3. j = i /\ chunk[j] \in Chunks
  BY <1>2, IdsAreNodes DEF SightChanges, Inv, TypeOK
<1>4. ~HasAccess(chunk'[j], w, Read)
  BY <1>2, <1>3, Sight
<1>5. HasAccess(chunk[j], w, Read)
  BY <1>4 DEF SightChanges, HasAccess
<1> QED
  BY <1>1, <1>3, <1>5, Sight DEF Rules, Aside

\* Whoever gains or loses sight of a chunk by a call that succeeds is told: what
\* set_chunk returns by access_diff, and del_chunk notes down on its way, misses
\* nobody.
THEOREM SightChangesAreTold == Spec => SightChangeTold
<1> DEFINE Tells ==
      \A i \in Ids, u \in Users :
         /\ reply'.result = "Ok"
         /\ Actor # NoUser
         /\ HasAccess(chunk[i], u, Read) # HasAccess(chunk'[i], u, Read)
         => u \in reply'.told \union del'.changed
<1>1. ASSUME Inv, Rules, [Next]_vars
      PROVE  Tells
  <2> SUFFICES ASSUME NEW j \in Ids, NEW w \in Users, reply'.result = "Ok",
                      Actor # NoUser, SightChanges(w, j)
               PROVE  w \in reply'.told \union del'.changed
    BY DEF SightChanges
  <2>1. CASE Quiet
    BY <2>1 DEF Quiet, Stays, SightChanges
  <2>2. CASE AcceptStep
    <3>1. PICK u \in Writers, i \in Ids, v \in Texts :
             /\ Accepts(u, i, v)
             /\ Return(u, "Ok", Told(u, i, v)) \/ Return(u, "NoneUnwrapped", {})
      BY <2>2 DEF AcceptStep
    <3>2. reply'.told = Told(u, i, v)
      BY <3>1 DEF Return
    <3> QED
      BY <1>1, <3>1, <3>2, AcceptTells, UsersAssumption
  <2>3. ASSUME NEW i \in Ids, DelAdmin(i)
        PROVE  FALSE
    BY <2>3 DEF DelAdmin, store, SightChanges
  <2>4. ASSUME NEW i \in Ids, DelLeave(i)
        PROVE  w \in del'.changed
    BY <1>1, <2>4, LeaveTells
  <2>5. ASSUME NEW i \in Ids, DelRemove(i)
        PROVE  w \in del'.changed
    BY <1>1, <2>5, RemoveTells
  <2>6. CASE Restart
    <3>1. del.user = NoUser /\ reply'.user = NoUser
      BY <2>6, NoDelAside DEF Restart, Free, NoReturn, NoReply
    <3> QED
      BY <3>1 DEF Actor
  <2> QED
    BY <1>1, <2>1, <2>2, <2>3, <2>4, <2>5, <2>6, StepKinds
<1>2. Inv /\ Rules /\ [Next]_vars => [Tells]_vars
  BY <1>1
<1>3. SightChangeTold <=> [][Tells]_vars
  BY DEF SightChangeTold
<1> QED
  BY <1>2, <1>3, RulesInvariance, PTL DEF Spec

\* A restart gives back every grant of a chunk whose text ends its last line:
\* what the store grants and what the text grants are then the same.
THEOREM RestartsKeepGrants == Spec => RestartKeepsGrants
<1> DEFINE Keeps == Restart =>
      \A i \in live : ~chunk[i].value.tail => chunk'[i].access = chunk[i].access
<1>1. ASSUME Inv, Rules, Restart, NEW i \in live, ~chunk[i].value.tail
      PROVE  chunk'[i].access = chunk[i].access
  <2>1. chunk'[i].access = chunk[i].value.share
    BY <1>1, RestartReads DEF Inv, TypeOK
  <2> QED
    BY <1>1, <2>1 DEF Rules, Faithful
<1>2. Inv /\ Rules /\ [Next]_vars => [Keeps]_vars
  BY <1>1
<1>3. RestartKeepsGrants <=> [][Keeps]_vars
  BY DEF RestartKeepsGrants
<1> QED
  BY <1>2, <1>3, RulesInvariance, PTL DEF Spec
=============================================================================
