------------------------------- MODULE ChunkDB -------------------------------
(***************************************************************************)
(* The in-memory store of notes of chunk-app: struct DB and its operations *)
(* (src/src/v1/db/db_app.rs) over DBChunk (src/src/v1/db/db_chunk.rs).     *)
(*                                                                         *)
(* Every operation runs under the guard of the one RwLock around the DB,   *)
(* so an operation is a step here.  The exception is del_chunk: its loops  *)
(* over a HashSet of ids, the first of which can stop half way, are one    *)
(* step per id while the guard is held.                                    *)
(*                                                                         *)
(* What lasts longer than the guard is an Arc: a list of notes keeps one   *)
(* of each of its notes while it sorts and shows them, a subtree that of   *)
(* its root.  A DBChunk that is replaced or removed meanwhile is no longer *)
(* in the store, but the weak references to it can be upgraded until the   *)
(* list lets go of it.  So the DBChunks are nodes: an id stands for the    *)
(* one that the store has under it, a member of Old for one that only a    *)
(* list holds.  What lists do with the locks of their notes is in          *)
(* ChunkLocks.                                                             *)
(*                                                                         *)
(* A note's text is abstracted to what the store reads out of it: the      *)
(* title, the ids after "->", the grants of its "share:" lines, and tail:  *)
(* does the text, its share lines taken out, end in an unterminated line?  *)
(***************************************************************************)
EXTENDS ChunkAccess

CONSTANTS Ids,        \* the chunk ids in use
          Old,        \* bound: places for DBChunks that only lists hold
          Titles,     \* the titles, NoTitle for a text without a "# " line
          NoTitle,
          Texts,      \* the texts clients write
          Writers,    \* bound: who sends writes
          Viewers,    \* bound: whose dynamic properties are computed
          Listers,    \* bound: who asks for lists of notes and subtrees
          NoUser,     \* owner of a node that has no DBChunk
          NoId,       \* id of a node that has no DBChunk
          MaxTime     \* bound on the clock, in seconds

Nodes  == Ids \union Old
Times  == 0..MaxTime
Values == [title : Titles, parents : SUBSET Ids, share : Grants, tail : BOOLEAN]

ASSUME IdsAssumption    == IsFiniteSet(Ids) /\ Ids \intersect Old = {}
ASSUME TitlesAssumption == NoTitle \in Titles
ASSUME TextsAssumption  == Texts \subseteq Values
ASSUME UsersAssumption  == /\ Writers \subseteq Principals
                           /\ Viewers \union Listers \subseteq Users
                           /\ NoUser \notin Principals
ASSUME TimeAssumption   == MaxTime \in Nat

VARIABLES
  live,       \* the ids that are keys of DB.chunks
  held,       \* the nodes whose Arc a running list or subtree keeps
  chunk,      \* the nodes' Chunk: id, owner, text, extracted access, modified
  parents,    \* DBChunk.parents, the weak references that can be upgraded
  children,   \* DBChunk.children, likewise
  cache,      \* props_per_user for "modified": {} absent, {t} the value t
  now,        \* get_secs()
  status,     \* "up", "poisoned" (a panic under the guard) or "noboot"
  del,        \* the del_chunk call that holds the guard
  reply       \* what the call that ended with this step returned, and to whom

vars == <<live, held, chunk, parents, children, cache, now, status, del, reply>>
links == <<parents, children>>
store == <<live, held, chunk, parents, children, cache>>

Blank == [id       |-> NoId,
          owner    |-> NoUser,
          value    |-> [title |-> NoTitle, parents |-> {},
                        share |-> NoGrants, tail |-> FALSE],
          access   |-> NoGrants,
          modified |-> 0]

Chunks == [id : Ids \union {NoId}, owner : Users \union {NoUser},
           value : Values, access : Grants, modified : Times]

NoDel == [user |-> NoUser, todo |-> {}, remove |-> {}, changed |-> {}]
Dels  == [user : Users \union {NoUser}, todo : SUBSET Ids,
          remove : SUBSET Ids, changed : SUBSET Principals]

Results == {"Ok", "AuthError", "InvalidChunk", "NotFound",
            "NoneUnwrapped", "ErrUnwrapped", "ExpectFailed"}
Replies == [user : Principals \union {NoUser}, result : Results,
            told : SUBSET Principals]

NoReply == [user |-> NoUser, result |-> "Ok", told |-> {}]

TypeOK ==
  /\ live \in SUBSET Ids
  /\ held \in SUBSET (live \union Old)
  /\ chunk \in [Nodes -> Chunks]
  /\ parents \in [Nodes -> SUBSET Nodes]
  /\ children \in [Nodes -> SUBSET Nodes]
  /\ cache \in [Nodes -> [Users -> SUBSET Times]]
  /\ now \in Times
  /\ status \in {"up", "poisoned", "noboot"}
  /\ del \in Dels
  /\ reply \in Replies

-----------------------------------------------------------------------------
(* Graph walks.  link_chunk and invalidate recurse along the parents,      *)
(* get_prop_dynamic along the children: what they visit is the smallest    *)
(* set that holds the start and is closed under the step.                  *)

Closed(next, S) == \A x \in S : next[x] \subseteq S

Reach(next, X) ==
  {y \in DOMAIN next :
     \A S \in SUBSET DOMAIN next : X \subseteq S /\ Closed(next, S) => y \in S}

\* No cycle: every non-empty set of nodes has one without a parent in the set.
Acyclic(next) ==
  \A S \in SUBSET DOMAIN next : S # {} => \E x \in S : next[x] \intersect S = {}

Latest(S) == {t \in S : \A s \in S : s <= t}

Empty == [u \in Users |-> {}]

\* Mutant of Invalidate: only the chunk and its parents are cleared.
InvalidateNear(f, up, i) ==
  [n \in Nodes |-> IF n \in {i} \union up[i] THEN Empty ELSE f[n]]

\* invalidate(_, true): of the caches f, those of i and all its ancestors go.
Invalidate(f, up, i) ==
  [n \in Nodes |-> IF n \in Reach(up, {i}) THEN Empty ELSE f[n]]

-----------------------------------------------------------------------------
(* When the store gives up its DBChunk under id i, a list that holds it    *)
(* keeps it: its data and links move to a free place, which the weak       *)
(* references to it then mean.  Without such a list they cannot be         *)
(* upgraded any more.                                                      *)

\* Where the DBChunk of i goes: one free place, or none if nobody holds it.
Places(i) == IF i \in held THEN {{n} : n \in Old \ held} ELSE {{}}

Carried(f, i, old) == [n \in Nodes |-> IF n \in old THEN f[i] ELSE f[n]]

Redirected(next, i, old) ==
  [n \in Nodes |-> LET to == Carried(next, i, old)[n]
                   IN  IF i \in to THEN (to \ {i}) \union old ELSE to]

-----------------------------------------------------------------------------
Init ==
  /\ live = {}
  /\ held = {}
  /\ chunk = [n \in Nodes |-> Blank]
  /\ parents = [n \in Nodes |-> {}]
  /\ children = [n \in Nodes |-> {}]
  /\ cache = [n \in Nodes |-> Empty]
  /\ now = 0
  /\ status = "up"
  /\ del = NoDel
  /\ reply = NoReply

\* The guard of DB's RwLock is free and not poisoned.
Free == status = "up" /\ del = NoDel

Return(u, result, told) == reply' = [user |-> u, result |-> result, told |-> told]
NoReturn == reply' = NoReply

Fail(u, result) == Return(u, result, {}) /\ UNCHANGED <<store, status, now>>

-----------------------------------------------------------------------------
(* set_chunk *)

\* The chunk that takes the place of id i: an update keeps the owner.
NewChunk(u, i, v) ==
  [id |-> i, owner |-> IF i \in live THEN chunk[i].owner ELSE u,
   value |-> v, access |-> v.share, modified |-> now]

\* The parents that are in the store: an id that is not yet is skipped.
LinkedParents(v) == v.parents \intersect live

\* Mutant of Refuses: the public assertion is dropped.
RefusesNotPublic(u, i, v, sameOrder) ==
  i \in live /\ ~MayUpdate(chunk[i], NewChunk(u, i, v), u, sameOrder)

Refuses(u, i, v, sameOrder) ==
  \/ u = Public
  \/ i \in live /\ ~MayUpdate(chunk[i], NewChunk(u, i, v), u, sameOrder)

\* Mutant of Circular: the recursion goes up one level only.
CircularNear(i, v) ==
  i \in v.parents \/ \E p \in LinkedParents(v) : i \in parents[p]

\* link_chunk's InvalidChunk: i names itself, or is met above its parents.
Circular(i, v) == i \in v.parents \/ i \in Reach(parents, LinkedParents(v))

\* Mutant of ParentsWith: the new chunk starts with the old one's parents too.
ParentsKept(i, new, old) ==
  [n \in Nodes |-> IF n = i THEN parents[i] \union LinkedParents(new.value)
                  ELSE Redirected(parents, i, old)[n]
                       \union {p \in {i} : n \in children[i]}]

\* The links once new is linked under id i, in the place of old: it is told to
\* the parents that its text names and to the children it takes over.
ParentsWith(i, new, old) ==
  [n \in Nodes |-> IF n = i THEN LinkedParents(new.value)
                  ELSE Redirected(parents, i, old)[n]
                       \union {p \in {i} : n \in children[i]}]

\* Mutant of ChildrenWith: the parents are not told of the new child.
ChildrenUntold(i, new, old) ==
  [n \in Nodes |-> IF n = i THEN children[i] ELSE Redirected(children, i, old)[n]]

ChildrenWith(i, new, old) ==
  [n \in Nodes |-> IF n = i THEN children[i]
                  ELSE Redirected(children, i, old)[n]
                       \union {c \in {i} : n \in LinkedParents(new.value)}]

\* The new DBChunk starts with the old one's children and an empty cache, is
\* linked, and clears the caches above it.  It takes the place in the store of
\* the old one, which only the lists that hold it keep.
Install(i, new, old) ==
  /\ live' = live \union {i}
  /\ held' = (held \ {i}) \union old
  /\ chunk' = [Carried(chunk, i, old) EXCEPT ![i] = new]
  /\ parents' = ParentsWith(i, new, old)
  /\ children' = ChildrenWith(i, new, old)
  /\ cache' = Invalidate(Carried(cache, i, old), parents', i)

\* Mutant of Told: only those who can see the chunk after the call.
ToldAfter(u, i, v) == AccessUsers(NewChunk(u, i, v))

\* The users set_chunk returns: those for which access changed.
Told(u, i, v) == IF i \in live
                 THEN AccessDiff(chunk[i], NewChunk(u, i, v))
                 ELSE AccessUsers(NewChunk(u, i, v))

Denies(u, i, v) ==
  /\ Free
  /\ \E sameOrder \in OrdersOf(v) : Refuses(u, i, v, sameOrder)
  /\ Fail(u, "AuthError")
  /\ UNCHANGED del

Rejects(u, i, v) ==
  /\ Free
  /\ \E sameOrder \in OrdersOf(v) : ~Refuses(u, i, v, sameOrder)
  /\ Circular(i, v)
  /\ Fail(u, "InvalidChunk")
  /\ UNCHANGED del

Accepts(u, i, v) ==
  /\ Free
  /\ \E sameOrder \in OrdersOf(v) : ~Refuses(u, i, v, sameOrder)
  /\ ~Circular(i, v)
  /\ \E old \in Places(i) : Install(i, NewChunk(u, i, v), old)
  /\ UNCHANGED <<now, del>>

SetChunk(u, i, v) ==
  \/ Denies(u, i, v)
  \/ Rejects(u, i, v)
  \/ /\ Accepts(u, i, v)
     /\ Return(u, "Ok", Told(u, i, v))
     /\ UNCHANGED status

-----------------------------------------------------------------------------
(* update_chunk, the socket's way to set_chunk: the note must be visible   *)
(* before, and is fetched again, with an unwrap, after.                    *)

Sees(u, i) == i \in live /\ VisibleTo(chunk[i], u)

UpdateHidden(u, i) ==
  /\ Free
  /\ ~Sees(u, i)
  /\ Fail(u, "NotFound")
  /\ UNCHANGED del

UpdateChunk(u, i, v) ==
  /\ Sees(u, i)
  /\ \/ Denies(u, i, v)
     \/ Rejects(u, i, v)
     \/ /\ Accepts(u, i, v)
        /\ IF VisibleTo(NewChunk(u, i, v), u)
           THEN Return(u, "Ok", Told(u, i, v)) /\ UNCHANGED status
           ELSE Return(u, "NoneUnwrapped", {}) /\ status' = "poisoned"

-----------------------------------------------------------------------------
(* del_chunk: an owner or admin removes the chunk, a reader leaves it.  The *)
(* ids are taken in the order of a HashSet; the first one that is missing  *)
(* or not the caller's ends the call, and what was done before it stays.   *)

DelPublic ==
  /\ Free
  /\ Fail(Public, "AuthError")
  /\ UNCHANGED del

DelStart(u, ids) ==
  /\ Free
  /\ u # Public
  /\ del' = [NoDel EXCEPT !.user = u, !.todo = ids]
  /\ NoReturn
  /\ UNCHANGED <<store, now, status>>

\* A del_chunk holds the guard, and its loop takes i.
Running  == status = "up" /\ del.user # NoUser
Takes(i) == Running /\ i \in del.todo

\* Mutant of DelAdmin: write access is enough.
DelWriter(i) ==
  /\ Takes(i)
  /\ i \in live
  /\ HasAccess(chunk[i], del.user, Write)
  /\ del' = [del EXCEPT !.todo = @ \ {i},
                        !.remove = @ \union {i},
                        !.changed = @ \union AccessUsers(chunk[i])]
  /\ NoReturn
  /\ UNCHANGED <<store, now, status>>

DelAdmin(i) ==
  /\ Takes(i)
  /\ i \in live
  /\ HasAccess(chunk[i], del.user, Admin)
  /\ del' = [del EXCEPT !.todo = @ \ {i},
                        !.remove = @ \union {i},
                        !.changed = @ \union AccessUsers(chunk[i])]
  /\ NoReturn
  /\ UNCHANGED <<store, now, status>>

Leaves(i) ==
  /\ Takes(i)
  /\ i \in live
  /\ ~HasAccess(chunk[i], del.user, Admin)
  /\ HasAccess(chunk[i], del.user, Read)

\* Mutant of Override: the old share lines stay in a text with a tail.
OverrideKeeps(v, share) == [v EXCEPT !.share = IF v.tail THEN @ ELSE share]

\* Mutant of Override: no share line is pushed.
OverrideDrops(v, share) == [v EXCEPT !.share = NoGrants]

\* override("access", ..): the share lines go and one with the remaining
\* grants is pushed behind the text, onto its last line if that is not ended,
\* where it is no share line any more.  Nobody left: nothing is pushed.
Override(v, share) ==
  [v EXCEPT !.share = IF v.tail THEN NoGrants ELSE share]

\* The chunk a reader leaves behind: read again from the text, their grants
\* retained out of the set, modified now.
LeftChunk(i) ==
  LET share == [chunk[i].value.share EXCEPT ![del.user] = None]
  IN  [chunk[i] EXCEPT !.value = Override(chunk[i].value, share),
                       !.access = share, !.modified = now]

DelLeave(i) ==
  /\ Leaves(i)
  /\ chunk[i].value.share # NoGrants
  /\ ~Circular(i, chunk[i].value)
  /\ \E old \in Places(i) : Install(i, LeftChunk(i), old)
  /\ del' = [del EXCEPT !.todo = @ \ {i}, !.changed = @ \union {del.user}]
  /\ NoReturn
  /\ UNCHANGED <<now, status>>

\* .expect("If user has read access, access has to be valid here")
DelExpectFails(i) ==
  /\ Leaves(i)
  /\ chunk[i].value.share = NoGrants
  /\ status' = "poisoned"
  /\ del' = NoDel
  /\ Return(del.user, "ExpectFailed", {})
  /\ UNCHANGED <<store, now>>

\* The unwrap of set_chunk: linking the same text again closes a cycle.
DelLinkFails(i) ==
  /\ Leaves(i)
  /\ chunk[i].value.share # NoGrants
  /\ Circular(i, chunk[i].value)
  /\ status' = "poisoned"
  /\ del' = NoDel
  /\ Return(del.user, "ErrUnwrapped", {})
  /\ UNCHANGED <<store, now>>

DelStops(i) ==
  /\ Takes(i)
  /\ \/ i \notin live /\ Fail(del.user, "NotFound")
     \/ /\ i \in live
        /\ ~HasAccess(chunk[i], del.user, Read)
        /\ Fail(del.user, "AuthError")
  /\ del' = NoDel

\* The second loop: what is above a chunk is invalidated, its entry removed.
DelRemove(i) ==
  /\ Running
  /\ del.todo = {}
  /\ i \in del.remove
  /\ \E old \in Places(i) :
       /\ live' = live \ {i}
       /\ held' = (held \ {i}) \union old
       /\ chunk' = [Carried(chunk, i, old) EXCEPT ![i] = Blank]
       /\ parents' = [Redirected(parents, i, old) EXCEPT ![i] = {}]
       /\ children' = [Redirected(children, i, old) EXCEPT ![i] = {}]
       /\ cache' = Carried(Invalidate(cache, parents, i), i, old)
  /\ del' = [del EXCEPT !.remove = @ \ {i}]
  /\ NoReturn
  /\ UNCHANGED <<now, status>>

DelFinish ==
  /\ Running
  /\ del.todo = {}
  /\ del.remove = {}
  /\ Return(del.user, "Ok", del.changed)
  /\ del' = NoDel
  /\ UNCHANGED <<store, now, status>>

-----------------------------------------------------------------------------
(* The lists of a socket, whose Arcs outlive the guard.  held is what all  *)
(* lists together hold: they let go of their notes one by one, in an order *)
(* and at a time of their own.                                             *)

\* get_notes: under the guard, an Arc of every note its user has access to.
ListNotes(u) ==
  /\ Free
  /\ held' = held \union {i \in live : HasAccess(chunk[i], u, Read)}
  /\ NoReturn
  /\ UNCHANGED <<live, chunk, links, cache, now, status, del>>

\* get_subtree: the root is fetched under a guard of its own.
TakeRoot(u, i) ==
  /\ Free
  /\ Sees(u, i)
  /\ held' = held \union {i}
  /\ NoReturn
  /\ UNCHANGED <<live, chunk, links, cache, now, status, del>>

\* The last list that holds n drops its Arc: if the store has it no more, no
\* weak reference to it can be upgraded after that.
LetGo(n) ==
  /\ n \in held
  /\ status # "noboot"
  /\ held' = held \ {n}
  /\ IF n \in live
     THEN UNCHANGED <<chunk, links, cache>>
     ELSE /\ chunk' = [chunk EXCEPT ![n] = Blank]
          /\ parents' = [Redirected(parents, n, {}) EXCEPT ![n] = {}]
          /\ children' = [Redirected(children, n, {}) EXCEPT ![n] = {}]
          /\ cache' = [cache EXCEPT ![n] = Empty]
  /\ NoReturn
  /\ UNCHANGED <<live, now, status, del>>

-----------------------------------------------------------------------------
(* get_prop_dynamic("modified", u) on node n, from any view of it: of a    *)
(* note of the store, or of the root that a subtree took from it before.   *)

Kids(u) ==
  [n \in Nodes |-> IF cache[n][u] # {} THEN {}
                   ELSE {c \in children[n] : HasAccess(chunk[c], u, Read)}]

Computed(u, n) ==
  LET met == Reach(Kids(u), {n})
  IN  Latest({chunk[x].modified : x \in {y \in met : cache[y][u] = {}}}
             \union UNION {cache[x][u] : x \in met})

ViewChunk(u, n) ==
  /\ Free
  /\ n \in live \union held
  /\ VisibleTo(chunk[n], u)
  /\ cache' = [x \in Nodes |-> IF x \in Reach(Kids(u), {n})
                               THEN [cache[x] EXCEPT ![u] = Computed(u, x)]
                               ELSE cache[x]]
  /\ NoReturn
  /\ UNCHANGED <<live, held, chunk, links, now, status, del>>

-----------------------------------------------------------------------------
(* A graceful stop, which saves the Chunks, and the start that reads them: *)
(* From<DBData> extracts every text again and links all of them.  No list  *)
(* of the process before is left.                                          *)

StoredParents ==
  [i \in Ids |-> IF i \in live THEN chunk[i].value.parents \intersect live ELSE {}]

Restart ==
  /\ Free
  /\ Acyclic(StoredParents)
  /\ held' = {}
  /\ chunk' = [n \in Nodes |-> IF n \in Old THEN Blank
                               ELSE [chunk[n] EXCEPT !.access = chunk[n].value.share]]
  /\ parents' = [n \in Nodes |-> IF n \in Old THEN {} ELSE StoredParents[n]]
  /\ children' = [n \in Nodes |-> {i \in Ids : n \in StoredParents[i]}]
  /\ cache' = [n \in Nodes |-> Empty]
  /\ NoReturn
  /\ UNCHANGED <<live, now, status, del>>

\* link_all().unwrap() fails, or recurses for ever: the server does not start.
RestartFails ==
  /\ Free
  /\ ~Acyclic(StoredParents)
  /\ status' = "noboot"
  /\ Return(NoUser, "ErrUnwrapped", {})
  /\ UNCHANGED <<store, now, del>>

Tick ==
  /\ Free
  /\ now < MaxTime
  /\ now' = now + 1
  /\ NoReturn
  /\ UNCHANGED <<store, status, del>>

Next ==
  \/ \E u \in Writers, i \in Ids :
       \/ \E v \in Texts : SetChunk(u, i, v) \/ UpdateChunk(u, i, v)
       \/ UpdateHidden(u, i)
  \/ \E u \in Writers, ids \in SUBSET Ids : DelStart(u, ids)
  \/ DelPublic
  \/ \E i \in Ids :
       \/ DelAdmin(i) \/ DelLeave(i) \/ DelExpectFails(i)
       \/ DelLinkFails(i) \/ DelStops(i) \/ DelRemove(i)
  \/ DelFinish
  \/ \E u \in Listers : ListNotes(u) \/ \E i \in Ids : TakeRoot(u, i)
  \/ \E n \in Nodes : LetGo(n) \/ \E u \in Viewers : ViewChunk(u, n)
  \/ Restart \/ RestartFails
  \/ Tick

Spec == Init /\ [][Next]_vars
-----------------------------------------------------------------------------
(* Properties of the links *)

\* The two weak-reference lists agree, whatever link_chunk has told parents and
\* children of new and replaced chunks and del_chunk has dropped; and what they
\* lead to is in the store, or a list of notes that still runs holds it.
LinksMirror ==
  \A n, p \in Nodes : /\ p \in parents[n] <=> n \in children[p]
                      /\ p \in parents[n] => {n, p} \subseteq live \union held

\* A chunk, also one that only a list holds, is linked under no id that its text
\* does not name, whatever was re-parented, deleted, created again under an old
\* id or left meanwhile.
LinksDeclared ==
  \A n \in Nodes : \A p \in parents[n] : chunk[p].id \in chunk[n].value.parents

\* The recursions over parents and children end: the links have no cycle, not
\* through chunks that only a list holds either.
LinksAcyclic == Acyclic(parents)

-----------------------------------------------------------------------------
(* subtree, by which a client finds its notes: first the roots, then, level *)
(* by level, what is below a note that it asks for by its id.              *)

VisibleKids(u) ==
  [n \in Nodes |-> {c \in children[n] : HasAccess(chunk[c], u, Read)}]

VisibleParents(u, i) == {p \in parents[i] : HasAccess(chunk[p], u, Read)}

\* Mutant of Roots: a note without any parent, visible or not.
RootsBare(u) == {i \in live : HasAccess(chunk[i], u, Read) /\ parents[i] = {}}

Roots(u) == {i \in live : HasAccess(chunk[i], u, Read) /\ VisibleParents(u, i) = {}}

\* What the client finds below a note of the store.
WellKids(u) == [i \in Ids |-> VisibleKids(u)[i] \intersect live]

\* Notes that are no roots because of a parent that a list of notes holds, but
\* the store has no more.
Orphans(u) ==
  {i \in live : /\ HasAccess(chunk[i], u, Read)
                /\ VisibleParents(u, i) # {}
                /\ VisibleParents(u, i) \intersect live = {}}

\* Every note that a user has access to can be found: whatever is hidden above
\* it, deleted, re-parented or shared anew meanwhile, it is a root or below one,
\* unless the way down to it starts at an orphan.
WellReachesAll ==
  \A u \in Users, i \in live :
    HasAccess(chunk[i], u, Read) => i \in Reach(WellKids(u), Roots(u) \union Orphans(u))

-----------------------------------------------------------------------------
(* Properties of the access rules *)

\* A restart never widens access: what the text grants, the store grants.
TextGrantsNoMore ==
  \A i \in live, p \in Principals : chunk[i].value.share[p] <= chunk[i].access[p]

\* The unwrap at the end of update_chunk is safe: no accepted update hides the
\* chunk from its author.
UpdateKeepsSight == reply.result # "NoneUnwrapped"

\* Whoever a step of the store acts for: the caller of the running del_chunk or
\* of the call that returns with the step.
Actor == IF del.user # NoUser THEN del.user ELSE reply'.user

Meta(c) == <<c.owner, c.value.title, c.value.parents, c.access>>

\* A chunk is created by its owner; its owner never changes; it goes, or gets
\* another title, parents or grants, by its owner's or an admin's doing only,
\* but for the grant a reader gives up: whatever order del_chunk takes its ids
\* in, and however much of it was done before it stopped.
OnlyAuthorised ==
  [][\A i \in Ids :
       \/ Meta(chunk'[i]) = Meta(chunk[i])
       \/ Restart   \* see RestartKeepsGrants
       \/ i \notin live /\ chunk'[i].owner = Actor
       \/ HasAccess(chunk[i], Actor, Admin) /\ chunk'[i].owner \in {chunk[i].owner, NoUser}
       \/ Meta(chunk'[i]) =
          Meta([chunk[i] EXCEPT !.access = [@ EXCEPT ![Actor] = None]])]_vars

\* Everyone who gains or loses sight of a chunk by a call that succeeds is told
\* to fetch the list of chunks again; for a deletion that is everyone who could
\* see any of the chunks before the call.
SightChangeTold ==
  [][\A i \in Ids, u \in Users :
       /\ reply'.result = "Ok"
       /\ Actor # NoUser
       /\ HasAccess(chunk[i], u, Read) # HasAccess(chunk'[i], u, Read)
       => u \in reply'.told \union del'.changed]_vars

\* A restart changes no grant of a chunk whose text ends its last line.
RestartKeepsGrants ==
  [][Restart =>
       \A i \in live : ~chunk[i].value.tail => chunk'[i].access = chunk[i].access]_vars

-----------------------------------------------------------------------------
(* Properties of the dynamic "modified" *)

\* The visible descendants u's view of n is computed from.
Below(u, n) == Reach(VisibleKids(u), {n})

\* No edit is missed: a cached value is at least the modified time of every
\* chunk that u sees below it, however links, grants and caches came about, and
\* whatever versions lists still hold.
CacheCoversEdits ==
  \A u \in Users, n \in Nodes : \A t \in cache[n][u] :
    \A x \in Below(u, n) : chunk[x].modified <= t

-----------------------------------------------------------------------------
(* What the code says of itself, and does not keep *)

\* "If user has read access, access has to be valid here" (db_app.rs:150).
AccessValidOnLeave == reply.result # "ExpectFailed"

\* "Chunk links circurlarly, A -> B -> A, it should fail" (db_app.rs:667): no
\* text that closes a circle with those already stored is accepted.
StoredAcyclic == Acyclic(StoredParents)

=============================================================================
