---------------------------- MODULE ChunkDBProofs ----------------------------
(***************************************************************************)
(* What holds of ChunkDB for every set of ids, users, titles and texts and *)
(* every bound on the clock.                                               *)
(*                                                                         *)
(* The inductive invariant is the conjunction Inv of the type invariant,   *)
(* of Owned, which the types of the replies rest on, and of the three link *)
(* invariants.  The link invariants need one another: replacing a chunk    *)
(* keeps the links acyclic because link_chunk walks up from its new        *)
(* parents, and that walk sees all there is to see only because both ends  *)
(* of a link agree.                                                        *)
(***************************************************************************)
EXTENDS ChunkDB, TLAPS

Owned == \A i \in live : chunk[i].owner \in Users /\ chunk[i].id = i

Links == LinksMirror /\ LinksDeclared /\ LinksAcyclic

Inv == TypeOK /\ Owned /\ Links

-----------------------------------------------------------------------------
(* The walks *)

\* What a walk visits holds its start and is closed: nothing above is missed.
LEMMA ReachIsClosed ==
  ASSUME NEW D, NEW next \in [D -> SUBSET D], NEW X \in SUBSET D
  PROVE  /\ Reach(next, X) \in SUBSET D
         /\ X \subseteq Reach(next, X)
         /\ Closed(next, Reach(next, X))
<1>1. DOMAIN next = D
  OBVIOUS
<1> QED
  BY <1>1 DEF Reach, Closed

\* A walk stays in every closed set that holds its start.
LEMMA ReachIsLeast ==
  ASSUME NEW D, NEW next \in [D -> SUBSET D], NEW X, NEW T \in SUBSET D,
         X \subseteq T, Closed(next, T)
  PROVE  Reach(next, X) \subseteq T
  BY DEF Reach

\* Giving one chunk other parents closes no cycle if the walk up from those
\* parents does not meet the chunk: link_chunk's test for circular references.
\* Nor does it matter that the chunk as it was stays, as old, beside the new one:
\* old stands below what i stood below, and above what i stood above.
LEMMA AcyclicReplace ==
  ASSUME NEW next \in [Nodes -> SUBSET Nodes], NEW new \in [Nodes -> SUBSET Nodes],
         NEW i \in Nodes, NEW old \in SUBSET Nodes, NEW P \in SUBSET Nodes,
         Acyclic(next), i \notin Reach(next, P),
         i \notin old, P \intersect old = {},
         \A x \in Nodes : next[x] \intersect old = {},
         new[i] \subseteq P,
         \A o \in old : new[o] \subseteq next[i],
         \A x \in Nodes \ ({i} \union old) :
           new[x] \subseteq next[x] \union {o \in old : i \in next[x]}
  PROVE  Acyclic(new)
<1> DEFINE W == Reach(next, P)
<1>1. W \in SUBSET Nodes /\ P \subseteq W /\ \A x \in W : next[x] \subseteq W
  BY ReachIsClosed DEF Closed
<1>2. W \intersect old = {}
  <2>1. W \subseteq Nodes \ old
    BY ReachIsLeast DEF Closed
  <2> QED
    BY <2>1
<1> SUFFICES ASSUME NEW S \in SUBSET Nodes, S # {}
             PROVE  \E x \in S : new[x] \intersect S = {}
  BY DEF Acyclic
<1>3. i \notin W
  OBVIOUS
<1> HIDE DEF W
<1>4. CASE S \intersect W # {}
  \* The walked part is as it was, and leads nowhere else.
  <2>1. PICK x \in S \intersect W : next[x] \intersect (S \intersect W) = {}
    BY <1>4 DEF Acyclic
  <2>2. new[x] \subseteq next[x]
    BY <2>1, <1>1, <1>2, <1>3
  <2> QED
    BY <2>1, <2>2, <1>1
<1>5. CASE S \intersect W = {} /\ i \in S
  BY <1>1, <1>5
<1>6. CASE S \intersect W = {} /\ i \notin S
  \* Old nodes stand where i stood before.
  <2> DEFINE T == (S \ old) \union {x \in {i} : S \intersect old # {}}
  <2>1. T # {} /\ T \in SUBSET Nodes
    OBVIOUS
  <2>2. PICK x \in T : next[x] \intersect T = {}
    BY <2>1 DEF Acyclic
  <2>3. CASE x = i
    <3>1. PICK o \in S : o \in old
      BY <1>6, <2>2, <2>3
    <3>2. new[o] \intersect S = {}
      BY <3>1, <2>2, <2>3
    <3> QED
      BY <3>1, <3>2
  <2>4. CASE x # i
    <3>1. x \in S /\ x \in Nodes \ ({i} \union old)
      BY <2>2, <2>4
    <3>2. new[x] \intersect S = {}
      BY <2>2, <3>1
    <3> QED
      BY <3>1, <3>2
  <2> QED
    BY <2>3, <2>4
<1> QED
  BY <1>4, <1>5, <1>6

\* Dropping links closes no cycle.
LEMMA AcyclicDrop ==
  ASSUME NEW next \in [Nodes -> SUBSET Nodes], Acyclic(next),
         NEW new \in [Nodes -> SUBSET Nodes], \A x \in Nodes : new[x] \subseteq next[x]
  PROVE  Acyclic(new)
<1> SUFFICES ASSUME NEW S \in SUBSET Nodes, S # {}
             PROVE  \E x \in S : new[x] \intersect S = {}
  BY DEF Acyclic
<1>1. PICK x \in S : next[x] \intersect S = {}
  BY DEF Acyclic
<1> QED
  BY <1>1

-----------------------------------------------------------------------------
(* The parts that operations share *)

LEMMA EmptyType == Empty \in [Users -> SUBSET Times]
  BY DEF Empty

LEMMA InvalidateType ==
  ASSUME NEW f \in [Nodes -> [Users -> SUBSET Times]], NEW up, NEW i
  PROVE  Invalidate(f, up, i) \in [Nodes -> [Users -> SUBSET Times]]
  BY EmptyType DEF Invalidate

\* The place that the DBChunk of i moves to is free: nothing is linked with it.
LEMMA PlaceIsFree ==
  ASSUME TypeOK, LinksMirror, NEW i \in Ids, NEW old \in Places(i)
  PROVE  /\ old \in SUBSET Old
         /\ i \notin old
         /\ old \intersect Ids = {} /\ old \intersect live = {}
         /\ \A n \in Nodes : parents[n] \intersect old = {} /\ children[n] \intersect old = {}
         /\ i \notin live => old = {}
<1>1. old \in SUBSET Old /\ old \intersect held = {} /\ (i \notin held => old = {})
  BY DEF Places
<1>2. Ids \intersect Old = {} /\ live \subseteq Ids /\ held \subseteq live \union Old
  BY IdsAssumption DEF TypeOK
<1>3. old \intersect (live \union held) = {} /\ old \in SUBSET Nodes
  BY <1>1, <1>2 DEF Nodes
<1>4. \A n \in Nodes : parents[n] \intersect old = {} /\ children[n] \intersect old = {}
  <2> SUFFICES ASSUME NEW n \in Nodes, NEW o \in old
               PROVE  o \notin parents[n] /\ o \notin children[n]
    OBVIOUS
  <2>1. o \in Nodes /\ o \notin live \union held
    BY <1>3
  <2> QED
    BY <2>1 DEF LinksMirror
<1> QED
  BY <1>1, <1>2, <1>4

\* No chunk is its own parent or child.
LEMMA NotOwnParent ==
  ASSUME TypeOK, Links, NEW n \in Nodes
  PROVE  n \notin parents[n] /\ n \notin children[n]
<1>1. {n} \in SUBSET Nodes /\ {n} # {} /\ DOMAIN parents = Nodes
  BY DEF TypeOK
<1>2. \E x \in {n} : parents[x] \intersect {n} = {}
  BY <1>1 DEF Links, LinksAcyclic, Acyclic
<1> QED
  BY <1>2 DEF Links, LinksMirror

LEMMA IdsAreNodes == Ids \subseteq Nodes /\ Old \subseteq Nodes
  BY DEF Nodes

LEMMA BlankType == Blank \in Chunks
<1>1. NoGrants \in Grants
  BY DEF NoGrants, Grants, Levels, None, Admin
<1>2. [title |-> NoTitle, parents |-> {}, share |-> NoGrants, tail |-> FALSE] \in Values
  BY <1>1, TitlesAssumption DEF Values
<1>3. 0 \in Times
  BY TimeAssumption DEF Times
<1> QED
  BY <1>1, <1>2, <1>3 DEF Blank, Chunks

\* The links once i is replaced: the old version keeps those it had, beside the
\* new one.
Replaced(i, P, old) ==
  /\ parents' \in [Nodes -> SUBSET Nodes] /\ children' \in [Nodes -> SUBSET Nodes]
  /\ parents'[i] = P /\ children'[i] = children[i]
  /\ \A o \in old : parents'[o] = parents[i] /\ children'[o] = children[i]
  /\ \A n \in Nodes \ ({i} \union old) :
       /\ parents'[n] = parents[n] \union {o \in old : i \in parents[n]}
       /\ children'[n] = (children[n] \ {i}) \union {o \in old : i \in children[n]}
                         \union {x \in {i} : n \in P}

LEMMA InstallLinksShape ==
  ASSUME TypeOK, Links, NEW i \in Ids, NEW new \in Chunks, NEW old \in Places(i),
         Install(i, new, old)
  PROVE  Replaced(i, LinkedParents(new.value), old)
<1> DEFINE P == LinkedParents(new.value)
<1>1. P \in SUBSET Ids /\ P \subseteq live
  BY DEF LinkedParents, TypeOK
<1>2. /\ old \in SUBSET Nodes /\ i \in Nodes /\ i \notin old /\ old \intersect live = {}
      /\ \A n \in Nodes : parents[n] \intersect old = {} /\ children[n] \intersect old = {}
      /\ i \notin parents[i] /\ i \notin children[i]
      /\ \A n \in Nodes : n \in children[i] <=> i \in parents[n]
  BY PlaceIsFree, NotOwnParent, IdsAreNodes DEF Links, LinksMirror
<1>3. parents \in [Nodes -> SUBSET Nodes] /\ children \in [Nodes -> SUBSET Nodes]
  BY DEF TypeOK
<1>4. /\ parents' = ParentsWith(i, new, old)
      /\ children' = ChildrenWith(i, new, old)
  BY DEF Install
<1> HIDE DEF P
<1>5. /\ \A n \in Nodes :
           /\ parents'[n] = IF n = i THEN P
                            ELSE Redirected(parents, i, old)[n]
                                 \union {p \in {i} : n \in children[i]}
           /\ children'[n] = IF n = i THEN children[i]
                             ELSE Redirected(children, i, old)[n]
                                  \union {c \in {i} : n \in P}
      /\ DOMAIN parents' = Nodes /\ DOMAIN children' = Nodes
      /\ parents' = [n \in Nodes |-> parents'[n]] /\ children' = [n \in Nodes |-> children'[n]]
  BY <1>4 DEF ParentsWith, ChildrenWith, P
<1>6. ASSUME NEW next \in [Nodes -> SUBSET Nodes], i \notin next[i],
             \A n \in Nodes : next[n] \intersect old = {}
      PROVE  /\ \A o \in old : Redirected(next, i, old)[o] = next[i]
             /\ \A n \in Nodes \ ({i} \union old) :
                  Redirected(next, i, old)[n] =
                    (next[n] \ {i}) \union {o \in old : i \in next[n]}
  BY <1>2, <1>6 DEF Redirected, Carried
<1>7. \A n \in Nodes \ ({i} \union old) :
        /\ parents'[n] = parents[n] \union {o \in old : i \in parents[n]}
        /\ children'[n] = (children[n] \ {i}) \union {o \in old : i \in children[n]}
                          \union {x \in {i} : n \in P}
  BY <1>2, <1>3, <1>5, <1>6
<1>8. \A o \in old : parents'[o] = parents[i] /\ children'[o] = children[i]
  <2> SUFFICES ASSUME NEW o \in old
               PROVE  parents'[o] = parents[i] /\ children'[o] = children[i]
    OBVIOUS
  <2>1. o \notin children[i] /\ o \notin P /\ o # i /\ o \in Nodes
    BY <1>1, <1>2
  <2>2. /\ Redirected(parents, i, old)[o] = parents[i]
        /\ Redirected(children, i, old)[o] = children[i]
    BY <1>2, <1>3, <1>6
  <2> QED
    BY <1>5, <2>1, <2>2
<1>9. parents'[i] = P /\ children'[i] = children[i]
  BY <1>2, <1>5
<1>10. \A n \in Nodes : parents'[n] \in SUBSET Nodes /\ children'[n] \in SUBSET Nodes
  BY <1>1, <1>2, <1>3, <1>7, <1>8, <1>9, IdsAreNodes
<1> QED
  BY <1>5, <1>7, <1>8, <1>9, <1>10 DEF Replaced, P

\* The data once i is replaced.
LEMMA InstallData ==
  ASSUME TypeOK, NEW i \in Ids, NEW new, NEW old, Install(i, new, old),
         old \in SUBSET Old, i \notin old
  PROVE  /\ chunk'[i] = new
         /\ \A n \in Nodes \ {i} : chunk'[n] = IF n \in old THEN chunk[i] ELSE chunk[n]
         /\ \A j \in Ids \ {i} : j \notin old => chunk'[j] = chunk[j]
         /\ DOMAIN chunk' = Nodes
<1>1. chunk' = [Carried(chunk, i, old) EXCEPT ![i] = new] /\ i \in Nodes
  BY IdsAreNodes DEF Install
<1> QED
  BY <1>1, IdsAreNodes DEF Carried

\* Putting a well-typed chunk in the store keeps the store well-typed.
LEMMA InstallType ==
  ASSUME TypeOK, Owned, Links, NEW i \in Ids, NEW new \in Chunks, new.owner \in Users,
         new.id = i, NEW old \in Places(i), Install(i, new, old)
  PROVE  /\ live' \in SUBSET Ids
         /\ held' \in SUBSET (live' \union Old)
         /\ chunk' \in [Nodes -> Chunks]
         /\ parents' \in [Nodes -> SUBSET Nodes]
         /\ children' \in [Nodes -> SUBSET Nodes]
         /\ cache' \in [Nodes -> [Users -> SUBSET Times]]
         /\ Owned'
<1>1. old \in SUBSET Old /\ i \notin old /\ old \intersect Ids = {}
  BY PlaceIsFree DEF Links
<1>2. parents' \in [Nodes -> SUBSET Nodes] /\ children' \in [Nodes -> SUBSET Nodes]
  BY InstallLinksShape DEF Replaced
<1>3. cache' \in [Nodes -> [Users -> SUBSET Times]]
  <2>1. Carried(cache, i, old) \in [Nodes -> [Users -> SUBSET Times]]
    BY IdsAreNodes DEF Carried, TypeOK
  <2> QED
    BY <2>1, InvalidateType DEF Install
<1>4. live' \in SUBSET Ids /\ held' \in SUBSET (live' \union Old)
  BY <1>1 DEF Install, TypeOK
<1>5. chunk' \in [Nodes -> Chunks]
  <2>1. Carried(chunk, i, old) \in [Nodes -> Chunks]
    BY IdsAreNodes DEF Carried, TypeOK
  <2> QED
    BY <2>1 DEF Install
<1>6. Owned'
  <2> SUFFICES ASSUME NEW j \in live' PROVE chunk'[j].owner \in Users /\ chunk'[j].id = j
    BY DEF Owned
  <2>1. j \in Ids /\ (j # i => j \in live)
    BY DEF Install, TypeOK
  <2> QED
    BY <1>1, <2>1, InstallData DEF Owned
<1> QED
  BY <1>2, <1>3, <1>4, <1>5, <1>6

\* Putting a chunk whose text link_chunk does not reject in the store keeps the
\* links mirrored, declared and acyclic, those of the old version included.
LEMMA InstallLinks ==
  ASSUME TypeOK, Owned, Links, NEW i \in Ids, NEW new \in Chunks, new.id = i,
         ~Circular(i, new.value), NEW old \in Places(i), Install(i, new, old)
  PROVE  Links'
<1> DEFINE P == LinkedParents(new.value)
<1>1. P \in SUBSET Ids /\ P \subseteq live /\ P \subseteq new.value.parents /\ i \notin P
  BY DEF LinkedParents, TypeOK, Circular
<1>2. /\ old \in SUBSET Nodes /\ i \in Nodes /\ i \notin old /\ P \intersect old = {}
      /\ old \intersect Ids = {}
      /\ \A n \in Nodes : parents[n] \intersect old = {} /\ children[n] \intersect old = {}
      /\ i \notin parents[i] /\ i \notin children[i]
  BY <1>1, PlaceIsFree, NotOwnParent, IdsAreNodes DEF Links
<1>3. Replaced(i, P, old)
  BY InstallLinksShape
<1>4. i \notin Reach(parents, P)
  BY DEF Circular
<1>5. live' = live \union {i} /\ held' = (held \ {i}) \union old
  BY DEF Install
<1> HIDE DEF P
<1>6. LinksMirror'
  <2> SUFFICES ASSUME NEW n \in Nodes, NEW p \in Nodes
               PROVE  /\ p \in parents'[n] <=> n \in children'[p]
                      /\ p \in parents'[n] => {n, p} \subseteq live' \union held'
    BY DEF LinksMirror
  <2>1. \A m, q \in Nodes : /\ q \in parents[m] <=> m \in children[q]
                            /\ q \in parents[m] => {m, q} \subseteq live \union held
    BY DEF Links, LinksMirror
  <2>2. live \union held \subseteq live' \union held' /\ i \in live' /\ old \subseteq held'
    BY <1>5
  <2>3. CASE n = i
    BY <1>1, <1>2, <1>3, <2>1, <2>2, <2>3 DEF Replaced
  <2>4. CASE n \in old
    BY <1>1, <1>2, <1>3, <2>1, <2>2, <2>4 DEF Replaced
  <2>5. CASE n \in Nodes \ ({i} \union old) /\ p \in {i} \union old
    BY <1>1, <1>2, <1>3, <2>1, <2>2, <2>5 DEF Replaced
  <2>6. CASE n \in Nodes \ ({i} \union old) /\ p \in Nodes \ ({i} \union old)
    BY <1>1, <1>2, <1>3, <2>1, <2>2, <2>6 DEF Replaced
  <2> QED
    BY <2>3, <2>4, <2>5, <2>6
<1>7. LinksDeclared'
  <2> SUFFICES ASSUME NEW n \in Nodes, NEW p \in parents'[n]
               PROVE  chunk'[p].id \in chunk'[n].value.parents
    BY DEF LinksDeclared
  <2>1. \A m \in Nodes : \A q \in parents[m] : chunk[q].id \in chunk[m].value.parents
    BY DEF Links, LinksDeclared
  <2>2. /\ chunk'[i] = new
        /\ \A m \in Nodes \ {i} : chunk'[m] = IF m \in old THEN chunk[i] ELSE chunk[m]
    BY <1>2, InstallData, PlaceIsFree DEF Links
  <2>3. \A j \in live : chunk[j].id = j /\ j \in Nodes
    BY IdsAreNodes DEF Owned, TypeOK
  <2>4. CASE n = i
    BY <1>1, <1>2, <1>3, <2>2, <2>3, <2>4 DEF Replaced
  <2>5. CASE n \in old
    <3>1. p \in parents[i] /\ p \in Nodes
      BY <1>2, <1>3, <2>5 DEF Replaced
    <3> QED
      BY <1>2, <2>1, <2>2, <2>5, <3>1
  <2>6. CASE n \in Nodes \ ({i} \union old)
    <3>1. /\ p \in Nodes
          /\ \/ p \in parents[n]
             \/ /\ p \in old
                /\ i \in parents[n]
      BY <1>2, <1>3, <2>6 DEF Replaced
    <3>2. chunk'[n] = chunk[n]
      BY <2>2, <2>6
    <3>3. CASE p = i
      <4>1. i \in live
        BY <1>2, <2>6, <3>1, <3>3, IdsAssumption DEF Links, LinksMirror, TypeOK
      <4> QED
        BY <1>2, <2>1, <2>2, <2>3, <2>6, <3>1, <3>2, <3>3, <4>1
    <3>4. CASE p \in old
      BY <1>2, <2>1, <2>2, <2>6, <3>1, <3>2, <3>4
    <3>5. CASE p # i /\ p \notin old
      BY <1>2, <2>1, <2>2, <2>6, <3>1, <3>2, <3>5
    <3> QED
      BY <3>3, <3>4, <3>5
  <2> QED
    BY <2>4, <2>5, <2>6
<1>8. LinksAcyclic'
  <2>1. /\ parents \in [Nodes -> SUBSET Nodes] /\ Acyclic(parents) /\ P \in SUBSET Nodes
        /\ parents' \in [Nodes -> SUBSET Nodes]
    BY <1>1, <1>3, IdsAreNodes DEF TypeOK, Links, LinksAcyclic, Replaced
  <2>2. Acyclic(parents')
    BY <1>2, <1>3, <1>4, <2>1, AcyclicReplace DEF Replaced
  <2> QED
    BY <2>2 DEF LinksAcyclic
<1> QED
  BY <1>6, <1>7, <1>8 DEF Links

\* What set_chunk installs is a chunk of a user.
LEMMA NewChunkType ==
  ASSUME TypeOK, Owned, NEW u \in Users, NEW i \in Ids, NEW v \in Texts
  PROVE  /\ NewChunk(u, i, v) \in Chunks
         /\ NewChunk(u, i, v).owner \in Users
         /\ NewChunk(u, i, v).id = i
         /\ NewChunk(u, i, v).value = v
<1>1. v \in Values
  BY TextsAssumption
<1>2. v.share \in Grants
  BY <1>1 DEF Values
<1>3. (IF i \in live THEN chunk[i].owner ELSE u) \in Users
  BY DEF Owned
<1> QED
  BY <1>1, <1>2, <1>3 DEF NewChunk, Chunks, TypeOK

LEMMA ToldType ==
  ASSUME TypeOK, Owned, NEW u \in Users, NEW i \in Ids, NEW v \in Texts
  PROVE  Told(u, i, v) \in SUBSET Principals
<1>1. AccessUsers(NewChunk(u, i, v)) \in SUBSET Principals
  BY NewChunkType DEF AccessUsers, Grantees, Principals
<1>2. AccessDiff(chunk[i], NewChunk(u, i, v)) \in SUBSET Principals
  BY DEF AccessDiff
<1> QED
  BY <1>1, <1>2 DEF Told

LEMMA ReturnType ==
  ASSUME NEW u \in Principals \union {NoUser}, NEW result \in Results,
         NEW told \in SUBSET Principals, Return(u, result, told)
  PROVE  reply' \in Replies
  BY DEF Return, Replies

LEMMA NoReturnType ==
  ASSUME NoReturn
  PROVE  reply' \in Replies
  BY DEF NoReturn, NoReply, Replies, Results

LEMMA NoDelType == NoDel \in Dels
  BY DEF NoDel, Dels

\* An accepted text leaves every part of the invariant but the reply's.
LEMMA AcceptsKeeps ==
  ASSUME Inv, NEW u \in Principals, NEW i \in Ids, NEW v \in Texts,
         Accepts(u, i, v)
  PROVE  /\ u \in Users
         /\ live' \in SUBSET Ids
         /\ held' \in SUBSET (live' \union Old)
         /\ chunk' \in [Nodes -> Chunks]
         /\ parents' \in [Nodes -> SUBSET Nodes]
         /\ children' \in [Nodes -> SUBSET Nodes]
         /\ cache' \in [Nodes -> [Users -> SUBSET Times]]
         /\ now' \in Times
         /\ del' \in Dels
         /\ Owned'
         /\ Links'
<1>1. u \in Users
  BY DEF Accepts, Refuses, Principals
<1> DEFINE new == NewChunk(u, i, v)
<1>2. new \in Chunks /\ new.owner \in Users /\ new.id = i /\ new.value = v
  BY <1>1, NewChunkType DEF Inv
<1>3. /\ \E old \in Places(i) : Install(i, new, old)
      /\ ~Circular(i, new.value) /\ now' = now /\ del' = del
  BY <1>2 DEF Accepts
<1> HIDE DEF new
<1>4. PICK old \in Places(i) : Install(i, new, old)
  BY <1>3
<1>5. Links'
  BY <1>2, <1>3, <1>4, InstallLinks DEF Inv
<1>6. now' \in Times /\ del' \in Dels
  BY <1>3 DEF Inv, TypeOK
<1>7. /\ live' \in SUBSET Ids /\ held' \in SUBSET (live' \union Old)
      /\ chunk' \in [Nodes -> Chunks]
      /\ parents' \in [Nodes -> SUBSET Nodes] /\ children' \in [Nodes -> SUBSET Nodes]
      /\ cache' \in [Nodes -> [Users -> SUBSET Times]] /\ Owned'
  BY <1>2, <1>4, InstallType DEF Inv
<1> QED
  BY <1>1, <1>5, <1>6, <1>7

\* A call that fails changes nothing but the reply.
LEMMA FailKeeps ==
  ASSUME Inv, NEW u \in Principals \union {NoUser}, NEW result \in Results,
         Fail(u, result), del' \in Dels
  PROVE  Inv'
<1>1. reply' \in Replies
  BY ReturnType DEF Fail
<1>2. UNCHANGED <<live, held, chunk, parents, children, cache, status, now>>
  BY DEF Fail, store
<1> QED
  BY <1>1, <1>2 DEF Inv, TypeOK, Owned, Links, LinksMirror, LinksDeclared, LinksAcyclic

LEMMA DeniesKeeps ==
  ASSUME Inv, NEW u \in Principals, NEW i \in Ids, NEW v \in Texts,
         Denies(u, i, v) \/ Rejects(u, i, v)
  PROVE  Inv'
<1>1. del' \in Dels
  BY DEF Denies, Rejects, Inv, TypeOK
<1>2. \E result \in Results : Fail(u, result)
  BY DEF Denies, Rejects, Results
<1> QED
  BY <1>1, <1>2, FailKeeps

-----------------------------------------------------------------------------
(* The operations, one by one *)

LEMMA SetChunkKeeps ==
  ASSUME Inv, NEW u \in Principals, NEW i \in Ids, NEW v \in Texts, SetChunk(u, i, v)
  PROVE  Inv'
<1>1. CASE Denies(u, i, v) \/ Rejects(u, i, v)
  BY <1>1, DeniesKeeps
<1>2. CASE Accepts(u, i, v) /\ Return(u, "Ok", Told(u, i, v)) /\ UNCHANGED status
  <2>1. reply' \in Replies
    BY <1>2, AcceptsKeeps, ToldType, ReturnType DEF Inv, Results
  <2> QED
    BY <1>2, <2>1, AcceptsKeeps DEF Inv, TypeOK
<1> QED
  BY <1>1, <1>2 DEF SetChunk

LEMMA UpdateChunkKeeps ==
  ASSUME Inv, NEW u \in Principals, NEW i \in Ids, NEW v \in Texts, UpdateChunk(u, i, v)
  PROVE  Inv'
<1>1. CASE Denies(u, i, v) \/ Rejects(u, i, v)
  BY <1>1, DeniesKeeps
<1>2. CASE /\ Accepts(u, i, v)
           /\ \/ Return(u, "Ok", Told(u, i, v)) /\ UNCHANGED status
              \/ Return(u, "NoneUnwrapped", {}) /\ status' = "poisoned"
  <2>1. Told(u, i, v) \in SUBSET Principals
    BY <1>2, AcceptsKeeps, ToldType DEF Inv
  <2>2. reply' \in Replies
    BY <1>2, <2>1, ReturnType DEF Results
  <2>3. status' \in {"up", "poisoned", "noboot"}
    BY <1>2 DEF Inv, TypeOK
  <2> QED
    BY <1>2, <2>2, <2>3, AcceptsKeeps DEF Inv, TypeOK
<1> QED
  BY <1>1, <1>2 DEF UpdateChunk

LEMMA UpdateHiddenKeeps ==
  ASSUME Inv, NEW u \in Principals, NEW i \in Ids, UpdateHidden(u, i)
  PROVE  Inv'
<1>1. Fail(u, "NotFound") /\ del' \in Dels
  BY DEF UpdateHidden, Inv, TypeOK
<1> QED
  BY <1>1, FailKeeps DEF Results

LEMMA DelPublicKeeps ==
  ASSUME Inv, DelPublic
  PROVE  Inv'
<1>1. Fail(Public, "AuthError") /\ del' \in Dels
  BY DEF DelPublic, Inv, TypeOK
<1> QED
  BY <1>1, FailKeeps DEF Results, Principals

\* The steps of del_chunk's loop that leave the store alone.
LEMMA StillKeeps ==
  ASSUME Inv, UNCHANGED <<store, now>>, del' \in Dels, reply' \in Replies,
         status' \in {"up", "poisoned", "noboot"}
  PROVE  Inv'
<1>1. UNCHANGED <<live, held, chunk, parents, children, cache, now>>
  BY DEF store
<1> QED
  BY <1>1 DEF Inv, TypeOK, Owned, Links, LinksMirror, LinksDeclared, LinksAcyclic

LEMMA DelStartKeeps ==
  ASSUME Inv, NEW u \in Principals, NEW ids \in SUBSET Ids, DelStart(u, ids)
  PROVE  Inv'
<1>1. u \in Users
  BY DEF DelStart, Principals
<1>2. del' \in Dels
  BY <1>1 DEF DelStart, Dels, NoDel
<1>3. reply' \in Replies
  BY NoReturnType DEF DelStart
<1> QED
  BY <1>2, <1>3, StillKeeps DEF DelStart, Inv, TypeOK

LEMMA DelAdminKeeps ==
  ASSUME Inv, NEW i \in Ids, DelAdmin(i)
  PROVE  Inv'
<1>1. AccessUsers(chunk[i]) \in SUBSET Principals
  BY DEF DelAdmin, Inv, Owned, AccessUsers, Grantees, Principals
<1>2. del' \in Dels
  BY <1>1 DEF DelAdmin, Takes, Dels, Inv, TypeOK
<1>3. reply' \in Replies
  BY NoReturnType DEF DelAdmin
<1> QED
  BY <1>2, <1>3, StillKeeps DEF DelAdmin, Inv, TypeOK

\* What a reader leaves behind is a chunk with the same owner and parents.
LEMMA LeftChunkType ==
  ASSUME Inv, NEW i \in live
  PROVE  /\ LeftChunk(i) \in Chunks
         /\ LeftChunk(i).owner \in Users
         /\ LeftChunk(i).id = i
         /\ LeftChunk(i).value.parents = chunk[i].value.parents
<1> DEFINE share == [chunk[i].value.share EXCEPT ![del.user] = None]
<1>1. /\ chunk[i] \in Chunks /\ chunk[i].owner \in Users /\ chunk[i].id = i
      /\ now \in Times /\ i \in Ids
  BY IdsAreNodes DEF Inv, TypeOK, Owned
<1>2. chunk[i].value \in Values
  BY <1>1 DEF Chunks
<1>3. share \in Grants /\ NoGrants \in Grants
  <2>1. None \in Levels
    BY DEF None, Levels, Admin
  <2>2. chunk[i].value.share \in Grants
    BY <1>2 DEF Values
  <2> QED
    BY <2>1, <2>2 DEF Grants, NoGrants
<1> HIDE DEF share
<1>4. /\ Override(chunk[i].value, share) \in Values
      /\ Override(chunk[i].value, share).parents = chunk[i].value.parents
  BY <1>2, <1>3 DEF Override, Values
<1>5. LeftChunk(i) = [chunk[i] EXCEPT !.value = Override(chunk[i].value, share),
                                      !.access = share, !.modified = now]
  BY DEF LeftChunk, share
<1> HIDE DEF LeftChunk
<1> QED
  BY <1>1, <1>3, <1>4, <1>5 DEF Chunks

LEMMA DelLeaveKeeps ==
  ASSUME Inv, NEW i \in Ids, DelLeave(i)
  PROVE  Inv'
<1>1. i \in live
  BY DEF DelLeave, Leaves
<1>2. /\ LeftChunk(i) \in Chunks
      /\ LeftChunk(i).owner \in Users
      /\ LeftChunk(i).id = i
      /\ LeftChunk(i).value.parents = chunk[i].value.parents
  BY <1>1, LeftChunkType
<1>3. ~Circular(i, LeftChunk(i).value)
  BY <1>2 DEF DelLeave, Circular, LinkedParents
<1>4. PICK old \in Places(i) : Install(i, LeftChunk(i), old)
  BY DEF DelLeave
<1>5. now' = now /\ status' = status
  BY DEF DelLeave
<1>6. Links'
  BY <1>2, <1>3, <1>4, InstallLinks DEF Inv
<1>7. reply' \in Replies
  BY NoReturnType DEF DelLeave
<1>8. del' \in Dels
  <2>1. del.user \in Principals
    BY DEF DelLeave, Leaves, Takes, Running, Inv, TypeOK, Dels, Principals
  <2> QED
    BY <2>1 DEF DelLeave, Dels, Inv, TypeOK
<1>9. /\ live' \in SUBSET Ids /\ held' \in SUBSET (live' \union Old)
      /\ chunk' \in [Nodes -> Chunks]
      /\ parents' \in [Nodes -> SUBSET Nodes] /\ children' \in [Nodes -> SUBSET Nodes]
      /\ cache' \in [Nodes -> [Users -> SUBSET Times]] /\ Owned'
  BY <1>2, <1>4, InstallType DEF Inv
<1> QED
  BY <1>5, <1>6, <1>7, <1>8, <1>9 DEF Inv, TypeOK

LEMMA DelPanicKeeps ==
  ASSUME Inv, NEW i \in Ids, DelExpectFails(i) \/ DelLinkFails(i)
  PROVE  Inv'
<1>1. del' \in Dels /\ status' = "poisoned" /\ UNCHANGED <<store, now>>
  BY NoDelType DEF DelExpectFails, DelLinkFails
<1>2. \E result \in Results : Return(del.user, result, {})
  BY DEF DelExpectFails, DelLinkFails, Results
<1>3. del.user \in Principals \union {NoUser}
  BY DEF Inv, TypeOK, Dels, Principals
<1>4. reply' \in Replies
  BY <1>2, <1>3, ReturnType
<1> QED
  BY <1>1, <1>4, StillKeeps

LEMMA DelStopsKeeps ==
  ASSUME Inv, NEW i \in Ids, DelStops(i)
  PROVE  Inv'
<1>1. del' \in Dels
  BY NoDelType DEF DelStops
<1>2. \E result \in Results : Fail(del.user, result)
  BY DEF DelStops, Results
<1>3. del.user \in Principals \union {NoUser}
  BY DEF Inv, TypeOK, Dels, Principals
<1> QED
  BY <1>1, <1>2, <1>3, FailKeeps

\* The links once the DBChunk of i is gone from the store, or from the lists: at
\* most old still has it.
Gone(i, old) ==
  /\ parents' \in [Nodes -> SUBSET Nodes] /\ children' \in [Nodes -> SUBSET Nodes]
  /\ parents'[i] = {} /\ children'[i] = {}
  /\ \A o \in old : parents'[o] = parents[i] /\ children'[o] = children[i]
  /\ \A n \in Nodes \ ({i} \union old) :
       /\ parents'[n] = (parents[n] \ {i}) \union {o \in old : i \in parents[n]}
       /\ children'[n] = (children[n] \ {i}) \union {o \in old : i \in children[n]}

LEMMA GoneLinks ==
  ASSUME TypeOK, Links, NEW i \in Nodes, NEW old \in SUBSET Nodes, i \notin old,
         \A n \in Nodes : parents[n] \intersect old = {} /\ children[n] \intersect old = {},
         parents' = [Redirected(parents, i, old) EXCEPT ![i] = {}],
         children' = [Redirected(children, i, old) EXCEPT ![i] = {}]
  PROVE  Gone(i, old)
<1>1. parents \in [Nodes -> SUBSET Nodes] /\ children \in [Nodes -> SUBSET Nodes]
  BY DEF TypeOK
<1>2. i \notin parents[i] /\ i \notin children[i]
  BY NotOwnParent
<1>3. ASSUME NEW next \in [Nodes -> SUBSET Nodes], i \notin next[i],
             \A n \in Nodes : next[n] \intersect old = {}
      PROVE  /\ \A o \in old : Redirected(next, i, old)[o] = next[i]
             /\ \A n \in Nodes \ ({i} \union old) :
                  Redirected(next, i, old)[n] =
                    (next[n] \ {i}) \union {o \in old : i \in next[n]}
             /\ Redirected(next, i, old) = [n \in Nodes |-> Redirected(next, i, old)[n]]
  BY <1>3 DEF Redirected, Carried
<1>4. /\ \A o \in old : parents'[o] = parents[i] /\ children'[o] = children[i]
      /\ \A n \in Nodes \ ({i} \union old) :
           /\ parents'[n] = (parents[n] \ {i}) \union {o \in old : i \in parents[n]}
           /\ children'[n] = (children[n] \ {i}) \union {o \in old : i \in children[n]}
  BY <1>1, <1>2, <1>3
<1>5. parents'[i] = {} /\ children'[i] = {} /\ DOMAIN parents' = Nodes /\ DOMAIN children' = Nodes
  BY DEF Redirected
<1>6. \A n \in Nodes : parents'[n] \in SUBSET Nodes /\ children'[n] \in SUBSET Nodes
  BY <1>1, <1>4, <1>5
<1>7. /\ parents' = [n \in Nodes |-> parents'[n]]
      /\ children' = [n \in Nodes |-> children'[n]]
  BY DEF Redirected
<1> QED
  BY <1>4, <1>5, <1>6, <1>7 DEF Gone

\* A DBChunk that goes takes its links with it.
LEMMA GoneKeepsLinks ==
  ASSUME TypeOK, Owned, Links, NEW i \in Nodes, NEW old \in SUBSET Nodes, i \notin old,
         \A n \in Nodes : parents[n] \intersect old = {} /\ children[n] \intersect old = {},
         Gone(i, old),
         (live \union held) \ {i} \subseteq live' \union held', old \subseteq held',
         \A n \in Nodes \ {i} : chunk'[n] = IF n \in old THEN chunk[i] ELSE chunk[n]
  PROVE  Links'
<1>1. i \notin parents[i] /\ i \notin children[i]
  BY NotOwnParent
<1>2. LinksMirror'
  <2> SUFFICES ASSUME NEW n \in Nodes, NEW p \in Nodes
               PROVE  /\ p \in parents'[n] <=> n \in children'[p]
                      /\ p \in parents'[n] => {n, p} \subseteq live' \union held'
    BY DEF LinksMirror
  <2>1. \A m, q \in Nodes : /\ q \in parents[m] <=> m \in children[q]
                            /\ q \in parents[m] => {m, q} \subseteq live \union held
    BY DEF Links, LinksMirror
  <2>2. CASE n = i
    BY <1>1, <2>1, <2>2 DEF Gone
  <2>3. CASE n \in old
    BY <1>1, <2>1, <2>3 DEF Gone
  <2>4. CASE n \in Nodes \ ({i} \union old) /\ p \in {i} \union old
    BY <1>1, <2>1, <2>4 DEF Gone
  <2>5. CASE n \in Nodes \ ({i} \union old) /\ p \in Nodes \ ({i} \union old)
    BY <1>1, <2>1, <2>5 DEF Gone
  <2> QED
    BY <2>2, <2>3, <2>4, <2>5
<1>3. LinksDeclared'
  <2> SUFFICES ASSUME NEW n \in Nodes, NEW p \in parents'[n]
               PROVE  chunk'[p].id \in chunk'[n].value.parents
    BY DEF LinksDeclared
  <2>1. \A m \in Nodes : \A q \in parents[m] : chunk[q].id \in chunk[m].value.parents
    BY DEF Links, LinksDeclared
  <2>2. n # i /\ p \in Nodes /\ p # i
    BY <1>1 DEF Gone
  <2>3. CASE n \in old
    <3>1. p \in parents[i] /\ p \notin old
      BY <2>3 DEF Gone
    <3> QED
      BY <2>1, <2>2, <2>3, <3>1
  <2>4. CASE n \notin old
    <3>1. IF p \in old THEN i \in parents[n] ELSE p \in parents[n]
      BY <2>2, <2>4 DEF Gone
    <3>2. chunk'[n] = chunk[n]
      BY <2>2, <2>4
    <3>3. CASE p \in old
      BY <2>1, <2>2, <3>1, <3>2, <3>3
    <3>4. CASE p \notin old
      BY <2>1, <2>2, <3>1, <3>2, <3>4
    <3> QED
      BY <3>3, <3>4
  <2> QED
    BY <2>3, <2>4
<1>4. LinksAcyclic'
  <2>1. /\ parents \in [Nodes -> SUBSET Nodes] /\ Acyclic(parents)
        /\ parents' \in [Nodes -> SUBSET Nodes] /\ {} \in SUBSET Nodes
    BY DEF TypeOK, Links, LinksAcyclic, Gone
  <2>2. i \notin Reach(parents, {})
    BY <2>1, ReachIsLeast DEF Closed
  <2>3. Acyclic(parents')
    BY <2>1, <2>2, AcyclicReplace DEF Gone
  <2> QED
    BY <2>3 DEF LinksAcyclic
<1> QED
  BY <1>2, <1>3, <1>4 DEF Links

LEMMA DelRemoveKeeps ==
  ASSUME Inv, NEW i \in Ids, DelRemove(i)
  PROVE  Inv'
<1>1. PICK old \in Places(i) :
        /\ live' = live \ {i}
        /\ held' = (held \ {i}) \union old
        /\ chunk' = [Carried(chunk, i, old) EXCEPT ![i] = Blank]
        /\ parents' = [Redirected(parents, i, old) EXCEPT ![i] = {}]
        /\ children' = [Redirected(children, i, old) EXCEPT ![i] = {}]
        /\ cache' = Carried(Invalidate(cache, parents, i), i, old)
  BY DEF DelRemove
<1>2. now' = now /\ status' = status /\ del' = [del EXCEPT !.remove = @ \ {i}] /\ NoReturn
  BY DEF DelRemove
<1>3. /\ old \in SUBSET Old /\ old \in SUBSET Nodes /\ i \in Nodes /\ i \notin old
      /\ old \intersect Ids = {} /\ old \intersect live = {}
      /\ \A n \in Nodes : parents[n] \intersect old = {} /\ children[n] \intersect old = {}
  BY PlaceIsFree, IdsAreNodes DEF Inv, Links
<1>4. Gone(i, old)
  BY <1>1, <1>3, GoneLinks DEF Inv
<1>5. /\ \A n \in Nodes \ {i} : chunk'[n] = IF n \in old THEN chunk[i] ELSE chunk[n]
      /\ chunk' \in [Nodes -> Chunks]
  BY <1>1, <1>3, BlankType DEF Carried, Inv, TypeOK
<1>6. Links'
  BY <1>1, <1>3, <1>4, <1>5, GoneKeepsLinks DEF Inv
<1>7. live' \in SUBSET Ids /\ held' \in SUBSET (live' \union Old)
  BY <1>1, <1>3 DEF Inv, TypeOK
<1>8. Owned'
  BY <1>1, <1>3, <1>5, IdsAreNodes DEF Inv, Owned, TypeOK
<1>9. cache' \in [Nodes -> [Users -> SUBSET Times]]
  <2>1. Invalidate(cache, parents, i) \in [Nodes -> [Users -> SUBSET Times]]
    BY InvalidateType DEF Inv, TypeOK
  <2> QED
    BY <1>1, <1>3, <2>1 DEF Carried
<1>10. del' \in Dels /\ reply' \in Replies
  BY <1>2, NoReturnType DEF Inv, TypeOK, Dels
<1> QED
  BY <1>2, <1>4, <1>5, <1>6, <1>7, <1>8, <1>9, <1>10 DEF Inv, TypeOK, Gone

LEMMA DelFinishKeeps ==
  ASSUME Inv, DelFinish
  PROVE  Inv'
<1>1. del.changed \in SUBSET Principals /\ del.user \in Principals \union {NoUser}
  BY DEF Inv, TypeOK, Dels, Principals
<1>2. reply' \in Replies
  BY <1>1, ReturnType DEF DelFinish, Results
<1> QED
  BY <1>2, NoDelType, StillKeeps DEF DelFinish, Inv, TypeOK

\* The lists take and drop Arcs of notes of the store.
LEMMA HoldKeeps ==
  ASSUME Inv, held' \subseteq held \union live, live \union held' = live \union held,
         UNCHANGED <<live, chunk, links, cache, now, status, del>>, NoReturn
  PROVE  Inv'
<1>1. UNCHANGED <<live, chunk, parents, children, cache, now, status, del>> /\ reply' \in Replies
  BY NoReturnType DEF links
<1>2. held' \in SUBSET (live' \union Old) /\ live' \union held' = live \union held
  BY <1>1 DEF Inv, TypeOK
<1>3. TypeOK' /\ Owned'
  BY <1>1, <1>2 DEF Inv, TypeOK, Owned
<1>4. LinksMirror' /\ LinksDeclared' /\ LinksAcyclic'
  BY <1>1, <1>2 DEF Inv, Links, LinksMirror, LinksDeclared, LinksAcyclic
<1> QED
  BY <1>3, <1>4 DEF Inv, Links

LEMMA ListNotesKeeps ==
  ASSUME Inv, NEW u \in Users, ListNotes(u)
  PROVE  Inv'
<1>1. held' \subseteq held \union live /\ live \union held' = live \union held
  BY DEF ListNotes
<1> QED
  BY <1>1, HoldKeeps DEF ListNotes

LEMMA TakeRootKeeps ==
  ASSUME Inv, NEW u \in Users, NEW i \in Ids, TakeRoot(u, i)
  PROVE  Inv'
<1>1. held' \subseteq held \union live /\ live \union held' = live \union held
  BY DEF TakeRoot, Sees
<1> QED
  BY <1>1, HoldKeeps DEF TakeRoot

LEMMA LetGoKeeps ==
  ASSUME Inv, NEW n \in Nodes, LetGo(n)
  PROVE  Inv'
<1>1. CASE n \in live
  <2>1. held' \subseteq held \union live /\ live \union held' = live \union held
    BY <1>1 DEF LetGo
  <2> QED
    BY <1>1, <2>1, HoldKeeps DEF LetGo
<1>2. CASE n \notin live
  <2>1. /\ held' = held \ {n} /\ live' = live
        /\ chunk' = [chunk EXCEPT ![n] = Blank]
        /\ parents' = [Redirected(parents, n, {}) EXCEPT ![n] = {}]
        /\ children' = [Redirected(children, n, {}) EXCEPT ![n] = {}]
        /\ cache' = [cache EXCEPT ![n] = Empty]
        /\ NoReturn
        /\ UNCHANGED <<now, status, del>>
    BY <1>2 DEF LetGo
  <2>2. Gone(n, {})
    BY <2>1, GoneLinks DEF Inv
  <2>3. chunk' \in [Nodes -> Chunks] /\ \A m \in Nodes \ {n} : chunk'[m] = chunk[m]
    BY <2>1, BlankType DEF Inv, TypeOK
  <2>4. Links'
    BY <2>1, <2>2, <2>3, GoneKeepsLinks DEF Inv
  <2>5. Owned'
    BY <1>2, <2>1, <2>3, IdsAreNodes DEF Inv, Owned, TypeOK
  <2>6. cache' \in [Nodes -> [Users -> SUBSET Times]]
    BY <2>1, EmptyType DEF Inv, TypeOK
  <2> QED
    BY <2>1, <2>2, <2>3, <2>4, <2>5, <2>6, NoReturnType DEF Inv, TypeOK, Gone
<1> QED
  BY <1>1, <1>2

\* A view fills caches only, with times of chunks.
LEMMA ViewChunkKeeps ==
  ASSUME Inv, NEW u \in Users, NEW n \in Nodes, ViewChunk(u, n)
  PROVE  Inv'
<1>1. \A x \in Nodes : Computed(u, x) \in SUBSET Times
  <2> SUFFICES ASSUME NEW x \in Nodes PROVE Computed(u, x) \in SUBSET Times
    OBVIOUS
  <2> DEFINE met == Reach(Kids(u), {x})
  <2>1. met \subseteq Nodes
    BY DEF Reach, Kids
  <2> HIDE DEF met
  <2>2. \A y \in met : chunk[y].modified \in Times /\ cache[y][u] \in SUBSET Times
    BY <2>1 DEF Inv, TypeOK, Chunks
  <2>3. Computed(u, x) = Latest({chunk[y].modified : y \in {z \in met : cache[z][u] = {}}}
                                \union UNION {cache[y][u] : y \in met})
    BY DEF Computed, met
  <2>4. {chunk[y].modified : y \in {z \in met : cache[z][u] = {}}}
          \union UNION {cache[y][u] : y \in met} \subseteq Times
    BY <2>2
  <2> QED
    BY <2>3, <2>4 DEF Latest
<1>2. cache' \in [Nodes -> [Users -> SUBSET Times]]
  BY <1>1 DEF ViewChunk, Inv, TypeOK
<1>3. /\ UNCHANGED <<live, held, chunk, parents, children, now, status, del>>
      /\ reply' \in Replies
  BY NoReturnType DEF ViewChunk, links
<1> QED
  BY <1>2, <1>3 DEF Inv, TypeOK, Owned, Links, LinksMirror, LinksDeclared, LinksAcyclic

LEMMA RestartKeeps ==
  ASSUME Inv, Restart
  PROVE  Inv'
<1>1. StoredParents \in [Ids -> SUBSET Ids]
  BY DEF StoredParents, Inv, TypeOK
<1>2. /\ live' = live /\ held' = {}
      /\ chunk' = [n \in Nodes |-> IF n \in Old THEN Blank
                                   ELSE [chunk[n] EXCEPT !.access = chunk[n].value.share]]
      /\ parents' = [n \in Nodes |-> IF n \in Old THEN {} ELSE StoredParents[n]]
      /\ children' = [n \in Nodes |-> {i \in Ids : n \in StoredParents[i]}]
      /\ cache' = [n \in Nodes |-> Empty]
      /\ UNCHANGED <<now, status, del>>
      /\ reply' \in Replies
  BY NoReturnType DEF Restart
<1>3. /\ Ids \subseteq Nodes /\ live \subseteq Ids
      /\ \A n \in Nodes : IF n \in Old THEN n \notin Ids ELSE n \in Ids
      /\ \A n \in Nodes : parents'[n] = IF n \in Old THEN {} ELSE StoredParents[n]
  BY <1>2, IdsAssumption DEF Nodes, Inv, TypeOK
<1>4. chunk' \in [Nodes -> Chunks]
  <2>1. \A i \in Nodes : chunk[i] \in Chunks /\ chunk[i].value.share \in Grants
    BY DEF Inv, TypeOK, Chunks, Values
  <2>2. \A i \in Nodes : [chunk[i] EXCEPT !.access = chunk[i].value.share] \in Chunks
    BY <2>1 DEF Chunks
  <2> QED
    BY <1>2, <2>2, BlankType
<1>5. \A i \in Ids : /\ chunk'[i].owner = chunk[i].owner
                     /\ chunk'[i].id = chunk[i].id
                     /\ chunk'[i].value = chunk[i].value
  <2>1. \A i \in Ids : chunk[i] \in Chunks /\ i \in Nodes /\ i \notin Old
    BY <1>3 DEF Inv, TypeOK
  <2> QED
    BY <1>2, <2>1 DEF Chunks
<1>6. Owned'
  BY <1>2, <1>3, <1>5 DEF Inv, Owned
<1>7. TypeOK'
  BY <1>1, <1>2, <1>3, <1>4, EmptyType DEF Inv, TypeOK
<1>8. LinksMirror'
  <2> SUFFICES ASSUME NEW n \in Nodes, NEW p \in Nodes
               PROVE  /\ p \in parents'[n] <=> n \in children'[p]
                      /\ p \in parents'[n] => {n, p} \subseteq live'
    BY DEF LinksMirror
  <2>1. children'[p] = {i \in Ids : p \in StoredParents[i]}
    BY <1>2
  <2>2. p \in parents'[n] => {n, p} \subseteq live
    BY <1>3 DEF StoredParents
  <2> QED
    BY <1>2, <1>3, <2>1, <2>2
<1>9. LinksDeclared'
  <2> SUFFICES ASSUME NEW n \in Nodes, NEW p \in parents'[n]
               PROVE  chunk'[p].id \in chunk'[n].value.parents
    BY DEF LinksDeclared
  <2>1. n \in Ids /\ p \in live /\ p \in chunk[n].value.parents
    BY <1>3 DEF StoredParents
  <2> QED
    BY <1>3, <1>5, <2>1 DEF Inv, Owned
<1>10. LinksAcyclic'
  <2> SUFFICES ASSUME NEW S \in SUBSET Nodes, S # {}
               PROVE  \E x \in S : parents'[x] \intersect S = {}
    BY <1>2 DEF LinksAcyclic, Acyclic
  <2>1. CASE S \subseteq Ids
    <3>1. DOMAIN StoredParents = Ids
      BY DEF StoredParents
    <3>2. PICK x \in S : StoredParents[x] \intersect S = {}
      BY <2>1, <3>1 DEF Restart, Acyclic
    <3> QED
      BY <1>3, <2>1, <3>2
  <2>2. CASE ~(S \subseteq Ids)
    BY <1>3, <2>2
  <2> QED
    BY <2>1, <2>2
<1> QED
  BY <1>6, <1>7, <1>8, <1>9, <1>10 DEF Inv, Links

LEMMA RestartFailsKeeps ==
  ASSUME Inv, RestartFails
  PROVE  Inv'
<1>1. reply' \in Replies
  BY ReturnType DEF RestartFails, Results
<1>2. del' \in Dels
  BY DEF RestartFails, Inv, TypeOK
<1> QED
  BY <1>1, <1>2, StillKeeps DEF RestartFails

LEMMA TickKeeps ==
  ASSUME Inv, Tick
  PROVE  Inv'
<1>1. now' \in Times
  BY TimeAssumption DEF Tick, Inv, TypeOK, Times
<1>2. UNCHANGED <<live, held, chunk, parents, children, cache, status, del>> /\ reply' \in Replies
  BY NoReturnType DEF Tick, store
<1> QED
  BY <1>1, <1>2 DEF Inv, TypeOK, Owned, Links, LinksMirror, LinksDeclared, LinksAcyclic

-----------------------------------------------------------------------------
LEMMA InitInv == Init => Inv
<1> SUFFICES ASSUME Init PROVE Inv
  OBVIOUS
<1>1. TypeOK
  BY BlankType, NoDelType, EmptyType, TimeAssumption
     DEF Init, TypeOK, NoReply, Replies, Results, Times
<1>2. Owned /\ LinksMirror /\ LinksDeclared
  BY DEF Init, Owned, LinksMirror, LinksDeclared
<1>3. LinksAcyclic
  BY DEF Init, LinksAcyclic, Acyclic
<1> QED
  BY <1>1, <1>2, <1>3 DEF Inv, Links

LEMMA StutterKeeps ==
  ASSUME Inv, UNCHANGED vars
  PROVE  Inv'
  BY DEF vars, Inv, TypeOK, Owned, Links, LinksMirror, LinksDeclared, LinksAcyclic

LEMMA NextInv ==
  ASSUME Inv, [Next]_vars
  PROVE  Inv'
<1> USE UsersAssumption
<1>1. ASSUME NEW u \in Writers, NEW i \in Ids, NEW v \in Texts,
             SetChunk(u, i, v) \/ UpdateChunk(u, i, v)
      PROVE  Inv'
  BY <1>1, SetChunkKeeps, UpdateChunkKeeps
<1>2. ASSUME NEW u \in Writers, NEW i \in Ids, UpdateHidden(u, i)
      PROVE  Inv'
  BY <1>2, UpdateHiddenKeeps
<1>3. ASSUME NEW u \in Writers, NEW ids \in SUBSET Ids, DelStart(u, ids)
      PROVE  Inv'
  BY <1>3, DelStartKeeps
<1>4. ASSUME NEW i \in Ids,
             \/ DelAdmin(i) \/ DelLeave(i) \/ DelExpectFails(i)
             \/ DelLinkFails(i) \/ DelStops(i) \/ DelRemove(i)
      PROVE  Inv'
  BY <1>4, DelAdminKeeps, DelLeaveKeeps, DelPanicKeeps, DelStopsKeeps, DelRemoveKeeps
<1>5. ASSUME NEW u \in Listers, ListNotes(u) \/ \E i \in Ids : TakeRoot(u, i)
      PROVE  Inv'
  BY <1>5, ListNotesKeeps, TakeRootKeeps
<1>6. CASE DelPublic \/ DelFinish \/ Restart \/ RestartFails \/ Tick
  BY <1>6, DelPublicKeeps, DelFinishKeeps, RestartKeeps, RestartFailsKeeps, TickKeeps
<1>7. ASSUME NEW n \in Nodes, LetGo(n) \/ \E u \in Viewers : ViewChunk(u, n)
      PROVE  Inv'
  BY <1>7, LetGoKeeps, ViewChunkKeeps
<1>8. CASE UNCHANGED vars
  BY <1>8, StutterKeeps
<1> QED
  BY <1>1, <1>2, <1>3, <1>4, <1>5, <1>6, <1>7, <1>8 DEF Next

\* The inductive invariant holds in every reachable state.
THEOREM Invariance == Spec => []Inv
<1>1. Init => Inv
  BY InitInv
<1>2. Inv /\ [Next]_vars => Inv'
  BY NextInv
<1> QED
  BY <1>1, <1>2, PTL DEF Spec

\* Every operation of the store keeps its data well-formed.
THEOREM TypeCorrect == Spec => []TypeOK
<1>1. Inv => TypeOK
  BY DEF Inv
<1> QED
  BY <1>1, Invariance, PTL

\* The parents and children lists of the chunks always agree, and what they lead
\* to is in the store or held by a running list of notes (link_chunk, del_chunk,
\* the Arcs of get_notes and get_subtree, and the start of the server).
THEOREM LinksAgree == Spec => []LinksMirror
<1>1. Inv => LinksMirror
  BY DEF Inv, Links
<1> QED
  BY <1>1, Invariance, PTL

\* A chunk is linked to no parent that its text does not name.
THEOREM LinksFollowText == Spec => []LinksDeclared
<1>1. Inv => LinksDeclared
  BY DEF Inv, Links
<1> QED
  BY <1>1, Invariance, PTL

\* The links never form a cycle, so the recursions of link_chunk, invalidate
\* and get_prop_dynamic over them end.
THEOREM LinksNeverCircular == Spec => []LinksAcyclic
<1>1. Inv => LinksAcyclic
  BY DEF Inv, Links
<1> QED
  BY <1>1, Invariance, PTL

\* The notes a user has access to and cannot reach would have one among them
\* without a parent among them: that is a root, or an orphan, or is listed as a
\* child by a parent in the store, which then can be reached.
LEMMA RootsSuffice ==
  ASSUME TypeOK, LinksMirror, LinksAcyclic
  PROVE  WellReachesAll
<1> SUFFICES ASSUME NEW u \in Users
             PROVE  \A i \in live : HasAccess(chunk[i], u, Read) =>
                       i \in Reach(WellKids(u), Roots(u) \union Orphans(u))
  BY DEF WellReachesAll
<1> DEFINE X == Roots(u) \union Orphans(u)
           R == Reach(WellKids(u), X)
           S == {i \in live : HasAccess(chunk[i], u, Read) /\ i \notin R}
<1>1. /\ live \in SUBSET Ids /\ X \in SUBSET Ids /\ WellKids(u) \in [Ids -> SUBSET Ids]
      /\ S \in SUBSET Nodes /\ DOMAIN parents = Nodes
  BY IdsAreNodes DEF TypeOK, WellKids, Roots, Orphans
<1>2. X \subseteq R /\ \A x \in R : WellKids(u)[x] \subseteq R
  BY <1>1, ReachIsClosed DEF Closed
<1> HIDE DEF R
<1>3. ASSUME S # {} PROVE FALSE
  <2>1. PICK i \in S : parents[i] \intersect S = {}
    BY <1>1, <1>3 DEF LinksAcyclic, Acyclic
  <2>2. PICK p \in VisibleParents(u, i) : p \in live
    BY <1>2, <2>1 DEF Roots, Orphans
  <2>3. p \in parents[i] /\ HasAccess(chunk[p], u, Read)
    BY <2>2 DEF VisibleParents
  <2>4. i \in children[p] /\ i \in Nodes /\ p \in Ids
    BY <1>1, <2>1, <2>2, <2>3, IdsAreNodes DEF LinksMirror
  <2>5. p \in R
    BY <2>1, <2>2, <2>3
  <2>6. i \in WellKids(u)[p]
    BY <1>1, <2>1, <2>4, IdsAreNodes DEF WellKids, VisibleKids
  <2> QED
    BY <1>2, <2>1, <2>5, <2>6
<1> QED
  BY <1>3 DEF R

\* subtree's roots lead to every note that a user has access to (DB::subtree),
\* but for what is below a note whose parents only lists of notes hold.
THEOREM WellIsComplete == Spec => []WellReachesAll
<1>1. Inv => WellReachesAll
  BY RootsSuffice DEF Inv, Links
<1> QED
  BY <1>1, Invariance, PTL

-----------------------------------------------------------------------------
(* The dynamic "modified"                                                  *)
(*                                                                         *)
(* CacheCoversEdits is inductive together with Inv.  An edit clears the    *)
(* caches of all ancestors, by the parents; what a cached value is about   *)
(* is found by the children: that no cache of the second kind survives an  *)
(* edit is again that both ends of a link agree.                           *)

LEMMA BelowType ==
  ASSUME TypeOK, NEW u, NEW n \in Nodes
  PROVE  /\ VisibleKids(u) \in [Nodes -> SUBSET Nodes]
         /\ Below(u, n) \in SUBSET Nodes
         /\ n \in Below(u, n)
         /\ Closed(VisibleKids(u), Below(u, n))
<1>1. VisibleKids(u) \in [Nodes -> SUBSET Nodes]
  BY DEF VisibleKids, TypeOK
<1> QED
  BY <1>1, ReachIsClosed DEF Below

\* A set that holds n and, with a note, the notes visible below it, now or after
\* the step, holds all that is then below n.
LEMMA BelowLeast ==
  ASSUME NEW u, NEW n \in Nodes, NEW T \in SUBSET Nodes, n \in T
  PROVE  /\ Closed(VisibleKids(u), T) => Below(u, n) \subseteq T
         /\ (\A y \in T : VisibleKids(u)'[y] \subseteq T) => Below(u, n)' \subseteq T
<1>1. Closed(VisibleKids(u), T) => Below(u, n) \subseteq T
  BY DEF Below, Reach, VisibleKids
<1>2. (\A y \in T : VisibleKids(u)'[y] \subseteq T) => Below(u, n)' \subseteq T
  BY DEF Below, Reach, Closed, VisibleKids
<1> QED
  BY <1>1, <1>2

\* A replaced chunk is below no chunk whose cache stays, and its old version is
\* below what the chunk was below.
LEMMA InstallCovers ==
  ASSUME Inv, Inv', CacheCoversEdits,
         NEW i \in Ids, NEW new \in Chunks, NEW old \in Places(i), Install(i, new, old)
  PROVE  CacheCoversEdits'
<1> DEFINE A == Reach(parents', {i})
           Was(n) == IF n \in old THEN i ELSE n
           P == LinkedParents(new.value)
<1>1. /\ old \in SUBSET Old /\ old \in SUBSET Nodes /\ i \in Nodes /\ i \notin old
      /\ \A n \in Nodes : parents[n] \intersect old = {} /\ children[n] \intersect old = {}
      /\ i \notin parents[i] /\ i \notin children[i]
  BY PlaceIsFree, NotOwnParent, IdsAreNodes DEF Inv, Links
<1>2. /\ \A j \in Nodes : cache'[j] = IF j \in A THEN Empty ELSE cache[Was(j)]
      /\ \A j \in Nodes \ {i} : chunk'[j] = chunk[Was(j)]
  <2>1. \A j \in Nodes : cache'[j] = IF j \in A THEN Empty ELSE Carried(cache, i, old)[j]
    BY DEF Install, Invalidate
  <2> QED
    BY <1>1, <2>1, InstallData DEF Carried, Inv
<1>3. Replaced(i, P, old)
  BY InstallLinksShape DEF Inv
<1>4. /\ A \in SUBSET Nodes /\ i \in A
      /\ \A c \in A : parents'[c] \subseteq A
  <2>1. parents' \in [Nodes -> SUBSET Nodes] /\ {i} \in SUBSET Nodes
    BY <1>1, <1>3 DEF Replaced
  <2>2. A \in SUBSET Nodes /\ {i} \subseteq A /\ Closed(parents', A)
    BY <2>1, ReachIsClosed
  <2> QED
    BY <2>2 DEF Closed
<1>5. \A n, p \in Nodes : /\ p \in parents'[n] <=> n \in children'[p]
                          /\ p \in parents[n] <=> n \in children[p]
  BY DEF Inv, Links, LinksMirror
<1> HIDE DEF A, P
<1> SUFFICES ASSUME NEW u \in Users, NEW j \in Nodes, NEW t \in cache'[j][u],
                    NEW x \in Below(u, j)'
             PROVE  chunk'[x].modified <= t
  BY DEF CacheCoversEdits
<1>6. j \notin A /\ t \in cache[Was(j)][u] /\ Was(j) \in Nodes
  BY <1>1, <1>2 DEF Empty
<1> DEFINE B == Below(u, Was(j))
           T == {y \in Nodes \ A : Was(y) \in B}
<1>7. B \in SUBSET Nodes /\ Was(j) \in B /\ Closed(VisibleKids(u), B)
  BY <1>6, BelowType DEF Inv
<1> HIDE DEF B
<1>8. T \in SUBSET Nodes /\ j \in T
  BY <1>6, <1>7
<1>9. ASSUME NEW y \in T, NEW c \in Nodes, c \in children'[y], HasAccess(chunk'[c], u, Read)
      PROVE  c \in T
  <2>1. y \in parents'[c] /\ c \notin A /\ c # i /\ y # i /\ y \notin A
    BY <1>4, <1>5, <1>9
  <2>2. Was(y) \in parents[Was(c)]
    BY <1>1, <1>3, <1>9, <2>1 DEF Replaced
  <2>3. Was(c) \in Nodes /\ Was(y) \in Nodes /\ Was(c) \in children[Was(y)]
    BY <1>1, <1>5, <1>9, <2>2
  <2>4. chunk'[c] = chunk[Was(c)]
    BY <1>2, <1>9, <2>1
  <2> HIDE DEF Was
  <2>5. Was(c) \in VisibleKids(u)[Was(y)]
    BY <1>9, <2>3, <2>4 DEF VisibleKids
  <2>6. Was(c) \in B
    BY <1>7, <1>9, <2>5 DEF Closed
  <2> QED
    BY <1>9, <2>1, <2>6
<1>10. \A y \in T : VisibleKids(u)'[y] \subseteq T
  BY <1>8, <1>9 DEF VisibleKids, Inv, TypeOK
<1>11. x \in T
  BY <1>8, <1>10, BelowLeast
<1>12. chunk'[x] = chunk[Was(x)] /\ Was(x) \in B
  BY <1>2, <1>4, <1>11
<1> HIDE DEF Was
<1> QED
  BY <1>6, <1>12 DEF CacheCoversEdits, B

\* A removed chunk is below nothing any more but as the old version that lists
\* hold, which is below what the chunk was below.
LEMMA DelRemoveCovers ==
  ASSUME Inv, CacheCoversEdits, NEW i \in Ids, DelRemove(i)
  PROVE  CacheCoversEdits'
<1>1. PICK old \in Places(i) :
        /\ chunk' = [Carried(chunk, i, old) EXCEPT ![i] = Blank]
        /\ parents' = [Redirected(parents, i, old) EXCEPT ![i] = {}]
        /\ children' = [Redirected(children, i, old) EXCEPT ![i] = {}]
        /\ cache' = Carried(Invalidate(cache, parents, i), i, old)
  BY DEF DelRemove
<1> DEFINE Was(n) == IF n \in old THEN i ELSE n
<1>2. /\ old \in SUBSET Nodes /\ i \in Nodes /\ i \notin old
      /\ \A n \in Nodes : parents[n] \intersect old = {} /\ children[n] \intersect old = {}
      /\ i \notin children[i]
  BY PlaceIsFree, NotOwnParent, IdsAreNodes DEF Inv, Links
<1>3. Gone(i, old)
  BY <1>1, <1>2, GoneLinks DEF Inv
<1>4. /\ \A n \in Nodes \ {i} : chunk'[n] = chunk[Was(n)]
      /\ cache'[i] = Empty
      /\ \A n \in Nodes : cache'[n] = Empty \/ (n \notin old /\ cache'[n] = cache[n])
  <2>1. i \in Reach(parents, {i})
    BY <1>2, ReachIsClosed DEF Inv, TypeOK
  <2> QED
    BY <1>1, <1>2, <2>1 DEF Carried, Invalidate, Inv, TypeOK
<1> SUFFICES ASSUME NEW u \in Users, NEW j \in Nodes, NEW t \in cache'[j][u],
                    NEW x \in Below(u, j)'
             PROVE  chunk'[x].modified <= t
  BY DEF CacheCoversEdits
<1>5. j # i /\ j \notin old /\ t \in cache[j][u]
  BY <1>4 DEF Empty
<1> DEFINE B == Below(u, j)
           T == {y \in Nodes \ {i} : Was(y) \in B}
<1>6. B \in SUBSET Nodes /\ j \in B /\ Closed(VisibleKids(u), B)
  BY BelowType DEF Inv
<1> HIDE DEF B
<1>7. T \in SUBSET Nodes /\ j \in T
  BY <1>5, <1>6
<1>8. ASSUME NEW y \in T, NEW c \in Nodes, c \in children'[y], HasAccess(chunk'[c], u, Read)
      PROVE  c \in T
  <2>1. c # i /\ Was(c) \in children[Was(y)] /\ Was(y) \in B
    BY <1>2, <1>3, <1>8 DEF Gone
  <2>2. chunk'[c] = chunk[Was(c)] /\ Was(y) \in Nodes
    BY <1>2, <1>4, <1>8, <2>1
  <2> HIDE DEF Was
  <2>3. Was(c) \in VisibleKids(u)[Was(y)]
    BY <1>8, <2>1, <2>2 DEF VisibleKids
  <2>4. Was(c) \in B
    BY <1>6, <2>1, <2>3 DEF Closed
  <2> QED
    BY <1>8, <2>1, <2>4
<1>9. \A y \in T : VisibleKids(u)'[y] \subseteq T
  BY <1>3, <1>7, <1>8 DEF VisibleKids, Gone
<1>10. x \in T
  BY <1>7, <1>9, BelowLeast
<1>11. chunk'[x] = chunk[Was(x)] /\ Was(x) \in B
  BY <1>4, <1>10
<1> HIDE DEF Was
<1> QED
  BY <1>5, <1>11 DEF CacheCoversEdits, B

\* What a list lets go of is below nothing any more.
LEMMA LetGoCovers ==
  ASSUME Inv, CacheCoversEdits, NEW n \in Nodes, LetGo(n), n \notin live
  PROVE  CacheCoversEdits'
<1>1. /\ chunk' = [chunk EXCEPT ![n] = Blank]
      /\ parents' = [Redirected(parents, n, {}) EXCEPT ![n] = {}]
      /\ children' = [Redirected(children, n, {}) EXCEPT ![n] = {}]
      /\ cache' = [cache EXCEPT ![n] = Empty]
  BY DEF LetGo
<1>2. Gone(n, {})
  BY <1>1, GoneLinks DEF Inv
<1>3. /\ \A m \in Nodes \ {n} : chunk'[m] = chunk[m] /\ cache'[m] = cache[m]
      /\ cache'[n] = Empty
  BY <1>1 DEF Inv, TypeOK
<1> SUFFICES ASSUME NEW u \in Users, NEW j \in Nodes, NEW t \in cache'[j][u],
                    NEW x \in Below(u, j)'
             PROVE  chunk'[x].modified <= t
  BY DEF CacheCoversEdits
<1>4. j # n /\ t \in cache[j][u]
  BY <1>3 DEF Empty
<1> DEFINE B == Below(u, j)
           T == B \ {n}
<1>5. B \in SUBSET Nodes /\ j \in B /\ Closed(VisibleKids(u), B)
  BY BelowType DEF Inv
<1> HIDE DEF B
<1>6. T \in SUBSET Nodes /\ j \in T
  BY <1>4, <1>5
<1>7. ASSUME NEW y \in T, NEW c \in Nodes, c \in children'[y], HasAccess(chunk'[c], u, Read)
      PROVE  c \in T
  <2>1. c # n /\ c \in children[y]
    BY <1>2, <1>6, <1>7 DEF Gone
  <2>2. c \in VisibleKids(u)[y]
    BY <1>3, <1>6, <1>7, <2>1 DEF VisibleKids
  <2> QED
    BY <1>5, <1>7, <2>1, <2>2 DEF Closed
<1>8. \A y \in T : VisibleKids(u)'[y] \subseteq T
  BY <1>2, <1>6, <1>7 DEF VisibleKids, Gone
<1>9. x \in T
  BY <1>6, <1>8, BelowLeast
<1> QED
  BY <1>3, <1>4, <1>6, <1>9 DEF CacheCoversEdits, B

\* What a view computes for a chunk covers what is below it: what the walk meets
\* without a cached value by itself, the rest by the cached values it stops at.
LEMMA ComputedCovers ==
  ASSUME TypeOK, CacheCoversEdits, NEW u \in Users, NEW i \in Nodes,
         NEW t \in Computed(u, i), NEW x \in Below(u, i)
  PROVE  chunk[x].modified <= t
<1> DEFINE M == Reach(Kids(u), {i})
           S == {chunk[y].modified : y \in {z \in M : cache[z][u] = {}}}
                \union UNION {cache[y][u] : y \in M}
           Cached == {y \in M : cache[y][u] # {}}
           T == M \union UNION {Below(u, y) : y \in Cached}
<1>1. Kids(u) \in [Nodes -> SUBSET Nodes]
  BY DEF Kids, TypeOK
<1>2. M \in SUBSET Nodes /\ i \in M /\ Closed(Kids(u), M)
  BY <1>1, ReachIsClosed
<1>3. t \in S /\ \A s \in S : s <= t
  BY DEF Computed, Latest
<1> HIDE DEF M
<1>4. S \subseteq Nat
  BY <1>2, TimeAssumption DEF TypeOK, Chunks, Times
<1>5. \A y \in Cached : /\ Below(u, y) \in SUBSET Nodes
                        /\ y \in Below(u, y)
                        /\ Closed(VisibleKids(u), Below(u, y))
  BY <1>2, BelowType
<1>6. T \in SUBSET Nodes /\ i \in T
  BY <1>2, <1>5
<1>7. ASSUME NEW y \in T, NEW c \in VisibleKids(u)[y]
      PROVE  c \in T
  <2>1. CASE y \in M /\ cache[y][u] = {}
    <3>1. c \in Kids(u)[y]
      BY <1>2, <1>7, <2>1 DEF Kids, VisibleKids
    <3> QED
      BY <1>2, <2>1, <3>1 DEF Closed
  <2>2. ASSUME NEW z \in Cached, y \in Below(u, z)
        PROVE  c \in T
    BY <1>5, <1>7, <2>2 DEF Closed
  <2> QED
    BY <1>5, <1>7, <2>1, <2>2
<1>8. x \in T
  BY <1>6, <1>7, BelowLeast DEF Closed
<1>9. ASSUME NEW y \in Cached, x \in Below(u, y)
      PROVE  chunk[x].modified <= t
  <2>1. PICK s \in cache[y][u] : TRUE
    OBVIOUS
  <2>2. chunk[x].modified <= s
    BY <1>2, <1>9, <2>1 DEF CacheCoversEdits
  <2>3. s \in S
    BY <2>1
  <2>4. chunk[x].modified \in Nat
    BY <1>6, <1>8, TimeAssumption DEF TypeOK, Chunks, Times
  <2> QED
    BY <1>3, <1>4, <2>2, <2>3, <2>4
<1>10. CASE x \in M /\ cache[x][u] = {}
  BY <1>3, <1>10
<1> QED
  BY <1>5, <1>8, <1>9, <1>10

LEMMA ViewChunkCovers ==
  ASSUME TypeOK, CacheCoversEdits, NEW u \in Users, NEW n \in Nodes, ViewChunk(u, n)
  PROVE  CacheCoversEdits'
<1>1. chunk' = chunk /\ children' = children
  BY DEF ViewChunk, links
<1>2. \A w \in Users, j \in Nodes : Below(w, j)' = Below(w, j)
  BY <1>1 DEF Below, VisibleKids, Reach, Closed
<1>3. \A w \in Users, j \in Nodes : cache'[j][w] \in {cache[j][w], Computed(w, j)}
  BY DEF ViewChunk, TypeOK
<1> QED
  BY <1>1, <1>2, <1>3, ComputedCovers DEF CacheCoversEdits

LEMMA CoversStep ==
  ASSUME Inv, CacheCoversEdits, [Next]_vars
  PROVE  CacheCoversEdits'
<1> USE UsersAssumption
<1>1. Inv'
  BY NextInv
<1>2. ASSUME NEW i \in Ids, NEW new \in Chunks, \E old \in Places(i) : Install(i, new, old)
      PROVE  CacheCoversEdits'
  BY <1>1, <1>2, InstallCovers
<1>3. CASE UNCHANGED <<chunk, children, cache>>
  <2>1. \A w \in Users, j \in Nodes : Below(w, j)' = Below(w, j)
    BY <1>3 DEF Below, VisibleKids, Reach, Closed
  <2> QED
    BY <1>3, <2>1 DEF CacheCoversEdits
<1>4. ASSUME NEW u \in Writers, NEW i \in Ids, NEW v \in Texts,
             SetChunk(u, i, v) \/ UpdateChunk(u, i, v)
      PROVE  CacheCoversEdits'
  <2>1. Denies(u, i, v) \/ Rejects(u, i, v) \/ Accepts(u, i, v)
    BY <1>4 DEF SetChunk, UpdateChunk
  <2>2. CASE Accepts(u, i, v)
    <3>1. u \in Users
      BY <2>2, AcceptsKeeps
    <3>2. NewChunk(u, i, v) \in Chunks
      BY <3>1, NewChunkType DEF Inv
    <3> QED
      BY <1>2, <2>2, <3>2 DEF Accepts
  <2>3. CASE Denies(u, i, v) \/ Rejects(u, i, v)
    BY <1>3, <2>3 DEF Denies, Rejects, Fail, store
  <2> QED
    BY <2>1, <2>2, <2>3
<1>5. ASSUME NEW i \in Ids, DelLeave(i)
      PROVE  CacheCoversEdits'
  <2>1. i \in live /\ \E old \in Places(i) : Install(i, LeftChunk(i), old)
    BY <1>5 DEF DelLeave, Leaves
  <2> QED
    BY <1>2, <2>1, LeftChunkType
<1>6. ASSUME NEW i \in Ids,
             DelAdmin(i) \/ DelExpectFails(i) \/ DelLinkFails(i) \/ DelStops(i)
      PROVE  UNCHANGED <<chunk, children, cache>>
  BY <1>6 DEF DelAdmin, DelExpectFails, DelLinkFails, DelStops, Fail, store
<1>7. ASSUME NEW u, NEW i, UpdateHidden(u, i) \/ DelStart(u, i)
      PROVE  UNCHANGED <<chunk, children, cache>>
  BY <1>7 DEF UpdateHidden, DelStart, Fail, store
<1>8. CASE DelPublic \/ DelFinish \/ RestartFails \/ Tick \/ UNCHANGED vars
  BY <1>3, <1>8 DEF DelPublic, DelFinish, RestartFails, Tick, vars, Fail, store
<1>9. CASE Restart
  BY <1>9 DEF Restart, CacheCoversEdits, Empty
<1>10. ASSUME NEW i \in Ids, DelRemove(i)
       PROVE  CacheCoversEdits'
  BY <1>10, DelRemoveCovers
<1>11. ASSUME NEW n \in Nodes, NEW u \in Viewers, ViewChunk(u, n)
       PROVE  CacheCoversEdits'
  BY <1>11, ViewChunkCovers DEF Inv
<1>12. ASSUME NEW n \in Nodes, LetGo(n)
       PROVE  CacheCoversEdits'
  BY <1>3, <1>12, LetGoCovers DEF LetGo, links
<1>13. ASSUME NEW u, ListNotes(u) \/ \E i \in Ids : TakeRoot(u, i)
       PROVE  UNCHANGED <<chunk, children, cache>>
  BY <1>13 DEF ListNotes, TakeRoot, links
<1> QED
  BY <1>3, <1>4, <1>5, <1>6, <1>7, <1>8, <1>9, <1>10, <1>11, <1>12, <1>13 DEF Next

\* A cached "modified" never misses an edit below it: invalidate clears, by the
\* parents, every cache that get_prop_dynamic has filled, by the children.
THEOREM CachesCoverEdits == Spec => []CacheCoversEdits
<1>1. Init => CacheCoversEdits
  BY DEF Init, CacheCoversEdits, Empty
<1>2. Inv /\ CacheCoversEdits /\ [Next]_vars => CacheCoversEdits'
  BY CoversStep
<1> QED
  BY <1>1, <1>2, Invariance, PTL DEF Spec
=============================================================================
