----------------------------- MODULE ChunkLocks -----------------------------
(***************************************************************************)
(* Who waits for whom: the RwLock around the DB and the one around every   *)
(* DBChunk, as the handlers of src/src/v1/socket.rs and src/src/v1/ends.rs *)
(* take them through ChunkView (src/src/v1/db/mod.rs), DB::subtree,        *)
(* get_chunks, set_chunk and del_chunk (src/src/v1/db/db_app.rs).          *)
(*                                                                         *)
(* A request is a stack of frames.  A frame stands for a locked chunk and  *)
(* has the moves that are still to be made while it is locked; the bottom  *)
(* frame locks nothing.  The graph of chunks is fixed but for deletions,   *)
(* for the writes here leave a note's title line alone, and everyone may   *)
(* see all of it.                                                          *)
(*                                                                         *)
(* Locks of chunks are exclusive here.  The code takes some for reading,   *)
(* but only when it holds no other chunk's: no one waits for who waits for *)
(* one of these, and two readers of a chunk add no circle of waiting.      *)
(***************************************************************************)
EXTENDS Naturals, Sequences, FiniteSets, SequencesExt

CONSTANTS Chunks,
          Up,         \* chunk -> its parents; there is no cycle
          Requests,   \* every one of them is made at most once
          Nobody      \* holder of a lock that is free

ASSUME LocksAssumption ==
  /\ IsFiniteSet(Chunks) /\ Chunks # {}
  /\ Up \in [Chunks -> SUBSET Chunks]
  /\ \E depth \in [Chunks -> 0..Cardinality(Chunks)] :
       \A c \in Chunks : \A p \in Up[c] : depth[p] < depth[c]
  /\ Nobody \notin Requests \union Chunks

VARIABLES
  kind,     \* request -> "none" (not yet made), or what it does
  guard,    \* request -> the guard of the DB it holds: "none", "read", "write"
  stack,    \* request -> frames, the innermost last
  holder,   \* chunk -> who has locked the DBChunk that is in the store
  gone,     \* the chunks that were deleted
  poisoned  \* did a request panic under the write guard?

vars == <<kind, guard, stack, holder, gone, poisoned>>

Live     == Chunks \ gone
Above(c) == Up[c] \ gone
Down(c)  == {k \in Live : c \in Up[k]}

Kinds == {"view", "read", "well", "notes", "list", "write", "delete"}
Ways  == {"alone", "down", "up", "view", "peek", "crest",
          "try", "insert", "remove", "drop", "past"}

\* Moves to the chunks of S in the order of its list, and why.
Moves(S, way) == [k \in 1..Cardinality(S) |-> [to |-> SetToSeq(S)[k], way |-> way]]

\* holder says who has a frame for the chunk; only a list of notes may have one
\* for a chunk that was replaced.
HoldersHaveFrames ==
  /\ \A c \in Chunks : holder[c] # Nobody =>
       \E k \in DOMAIN stack[holder[c]] : stack[holder[c]][k].at = c
  /\ \A r \in Requests : \A k \in DOMAIN stack[r] :
       k > 1 /\ kind[r] # "notes" => holder[stack[r][k].at] = r

TypeOK ==
  /\ kind \in [Requests -> Kinds \union {"none"}]
  /\ guard \in [Requests -> {"none", "read", "write"}]
  /\ \A r \in Requests : \A k \in DOMAIN stack[r] :
       /\ stack[r][k].at \in IF k = 1 THEN {Nobody} ELSE Chunks
       /\ \A l \in DOMAIN stack[r][k].moves :
            /\ stack[r][k].moves[l].to \in Chunks
            /\ stack[r][k].moves[l].way \in Ways
  /\ holder \in [Chunks -> Requests \union {Nobody}]
  /\ gone \subseteq Chunks
  /\ poisoned \in BOOLEAN
  /\ HoldersHaveFrames

Init ==
  /\ kind = [r \in Requests |-> "none"]
  /\ guard = [r \in Requests |-> "none"]
  /\ stack = [r \in Requests |-> <<>>]
  /\ holder = [c \in Chunks |-> Nobody]
  /\ gone = {}
  /\ poisoned = FALSE

-----------------------------------------------------------------------------
(* What a frame does while its chunk is locked *)

\* get_prop_dynamic("modified"): the children for their access, one by one,
\* and then the children for their own value, unless the value is cached.
Modified(c, cached) ==
  IF cached THEN <<>> ELSE Moves(Down(c), "alone") \o Moves(Down(c), "down")

\* ChunkView::from: the dynamic property, the parents and the children.
View(c, cached) ==
  Modified(c, cached) \o Moves(Above(c), "alone") \o Moves(Down(c), "alone")

\* Mutant of FramesOf: invalidate goes up and down.
FramesOfBothWays(m) ==
  CASE m.way = "alone" -> {<<>>}
    [] m.way = "down"  -> {Modified(m.to, b) : b \in BOOLEAN}
    [] m.way = "view"  -> {<<>>} \union {View(m.to, b) : b \in BOOLEAN}
    [] m.way = "up"    -> {Moves(Above(m.to), "up") \o Moves(Down(m.to), "up")}
    [] m.way = "peek"  -> {Moves(Down(m.to), "alone")}
    [] m.way = "crest" -> {Moves(Above(m.to), "alone")}

\* The moves of the frame that a move pushes; a cached value is a free choice,
\* and so is a view for the public, which has no relatives.
FramesOf(m) ==
  CASE m.way = "alone" -> {<<>>}                       \* has_access, get_chunk
    [] m.way = "down"  -> {Modified(m.to, b) : b \in BOOLEAN}
    [] m.way = "view"  -> {<<>>} \union {View(m.to, b) : b \in BOOLEAN}
    [] m.way = "up"    -> {Moves(Above(m.to), "up")}      \* invalidate(_, true)
    [] m.way = "peek"  -> {Moves(Down(m.to), "alone")} \* subtree: children(ua)
    [] m.way = "crest" -> {Moves(Above(m.to), "alone")}   \* subtree: parents(ua)

-----------------------------------------------------------------------------
(* Requests: which locks they take, in which order *)

One(c, way) == <<[to |-> c, way |-> way]>>

\* The guard of the DB: many readers or one writer, until a panic poisons it.
MayRead  == ~poisoned /\ \A r \in Requests : guard[r] # "write"
MayWrite == ~poisoned /\ \A r \in Requests : guard[r] = "none"

Begins(r, what, g, moves) ==
  /\ kind[r] = "none"
  /\ kind' = [kind EXCEPT ![r] = what]
  /\ guard' = [guard EXCEPT ![r] = g]
  /\ stack' = [stack EXCEPT ![r] = <<[at |-> Nobody, moves |-> moves]>>]
  /\ UNCHANGED <<holder, gone, poisoned>>

\* The view of a note, by a socket or at the end of chunks_put: get_chunk, and
\* ChunkView::from, under one read guard.
ViewNote(r, c) ==
  /\ MayRead
  /\ Begins(r, "view", "read", One(c, "alone") \o One(c, "view"))

\* chunks_get_id, page_get_id, "chunks/<id>/value": get_chunk, and the text.
ReadNote(r, c) ==
  /\ MayRead
  /\ Begins(r, "read", "read", One(c, "alone") \o One(c, "alone"))

\* DBData::from, for a backup or for a server that mirrors this one.
Copy(r) == MayRead /\ Begins(r, "read", "read", Moves(Live, "alone"))

\* subtree of one level: the view of every child, after sorting them.
Level(S) == Moves(S, "down") \o Moves(S, "view")

\* Mutant of WellOf: the guard is dropped before the views are made.
WellOfUnguarded(c) ==
  One(c, "drop") \o One(c, "view") \o One(c, "peek") \o Level(Down(c))

WellOf(c) == One(c, "view") \o One(c, "peek") \o Level(Down(c))

\* get_subtree of a note, under one read guard.  (The one of get_chunk before
\* it is given back; try_read fails where MayRead does, and the task dies.)
Well(r, c) == MayRead /\ Begins(r, "well", "read", WellOf(c))

\* get_subtree without a root: all chunks that have no parent.
Wells(r) ==
  /\ MayRead
  /\ Begins(r, "well", "read",
            Moves(Live, "crest") \o Level({c \in Live : Above(c) = {}}))

\* get_notes: get_chunks under the write guard; then, without it, the chunks
\* are sorted and viewed one by one, with no look at their relatives.
Notes(r) ==
  /\ MayWrite
  /\ Begins(r, "notes", "write",
            Moves(Live, "alone") \o One(CHOOSE c \in Chunks : TRUE, "drop")
            \o Moves(Live, "alone") \o Moves(Live, "alone"))

\* chunks_get, and a socket's "user": get_chunks and a look at each chunk, all
\* under the write guard.
List(r) ==
  /\ MayWrite
  /\ Begins(r, "list", "write", Moves(Live, "alone") \o Moves(Live, "alone"))

\* Mutant of WriteMayBegin: a write needs the read guard only.
WriteMayBeginRead == MayRead

WriteMayBegin == MayWrite

\* set_chunk: the old chunk, its relatives for their links, the ancestors by
\* try_write, the invalidation and insert.  The new chunk's lock is nobody
\* else's yet.
SetChunk(c) ==
  One(c, "alone") \o Moves(Above(c), "alone") \o Moves(Down(c), "alone")
  \o Moves(Above(c), "try") \o Moves(Above(c), "up") \o One(c, "insert")

\* update_chunk: set_chunk, get_chunk, and the view that the socket sends.
Write(r, c) ==
  /\ WriteMayBegin
  /\ Begins(r, "write", "write", SetChunk(c) \o One(c, "alone") \o One(c, "view"))

\* del_chunk by a reader: the chunk's access, and set_chunk of the text without
\* the own share.
Leave(r, c) ==
  /\ WriteMayBegin
  /\ Begins(r, "write", "write", One(c, "alone") \o SetChunk(c))

\* del_chunk by an owner: the chunk's access, its and its ancestors' caches,
\* and the removal.
Delete(r, c) ==
  /\ WriteMayBegin
  /\ Begins(r, "delete", "write", One(c, "alone") \o One(c, "up") \o One(c, "remove"))

-----------------------------------------------------------------------------
(* Steps of a request *)

Top(r)  == Last(stack[r])
Busy(r) == stack[r] # <<>>
More(r) == Busy(r) /\ Top(r).moves # <<>>
Move(r) == Head(Top(r).moves)

\* The frames with the move of the innermost one made.
Made(r) == Front(stack[r]) \o <<[Top(r) EXCEPT !.moves = Tail(@)]>>

Locks(r) == More(r) /\ Move(r).way \notin {"try", "insert", "remove", "drop", "past"}

Take(r) ==
  /\ Locks(r)
  /\ holder[Move(r).to] = Nobody
  /\ \E moves \in FramesOf(Move(r)) :
       stack' = [stack EXCEPT ![r] = Append(Made(r), [at |-> Move(r).to, moves |-> moves])]
  /\ holder' = [holder EXCEPT ![Move(r).to] = r]
  /\ UNCHANGED <<kind, guard, gone, poisoned>>

\* Mutant of Release: the chunk in the store is unlocked for the replaced one.
ReleaseAnyone(r) ==
  /\ Len(stack[r]) > 1
  /\ Top(r).moves = <<>>
  /\ stack' = [stack EXCEPT ![r] = Front(@)]
  /\ holder' = [holder EXCEPT ![Top(r).at] = Nobody]
  /\ UNCHANGED <<kind, guard, gone, poisoned>>

\* A lock on a chunk that was replaced in the store concerns no one any more.
Release(r) ==
  /\ Len(stack[r]) > 1
  /\ Top(r).moves = <<>>
  /\ stack' = [stack EXCEPT ![r] = Front(@)]
  /\ holder' = [holder EXCEPT ![Top(r).at] = IF @ = r THEN Nobody ELSE @]
  /\ UNCHANGED <<kind, guard, gone, poisoned>>

\* link_chunk's try_write().unwrap() of a linked ancestor, and on to its parents.
TryWrite(r) ==
  /\ More(r)
  /\ Move(r).way = "try"
  /\ holder[Move(r).to] = Nobody
  /\ stack' = [stack EXCEPT ![r] =
       <<[Top(r) EXCEPT !.moves = Moves(Above(Move(r).to), "try") \o Tail(@)]>>]
  /\ UNCHANGED <<kind, guard, holder, gone, poisoned>>

TryWritePanics(r) ==
  /\ More(r)
  /\ Move(r).way = "try"
  /\ holder[Move(r).to] # Nobody
  /\ poisoned' = TRUE
  /\ guard' = [guard EXCEPT ![r] = "none"]
  /\ stack' = [stack EXCEPT ![r] = <<>>]
  /\ UNCHANGED <<kind, holder, gone>>

\* The moves to c are to a DBChunk that is no longer in the store.
Aged(moves, c) ==
  [k \in DOMAIN moves |->
     IF moves[k].to = c THEN [moves[k] EXCEPT !.way = "past"] ELSE moves[k]]

\* The DBChunk of c leaves the store.  A get_notes that runs has it still: its
\* locks on that are nobody else's concern.
Unstored(r, c) ==
  /\ holder' = [holder EXCEPT ![c] = Nobody]
  /\ stack' = [s \in Requests |->
       IF s = r THEN Made(r)
       ELSE IF kind[s] = "notes" /\ Busy(s)
       THEN [stack[s] EXCEPT ![1].moves = Aged(@, c)]
       ELSE stack[s]]

\* A new chunk takes the old one's place.
Insert(r) ==
  /\ More(r)
  /\ Move(r).way = "insert"
  /\ Unstored(r, Move(r).to)
  /\ UNCHANGED <<kind, guard, gone, poisoned>>

Discard(r) ==
  /\ More(r)
  /\ Move(r).way = "remove"
  /\ Unstored(r, Move(r).to)
  /\ gone' = gone \union {Move(r).to}
  /\ UNCHANGED <<kind, guard, poisoned>>

\* The note that get_notes has still and the store has not.
Pass(r) ==
  /\ More(r)
  /\ Move(r).way = "past"
  /\ stack' = [stack EXCEPT ![r] = Made(r)]
  /\ UNCHANGED <<kind, guard, holder, gone, poisoned>>

Drop(r) ==
  /\ More(r)
  /\ Move(r).way = "drop"
  /\ guard' = [guard EXCEPT ![r] = "none"]
  /\ stack' = [stack EXCEPT ![r] = Made(r)]
  /\ UNCHANGED <<kind, holder, gone, poisoned>>

Answer(r) ==
  /\ Len(stack[r]) = 1
  /\ Top(r).moves = <<>>
  /\ guard' = [guard EXCEPT ![r] = "none"]
  /\ stack' = [stack EXCEPT ![r] = <<>>]
  /\ UNCHANGED <<kind, holder, gone, poisoned>>

Step(r) == \/ Take(r) \/ Release(r) \/ TryWrite(r) \/ TryWritePanics(r)
           \/ Insert(r) \/ Discard(r) \/ Pass(r) \/ Drop(r) \/ Answer(r)

Next ==
  \E r \in Requests :
    \/ \E c \in Live : \/ ViewNote(r, c) \/ ReadNote(r, c) \/ Well(r, c)
                      \/ Write(r, c) \/ Leave(r, c) \/ Delete(r, c)
    \/ Copy(r) \/ Wells(r) \/ Notes(r) \/ List(r)
    \/ Take(r) \/ Release(r) \/ TryWrite(r) \/ TryWritePanics(r)
    \/ Insert(r) \/ Discard(r) \/ Pass(r) \/ Drop(r) \/ Answer(r)

\* A thread that can go on does; there are finitely many requests, so no lock
\* is taken again and again before the eyes of one who waits for it.
Spec == Init /\ [][Next]_vars /\ \A r \in Requests : WF_vars(Step(r))

-----------------------------------------------------------------------------
(* Properties *)

Waits(r)   == Locks(r) /\ holder[Move(r).to] # Nobody
Blocker(r) == holder[Move(r).to]

\* Requests that wait for each other in a circle.
Circles == {R \in (SUBSET Requests) \ {{}} :
              /\ \A r \in R : Waits(r)
              /\ R = {Blocker(r) : r \in R}}

\* All the chunks that a request has locked, and that are in the store.
Held(r) == {c \in Chunks : holder[c] = r}

\* Requests wait for each other in one way only: one view holds a chunk and
\* waits for a chunk above, another holds one and waits for a chunk below.  A
\* write or a list of notes, which other requests may have to wait for with
\* the whole DB, is never part of it.
OnlyViewsCross ==
  \A R \in Circles :
    /\ \A r \in R : kind[r] \in {"view", "well"} /\ guard[r] = "read"
    /\ \E r \in R : \E c \in Held(r) : Move(r).to \in Above(c)
    /\ \E r \in R : \E c \in Held(r) : Move(r).to \in Down(c)

\* The panic of link_chunk, which poisons the DB, is owed to lists of notes
\* alone: it is only they that lock chunks without a guard of the DB.
OnlyNotesPoison ==
  [][\A r \in Requests : TryWritePanics(r) => kind[holder[Move(r).to]] = "notes"]_vars

ViewsCrossed == \E R \in Circles : \A r \in R : kind[r] \in {"view", "well"}

\* Every request is answered, or ended by a panic, unless views have crossed:
\* no write waits for itself, and none for a list of notes that waits for it.
RequestsEnd == \A r \in Requests : Busy(r) ~> ~Busy(r) \/ ViewsCrossed

=============================================================================
