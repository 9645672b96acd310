------------------------------- MODULE LinkAll -------------------------------
(***************************************************************************)
(* How the start of the server links the chunks it has read: link_all and  *)
(* the recursion of link_chunk (src/src/v1/db/db_app.rs), in one thread,   *)
(* before any request is served.                                           *)
(*                                                                         *)
(* The recursion is a stack of frames.  A frame holds the chunk and the    *)
(* parents it has still to visit; a chunk's parents come out of a HashSet, *)
(* so the order is free.  link_all goes through a map ordered by random    *)
(* ids, so the order of the roots is free too.                             *)
(***************************************************************************)
EXTENDS Naturals, Sequences, FiniteSets, SequencesExt

CONSTANTS Ids,
          MaxDepth    \* frames the thread's call stack has room for

ASSUME DepthAssumption ==
  /\ IsFiniteSet(Ids)
  /\ MaxDepth \in Nat /\ MaxDepth > Cardinality(Ids)

VARIABLES
  stored,     \* keys of DB.chunks
  refs,       \* get_prop("parents") of every chunk
  order,      \* the chunks with linked = true, in the order they became so
  parents,    \* DBChunk.parents: how often each chunk lists each parent
  children,   \* DBChunk.children, likewise
  roots,      \* what link_all's loop has still to take
  stack,      \* the frames of link_chunk, the innermost last
  status      \* "linking", "linked", "circular" or "overflow"

vars == <<stored, refs, order, parents, children, roots, stack, status>>

Linked == Range(order)

TypeOK ==
  /\ stored \in SUBSET Ids
  /\ refs \in [Ids -> SUBSET Ids]
  /\ order \in Seq(Ids)
  /\ parents \in [Ids -> [Ids -> 0..2]]
  /\ children \in [Ids -> [Ids -> 0..1]]
  /\ roots \in SUBSET Ids
  /\ stack \in Seq([id : Ids, todo : SUBSET Ids])
  /\ status \in {"linking", "linked", "circular", "overflow"}

Nobody == [i \in Ids |-> [j \in Ids |-> 0]]

\* A text that names its own chunk is never stored: set_chunk rejects it.
Init ==
  /\ stored \in SUBSET Ids
  /\ refs \in [Ids -> SUBSET Ids]
  /\ \A i \in Ids : i \notin refs[i] /\ (i \notin stored => refs[i] = {})
  /\ order = <<>>
  /\ parents = Nobody
  /\ children = Nobody
  /\ roots = stored
  /\ stack = <<>>
  /\ status = "linking"

-----------------------------------------------------------------------------
(* link_chunk *)

Listed(lists, i) == {j \in Ids : lists[i][j] > 0}

\* Mutant of Link: the children that are there already are not told.
LinkTellsParents(i) ==
  LET ups == refs[i] \intersect stored
  IN  /\ order' = Append(order, i)
      /\ parents' = [parents EXCEPT ![i] = [p \in Ids |-> IF p \in ups THEN 1 ELSE 0]]
      /\ children' = [p \in Ids |-> IF p \in ups
                                    THEN [children[p] EXCEPT ![i] = @ + 1]
                                    ELSE children[p]]

\* Mutant of Link: ids that are not stored are linked too.
LinkMissing(i) ==
  /\ order' = Append(order, i)
  /\ parents' = [parents EXCEPT ![i] = [p \in Ids |-> IF p \in refs[i] THEN 1 ELSE 0]]
  /\ children' = [p \in Ids |-> IF p \in refs[i]
                                THEN [children[p] EXCEPT ![i] = @ + 1]
                                ELSE children[p]]

\* A chunk that is not linked yet lists its stored parents and tells them;
\* then it tells its children, which have all listed it before, of itself.
Link(i) ==
  LET ups == refs[i] \intersect stored
      kids == Listed(children, i)
  IN  /\ order' = Append(order, i)
      /\ parents' = [c \in Ids |->
           CASE c = i -> [p \in Ids |-> IF p \in ups THEN 1 ELSE 0]
             [] c \in kids -> [parents[c] EXCEPT ![i] = @ + 1]
             [] OTHER -> parents[c]]
      /\ children' = [p \in Ids |-> IF p \in ups
                                    THEN [children[p] EXCEPT ![i] = @ + 1]
                                    ELSE children[p]]

\* Mutant of Enter: the linked flag is not looked at.
EnterRelinks(i, frames) ==
  /\ Link(i)
  /\ stack' = Append(frames, [id |-> i, todo |-> refs[i] \intersect stored])
  /\ UNCHANGED status

\* Enter link_chunk for i: link it if need be, then go on to its parents.
Enter(i, frames) ==
  /\ IF i \in Linked THEN UNCHANGED <<order, parents, children>> ELSE Link(i)
  /\ stack' = Append(frames, [id |-> i, todo |-> Listed(parents', i)])
  /\ UNCHANGED status

TakeRoot(i) ==
  /\ status = "linking"
  /\ stack = <<>>
  /\ i \in roots
  /\ roots' = roots \ {i}
  /\ Enter(i, <<>>)
  /\ UNCHANGED <<stored, refs>>

\* Arc::ptr_eq(chunk, child): the walk is back at the root it started from.
IsRoot(p) == stack[1].id = p

VisitParent(p) ==
  /\ status = "linking"
  /\ stack # <<>>
  /\ p \in Last(stack).todo
  /\ \/ /\ IsRoot(p)
        /\ status' = "circular"
        /\ UNCHANGED <<order, parents, children, stack>>
     \/ /\ ~IsRoot(p)
        /\ Len(stack) = MaxDepth
        /\ status' = "overflow"
        /\ UNCHANGED <<order, parents, children, stack>>
     \/ /\ ~IsRoot(p)
        /\ Len(stack) < MaxDepth
        /\ Enter(p, Front(stack) \o
                    <<[Last(stack) EXCEPT !.todo = @ \ {p}]>>)
  /\ UNCHANGED <<stored, refs, roots>>

Return ==
  /\ status = "linking"
  /\ stack # <<>>
  /\ Last(stack).todo = {}
  /\ stack' = Front(stack)
  /\ UNCHANGED <<stored, refs, order, parents, children, roots, status>>

\* link_all's loop is through.
Finish ==
  /\ status = "linking"
  /\ stack = <<>>
  /\ roots = {}
  /\ status' = "linked"
  /\ UNCHANGED <<stored, refs, order, parents, children, roots, stack>>

Next == (\E i \in Ids : TakeRoot(i) \/ VisitParent(i)) \/ Return \/ Finish

\* One thread runs the start; it goes on as long as it can.
Spec == Init /\ [][Next]_vars /\ WF_vars(Next)

-----------------------------------------------------------------------------
(* Properties *)

\* The start of the server implements Linking: however the recursion runs, it
\* ends, with exactly the links of the texts when these have no cycle and with
\* a failure when they have.  The links count once all of them are made.
Abstract == INSTANCE Linking WITH
  up   <- [i \in Ids |-> IF status = "linked" THEN Listed(parents, i) ELSE {}],
  down <- [i \in Ids |-> IF status = "linked" THEN Listed(children, i) ELSE {}],
  outcome <- IF status \in {"circular", "overflow"} THEN "failed" ELSE status

Implements == Abstract!LSpec

\* Parents hear of every child once, but a child that was linked before its
\* parent, which is one met on the way up to it, lists that parent twice.
Before(i, p) == \E k, l \in DOMAIN order : k < l /\ order[k] = i /\ order[l] = p

ListedTwice ==
  \A i \in Linked : \A p \in refs[i] \intersect stored :
    /\ children[p][i] = 1
    /\ parents[i][p] = IF Before(i, p) THEN 2 ELSE 1
=============================================================================
