------------------------------- MODULE Linking -------------------------------
(***************************************************************************)
(* What the start of the server promises about the links of the chunks it  *)
(* has read: in one step every chunk is linked to the parents that its     *)
(* text names and that are stored, both ways, or the start fails.  ChunkDB *)
(* takes this step for granted (Restart); LinkAll shows how the code makes *)
(* it.                                                                     *)
(***************************************************************************)
EXTENDS FiniteSets

CONSTANT Ids

VARIABLES stored,     \* the ids of the chunks that were read
          refs,       \* the ids that the texts of the chunks name as parents
          up,         \* chunk -> linked parents
          down,       \* chunk -> linked children
          outcome     \* "linking", "linked" or "failed"

lvars == <<stored, refs, up, down, outcome>>

Named == [i \in Ids |-> IF i \in stored THEN refs[i] \intersect stored ELSE {}]

Circular == \E S \in (SUBSET Ids) \ {{}} : \A x \in S : Named[x] \intersect S # {}

LInit ==
  /\ stored \in SUBSET Ids
  /\ refs \in [Ids -> SUBSET Ids]
  /\ \A i \in Ids : i \notin refs[i]
  /\ up = [i \in Ids |-> {}]
  /\ down = [i \in Ids |-> {}]
  /\ outcome = "linking"

LinkedAll ==
  /\ outcome = "linking"
  /\ ~Circular
  /\ up' = Named
  /\ down' = [p \in Ids |-> {i \in Ids : p \in Named[i]}]
  /\ outcome' = "linked"
  /\ UNCHANGED <<stored, refs>>

Failed ==
  /\ outcome = "linking"
  /\ Circular
  /\ outcome' = "failed"
  /\ UNCHANGED <<stored, refs, up, down>>

LNext == LinkedAll \/ Failed

LSpec == LInit /\ [][LNext]_lvars /\ WF_lvars(LNext)
=============================================================================
