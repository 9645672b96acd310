----------------------------- MODULE ChunkAccess -----------------------------
(***************************************************************************)
(* Who may do what with a chunk (src/src/v1/db/db_chunk.rs and the Access  *)
(* type of src/src/v1/db/mod.rs).                                          *)
(*                                                                         *)
(* extract_access closes the set of grants it parses downwards: "admin"    *)
(* adds write and read, "write" adds read.  So the set of UserAccess pairs *)
(* of one principal is determined by the highest of them, and a chunk's    *)
(* grants are a function from principals to levels.  The owner's extra     *)
(* (owner, Owner) pair is kept in the chunk's owner field.                 *)
(***************************************************************************)
EXTENDS Naturals, FiniteSets

CONSTANTS Users,      \* the names that claims of a logged-in user can carry
          Public      \* the name "public" that every other request carries

ASSUME PublicAssumption == Public \notin Users

Principals == Users \union {Public}

None  == 0            \* no UserAccess pair for the principal
Read  == 1
Write == 2
Admin == 3

Levels   == None..Admin
Grants   == [Principals -> Levels]
NoGrants == [p \in Principals |-> None]

(***************************************************************************)
(* has_access: the owner has every access, the others what they were       *)
(* granted.                                                                *)
(***************************************************************************)
HasAccess(c, u, level) == u = c.owner \/ c.access[u] >= level

IsPublic(c) == c.access[Public] >= Read

\* get_chunk hands a chunk out to its readers, and to all when it is public.
VisibleTo(c, u) == HasAccess(c, u, Read) \/ IsPublic(c)

Grantees(g) == {p \in Principals : g[p] # None}

AccessUsers(c) == {c.owner} \union Grantees(c.access)

(***************************************************************************)
(* access_diff(Some(other)): the principals of the symmetric difference of *)
(* the two access sets.  Both chunks have the same owner where the code    *)
(* calls it, so the owner's pair cancels out.  access_diff(None) is        *)
(* AccessUsers.                                                            *)
(***************************************************************************)
AccessDiff(c, d) == {p \in Principals : c.access[p] # d.access[p]}

\* Mutant of MayUpdate: an admin may write themselves out.
MayUpdateAdminOut(old, new, u, sameOrder) ==
  \/ HasAccess(old, u, Admin)
  \/ /\ old.access[u] = Write
     /\ new.access = old.access
     /\ new.value.title = old.value.title
     /\ new.value.parents = old.value.parents
     /\ sameOrder

(***************************************************************************)
(* try_clone_to: may u replace chunk old by new?  "parents" is a JSON      *)
(* array filled from a HashSet, so for two or more parents two equal sets  *)
(* may be written in different orders: sameOrder says whether the arrays   *)
(* of old and new list equal sets equally.                                 *)
(***************************************************************************)
OrdersOf(v) == IF Cardinality(v.parents) < 2 THEN {TRUE} ELSE BOOLEAN

MayUpdate(old, new, u, sameOrder) ==
  \/ u = old.owner
  \/ /\ old.access[u] = Admin
     /\ HasAccess(new, u, Admin)
  \/ /\ old.access[u] = Write
     /\ new.access = old.access
     /\ new.value.title = old.value.title
     /\ new.value.parents = old.value.parents
     /\ sameOrder
=============================================================================
