------------------------------ MODULE MCChunkDB ------------------------------
(***************************************************************************)
(* Instances of ChunkDB for TLC: which texts the clients write.            *)
(***************************************************************************)
EXTENDS ChunkDB, TLC

CONSTANTS a, b, c,      \* ids
          o1,           \* a place for an old version
          ann, bob, eve, \* users
          T1, T2        \* titles

Text(title, ups, share, tail) ==
  [title |-> title, parents |-> ups, share |-> share, tail |-> tail]

Share(u, level) == [NoGrants EXCEPT ![u] = level]

\* Any graph over the ids, nothing shared.
GraphTexts == {Text(T1, ups, NoGrants, FALSE) : ups \in SUBSET Ids}

\* A note shared in all the ways, with a tail or without; another title or
\* parent where a writer must not change them; texts that close a circle.
AccessTexts ==
  {Text(T1, {}, share, FALSE) :
     share \in {NoGrants, Share(bob, Write), Share(bob, Admin)}}
  \union {Text(T1, {}, [Share(eve, Read) EXCEPT ![bob] = Write], tail) : tail \in BOOLEAN}
  \union {Text(T2, {}, Share(bob, Write), FALSE),
          Text(T1, {a}, Share(bob, Write), FALSE),
          Text(T1, {b}, NoGrants, FALSE),
          Text(T1, {}, Share(Public, Read), TRUE)}

\* Notes that a reader sees, under any one note or none, whose views are cached;
\* and notes hidden from the reader, under two others or none.
LinkTexts ==
  {Text(T1, ups, Share(bob, Read), FALSE) : ups \in {{}, {a}, {b}, {c}}}
  \union {Text(T1, ups, NoGrants, FALSE) : ups \in {{}, {a, b}, {a, c}, {b, c}}}

\* The links mean the same whatever the ids are called, and whatever the call
\* before has answered.
Symmetry == Permutations(Ids)
View == <<store, now, status, del.user, del.todo, del.remove>>

\* Bounds: lists run before the first second is over and while nothing is
\* cached; what a reader owns is not followed.
Bounds == /\ held # {} => now = 0 /\ \A n \in Nodes : cache[n] = Empty
          /\ \A i \in live : chunk[i].owner = ann
=============================================================================
