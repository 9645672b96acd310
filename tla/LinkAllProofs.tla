---------------------------- MODULE LinkAllProofs ----------------------------
(***************************************************************************)
(* The start of the server makes the links that Linking promises, or fails *)
(* when it must, for every finite set of ids, every graph of parents and   *)
(* every order of the walk.                                                *)
(*                                                                         *)
(* The inductive invariant is Inv.  The frames of link_chunk are a path of *)
(* parents (Path), so a walk that is back at its root, or deeper than      *)
(* there are chunks, has found a circle.  The converse needs Done: the     *)
(* chunks that the walk has been through are closed under parents and hold *)
(* no circle, and in the end these are all that are stored.                *)
(***************************************************************************)
EXTENDS LinkAll, FiniteSetTheorems, SequenceTheorems, TLAPS

\* The stored parents of a chunk.
Ups(i) == refs[i] \intersect stored

Ground == \A i \in Ids : i \notin refs[i] /\ (i \notin stored => refs[i] = {})

\* What the lists say: those of the chunks that are linked, and no others.
Lists ==
  \A i, p \in Ids :
    /\ children[p][i] = IF i \in Linked /\ p \in Ups(i) THEN 1 ELSE 0
    /\ parents[i][p] = IF i \in Linked /\ p \in Ups(i)
                       THEN IF Before(i, p) THEN 2 ELSE 1
                       ELSE 0

\* The frames climb from a chunk to one of its parents.
Path ==
  \A k \in DOMAIN stack :
    /\ stack[k].todo \subseteq Ups(stack[k].id)
    /\ k < Len(stack) => stack[k + 1].id \in Ups(stack[k].id)

\* What was taken by link_all is linked.
Taken == stored \ roots \subseteq Linked

Closed(D)  == \A x \in D : Ups(x) \subseteq D
Acyclic(D) == \A S \in SUBSET D : S # {} => \E x \in S : Ups(x) \intersect S = {}

\* The walk has been through the chunks of D: they are all that link_all took,
\* but for the root of the walk that still runs, and all the parents of the
\* frames, but for those still to be visited and the one being visited.
Through(D) ==
  /\ Closed(D)
  /\ Acyclic(D)
  /\ \A i \in stored \ roots : i \in D \/ (stack # <<>> /\ i = stack[1].id)
  /\ \A k \in DOMAIN stack : \A p \in Ups(stack[k].id) :
       \/ p \in D
       \/ p \in stack[k].todo
       \/ k < Len(stack) /\ p = stack[k + 1].id

Done == \E D \in SUBSET Ids : Through(D)

Inv == TypeOK /\ Ground /\ Lists /\ Path /\ Taken /\ Done

Frames == [id : Ids, todo : SUBSET Ids]

-----------------------------------------------------------------------------
(* Sequences *)

LEMMA PushFacts ==
  ASSUME NEW S, NEW s \in Seq(S), NEW e \in S
  PROVE  /\ Append(s, e) \in Seq(S)
         /\ Len(Append(s, e)) = Len(s) + 1
         /\ Append(s, e)[Len(s) + 1] = e
         /\ \A k \in 1..Len(s) : Append(s, e)[k] = s[k]
  OBVIOUS

LEMMA FrontFacts ==
  ASSUME NEW S, NEW s \in Seq(S), s # <<>>
  PROVE  /\ Len(s) \in 1..Len(s) /\ Last(s) = s[Len(s)] /\ Last(s) \in S
         /\ Front(s) \in Seq(S)
         /\ Len(Front(s)) = Len(s) - 1
         /\ \A k \in 1..Len(Front(s)) : k \in 1..Len(s) /\ Front(s)[k] = s[k]
<1>1. Len(s) \in Nat /\ Len(s) > 0
  OBVIOUS
<1>2. PICK n \in Nat : n = Len(s) - 1
  BY <1>1
<1>3. \A k \in 1..n : s[k] \in S
  BY <1>1, <1>2
<1>4. /\ SubSeq(s, 1, n) \in Seq(S)
      /\ Len(SubSeq(s, 1, n)) = IF 1 <= n THEN n - 1 + 1 ELSE 0
      /\ \A k \in 1..(n - 1 + 1) : SubSeq(s, 1, n)[k] = s[1 + k - 1]
  BY <1>3, SubSeqProperties
<1>5. Front(s) = SubSeq(s, 1, n)
  BY <1>2 DEF Front
<1>6. /\ (IF 1 <= n THEN n - 1 + 1 ELSE 0) = n
      /\ 1..(n - 1 + 1) = 1..n
      /\ \A k \in 1..n : 1 + k - 1 = k
  OBVIOUS
<1>7. /\ Front(s) \in Seq(S) /\ Len(Front(s)) = n
      /\ \A k \in 1..n : Front(s)[k] = s[k]
  BY <1>4, <1>5, <1>6
<1>8. Last(s) = s[Len(s)] /\ Last(s) \in S
  BY <1>1 DEF Last
<1> QED
  BY <1>1, <1>2, <1>7, <1>8

\* A sequence with another last element.
LEMMA ChangeLastFacts ==
  ASSUME NEW S, NEW s \in Seq(S), s # <<>>, NEW e \in S
  PROVE  /\ Front(s) \o <<e>> \in Seq(S)
         /\ Len(Front(s) \o <<e>>) = Len(s)
         /\ (Front(s) \o <<e>>)[Len(s)] = e
         /\ \A k \in 1..(Len(s) - 1) : (Front(s) \o <<e>>)[k] = s[k]
<1>1. /\ Front(s) \in Seq(S) /\ Len(Front(s)) = Len(s) - 1
      /\ \A k \in 1..Len(Front(s)) : Front(s)[k] = s[k]
      /\ Len(s) \in Nat
  BY FrontFacts
<1>2. Front(s) \o <<e>> = Append(Front(s), e)
  BY <1>1
<1> QED
  BY <1>1, <1>2, PushFacts

-----------------------------------------------------------------------------
(* Linking one chunk *)

LEMMA OrderFacts ==
  ASSUME TypeOK, NEW i \in Ids, i \notin Linked, order' = Append(order, i)
  PROVE  /\ order' \in Seq(Ids)
         /\ Linked' = Linked \union {i}
         /\ \A c \in Linked : Before(c, i)'
         /\ \A c, p : p # i => (Before(c, p)' <=> Before(c, p))
         /\ \A c : ~Before(c, i) /\ ~Before(i, c)
<1>1. order \in Seq(Ids)
  BY DEF TypeOK
<1>2. /\ order' \in Seq(Ids) /\ Len(order') = Len(order) + 1
      /\ order'[Len(order) + 1] = i
      /\ \A k \in 1..Len(order) : order'[k] = order[k]
  BY <1>1, PushFacts
<1>3. /\ DOMAIN order = 1..Len(order) /\ DOMAIN order' = 1..(Len(order) + 1)
      /\ Len(order) \in Nat
  BY <1>1, <1>2
<1>4. \A k \in DOMAIN order : order[k] \in Linked /\ order[k] # i
  BY DEF Linked, Range
<1>5. Linked' = Linked \union {i}
  <2>1. Linked' \subseteq Linked \union {i}
    BY <1>2, <1>3 DEF Linked, Range
  <2>2. Linked \union {i} \subseteq Linked'
    BY <1>2, <1>3 DEF Linked, Range
  <2> QED
    BY <2>1, <2>2
<1>6. ASSUME NEW c \in Linked PROVE Before(c, i)'
  <2>1. PICK k \in DOMAIN order : order[k] = c
    BY DEF Linked, Range
  <2>2. /\ k \in DOMAIN order' /\ Len(order) + 1 \in DOMAIN order'
        /\ k < Len(order) + 1 /\ order'[k] = c
    BY <2>1, <1>2, <1>3
  <2> QED
    BY <2>2, <1>2 DEF Before
<1>7. ASSUME NEW c, NEW p, p # i PROVE Before(c, p)' <=> Before(c, p)
  <2>1. ASSUME Before(c, p)' PROVE Before(c, p)
    <3>1. PICK k, l \in DOMAIN order' : k < l /\ order'[k] = c /\ order'[l] = p
      BY <2>1 DEF Before
    <3>2. l \in DOMAIN order /\ k \in DOMAIN order
      BY <3>1, <1>2, <1>3, <1>7
    <3> QED
      BY <3>1, <3>2, <1>2, <1>3 DEF Before
  <2>2. ASSUME Before(c, p) PROVE Before(c, p)'
    <3>1. PICK k, l \in DOMAIN order : k < l /\ order[k] = c /\ order[l] = p
      BY <2>2 DEF Before
    <3>2. /\ l \in DOMAIN order' /\ k \in DOMAIN order'
          /\ order'[k] = c /\ order'[l] = p
      BY <3>1, <1>2, <1>3
    <3> QED
      BY <3>1, <3>2 DEF Before
  <2> QED
    BY <2>1, <2>2
<1>8. ASSUME NEW c PROVE ~Before(c, i) /\ ~Before(i, c)
  BY <1>4 DEF Before
<1> QED
  BY <1>2, <1>5, <1>6, <1>7, <1>8

LEMMA LinkFacts ==
  ASSUME TypeOK, Ground, Lists, NEW i \in Ids, i \notin Linked, Link(i),
         UNCHANGED <<stored, refs>>
  PROVE  /\ order' \in Seq(Ids)
         /\ parents' \in [Ids -> [Ids -> 0..2]]
         /\ children' \in [Ids -> [Ids -> 0..1]]
         /\ Lists'
         /\ Linked' = Linked \union {i}
<1> DEFINE kids == Listed(children, i)
<1>1. /\ order' = Append(order, i)
      /\ parents' = [c \in Ids |->
           CASE c = i -> [p \in Ids |-> IF p \in Ups(i) THEN 1 ELSE 0]
             [] c \in kids -> [parents[c] EXCEPT ![i] = @ + 1]
             [] OTHER -> parents[c]]
      /\ children' = [p \in Ids |-> IF p \in Ups(i)
                                    THEN [children[p] EXCEPT ![i] = @ + 1]
                                    ELSE children[p]]
  BY DEF Link, Ups
<1>2. /\ order' \in Seq(Ids)
      /\ Linked' = Linked \union {i}
      /\ \A c \in Linked : Before(c, i)'
      /\ \A c, p : p # i => (Before(c, p)' <=> Before(c, p))
      /\ \A c : ~Before(c, i) /\ ~Before(i, c)
  BY <1>1, OrderFacts
<1>3. \A c : Ups(c)' = Ups(c)
  BY DEF Ups
<1>4. i \notin Ups(i)
  BY DEF Ground, Ups
<1>5. \A c \in Ids : c \in kids <=> (c \in Linked /\ i \in Ups(c))
  BY DEF Lists, Listed
<1>6. /\ parents \in [Ids -> [Ids -> 0..2]] /\ children \in [Ids -> [Ids -> 0..1]]
  BY DEF TypeOK
<1> HIDE DEF kids
<1>7. ASSUME NEW c \in Ids, NEW p \in Ids
      PROVE  children'[p][c] = IF c \in Linked' /\ p \in Ups(c) THEN 1 ELSE 0
  <2>1. children[p][c] = IF c \in Linked /\ p \in Ups(c) THEN 1 ELSE 0
    BY DEF Lists
  <2>2. children'[p][c] = IF p \in Ups(i) /\ c = i THEN children[p][c] + 1 ELSE children[p][c]
    BY <1>1, <1>6
  <2>3. CASE c = i
    BY <2>1, <2>2, <2>3, <1>2
  <2>4. CASE c # i
    BY <2>1, <2>2, <2>4, <1>2
  <2> QED
    BY <2>3, <2>4
<1>8. ASSUME NEW c \in Ids, NEW p \in Ids
      PROVE  parents'[c][p] = IF c \in Linked' /\ p \in Ups(c)
                              THEN IF Before(c, p)' THEN 2 ELSE 1
                              ELSE 0
  <2>1. parents[c][p] = IF c \in Linked /\ p \in Ups(c)
                        THEN IF Before(c, p) THEN 2 ELSE 1
                        ELSE 0
    BY DEF Lists
  <2>2. CASE c = i
    <3>1. parents'[c][p] = IF p \in Ups(i) THEN 1 ELSE 0
      <4>1. c \notin kids
        BY <2>2, <1>5
      <4>2. parents'[c] = [x \in Ids |-> IF x \in Ups(i) THEN 1 ELSE 0]
        BY <2>2, <4>1, <1>1
      <4> QED
        BY <4>2
    <3>2. p \in Ups(i) => ~Before(c, p)'
      BY <2>2, <1>2, <1>4
    <3> QED
      BY <2>2, <3>1, <3>2, <1>2
  <2>3. CASE c # i /\ c \in kids
    <3>1. parents'[c] = [parents[c] EXCEPT ![i] = @ + 1]
      BY <2>3, <1>1
    <3>2. CASE p = i
      <4>1. parents[c][i] = 1 /\ c \in Linked /\ i \in Ups(c)
        BY <2>1, <2>3, <3>2, <1>2, <1>5
      <4>2. parents'[c][i] = 2
        BY <3>1, <4>1, <1>6
      <4> QED
        BY <3>2, <4>1, <4>2, <1>2
    <3>3. CASE p # i
      <4>1. parents'[c][p] = parents[c][p]
        BY <3>1, <3>3, <1>6
      <4>2. (c \in Linked' <=> c \in Linked) /\ (Before(c, p)' <=> Before(c, p))
        BY <2>3, <3>3, <1>2
      <4> QED
        BY <2>1, <4>1, <4>2
    <3> QED
      BY <3>2, <3>3
  <2>4. CASE c # i /\ c \notin kids
    <3>1. parents'[c] = parents[c]
      BY <2>4, <1>1
    <3>2. c \in Linked' <=> c \in Linked
      BY <2>4, <1>2
    <3>3. CASE p = i
      BY <2>1, <2>4, <3>1, <3>2, <3>3, <1>5
    <3>4. CASE p # i
      <4>1. Before(c, p)' <=> Before(c, p)
        BY <3>4, <1>2
      <4> QED
        BY <2>1, <3>1, <3>2, <4>1
    <3> QED
      BY <3>3, <3>4
  <2> QED
    BY <2>2, <2>3, <2>4
<1>9. Lists'
  BY <1>3, <1>7, <1>8 DEF Lists
<1>10. children' \in [Ids -> [Ids -> 0..1]]
  <2>1. \A p \in Ids : children'[p] \in [Ids -> 0..1]
    <3> SUFFICES ASSUME NEW p \in Ids PROVE children'[p] \in [Ids -> 0..1]
      OBVIOUS
    <3>1. children'[p] = [children[p] EXCEPT ![i] = @ + 1] \/ children'[p] = children[p]
      BY <1>1
    <3>2. \A c \in Ids : children'[p][c] \in 0..1
      BY <1>7
    <3> QED
      BY <3>1, <3>2, <1>6
  <2> QED
    BY <2>1, <1>1
<1>11. parents' \in [Ids -> [Ids -> 0..2]]
  <2>1. \A c \in Ids : parents'[c] \in [Ids -> 0..2]
    <3> SUFFICES ASSUME NEW c \in Ids PROVE parents'[c] \in [Ids -> 0..2]
      OBVIOUS
    <3>1. \/ parents'[c] = [p \in Ids |-> IF p \in Ups(i) THEN 1 ELSE 0]
          \/ parents'[c] = [parents[c] EXCEPT ![i] = @ + 1]
          \/ parents'[c] = parents[c]
      BY <1>1
    <3>2. \A p \in Ids : parents'[c][p] \in 0..2
      BY <1>8
    <3> QED
      BY <3>1, <3>2, <1>6
  <2> QED
    BY <2>1, <1>1
<1> QED
  BY <1>2, <1>9, <1>10, <1>11
-----------------------------------------------------------------------------
(* Entering a chunk *)

LEMMA EnterFacts ==
  ASSUME TypeOK, Ground, Lists, NEW i \in Ids, NEW frames, Enter(i, frames),
         UNCHANGED <<stored, refs>>
  PROVE  /\ order' \in Seq(Ids)
         /\ parents' \in [Ids -> [Ids -> 0..2]]
         /\ children' \in [Ids -> [Ids -> 0..1]]
         /\ Lists'
         /\ i \in Linked' /\ Linked \subseteq Linked'
         /\ stack' = Append(frames, [id |-> i, todo |-> Ups(i)])
         /\ status' = status
<1>1. CASE i \in Linked
  <2>1. UNCHANGED <<order, parents, children>>
    BY <1>1 DEF Enter
  <2>2. Lists' /\ Linked' = Linked
    BY <2>1 DEF Lists, Linked, Ups, Before
  <2> QED
    <3>1. Listed(parents', i) = Ups(i)
      <4>1. \A p \in Ids : parents'[i][p] > 0 <=> p \in Ups(i)
        BY <1>1, <2>1 DEF Lists
      <4>2. Ups(i) \subseteq Ids
        BY DEF Ups, TypeOK
      <4> QED
        BY <4>1, <4>2 DEF Listed
    <3> QED
      BY <1>1, <2>1, <2>2, <3>1 DEF Enter, TypeOK
<1>2. CASE i \notin Linked
  <2>1. Link(i)
    BY <1>2 DEF Enter
  <2>2. /\ order' \in Seq(Ids)
        /\ parents' \in [Ids -> [Ids -> 0..2]]
        /\ children' \in [Ids -> [Ids -> 0..1]]
        /\ Lists' /\ Linked' = Linked \union {i}
    BY <1>2, <2>1, LinkFacts
  <2>3. Listed(parents', i) = Ups(i)
    <3>1. \A p \in Ids : parents'[i][p] > 0 <=> p \in Ups(i)
      <4>1. Ups(i)' = Ups(i)
        BY DEF Ups
      <4> QED
        BY <2>2, <4>1 DEF Lists
    <3>2. Ups(i) \subseteq Ids
      BY DEF Ups, TypeOK
    <3> QED
      BY <3>1, <3>2 DEF Listed
  <2> QED
    BY <2>2, <2>3 DEF Enter
<1> QED
  BY <1>1, <1>2

\* A chunk whose parents the walk has been through adds no circle.
LEMMA AddOne ==
  ASSUME NEW D, Closed(D), Acyclic(D), NEW i, Ups(i) \subseteq D
  PROVE  Closed(D \union {i}) /\ Acyclic(D \union {i})
<1>1. Closed(D \union {i})
  BY DEF Closed
<1>2. CASE i \in D
  <2>1. D \union {i} = D
    BY <1>2
  <2> QED
    BY <1>1, <2>1
<1>3. CASE i \notin D
  <2> SUFFICES ASSUME NEW S \in SUBSET (D \union {i}), S # {},
                      \A x \in S : Ups(x) \intersect S # {}
               PROVE  FALSE
    BY <1>1 DEF Acyclic
  <2> DEFINE T == S \intersect D
  <2>1. \A x \in S : Ups(x) \intersect T # {}
    BY <1>3 DEF Closed
  <2>2. T \in SUBSET D /\ T # {}
    BY <2>1
  <2>3. \A x \in T : Ups(x) \intersect T # {}
    BY <2>1
  <2> HIDE DEF T
  <2> QED
    BY <2>2, <2>3 DEF Acyclic
<1> QED
  BY <1>2, <1>3

-----------------------------------------------------------------------------
(* The invariant *)

LEMMA InitInv == Init => Inv
<1> SUFFICES ASSUME Init PROVE Inv
  OBVIOUS
<1>1. Linked = {} /\ DOMAIN stack = {}
  BY DEF Init, Linked, Range
<1>2. TypeOK
  <2>1. /\ <<>> \in Seq(Ids) /\ <<>> \in Seq([id : Ids, todo : SUBSET Ids])
        /\ Nobody \in [Ids -> [Ids -> 0..2]] /\ Nobody \in [Ids -> [Ids -> 0..1]]
    BY DEF Nobody
  <2> QED
    BY <2>1 DEF Init, TypeOK
<1>3. Ground /\ Lists
  BY <1>1 DEF Init, Ground, Lists, Nobody
<1>4. Path /\ Taken
  BY <1>1 DEF Init, Path, Taken
<1>5. Through({})
  BY <1>1 DEF Init, Through, Closed, Acyclic
<1> QED
  BY <1>2, <1>3, <1>4, <1>5 DEF Inv, Done

LEMMA TakeRootStep ==
  ASSUME Inv, NEW i \in Ids, TakeRoot(i)
  PROVE  Inv'
<1>1. /\ TypeOK /\ Ground /\ Lists /\ Path /\ Taken /\ Done
  BY DEF Inv
<1>2. /\ stack = <<>> /\ roots' = roots \ {i} /\ Enter(i, <<>>) /\ i \in roots
      /\ UNCHANGED <<stored, refs>>
  BY DEF TakeRoot
<1>3. /\ order' \in Seq(Ids)
      /\ parents' \in [Ids -> [Ids -> 0..2]]
      /\ children' \in [Ids -> [Ids -> 0..1]]
      /\ Lists'
      /\ i \in Linked' /\ Linked \subseteq Linked'
      /\ stack' = Append(<<>>, [id |-> i, todo |-> Ups(i)])
      /\ status' = status
  BY <1>1, <1>2, EnterFacts
<1>4. \A x : Ups(x)' = Ups(x)
  BY <1>2 DEF Ups
<1>5. [id |-> i, todo |-> Ups(i)] \in Frames
  BY <1>1 DEF Frames, Ups, TypeOK
<1>6. /\ stack' \in Seq(Frames) /\ Len(stack') = 1 /\ DOMAIN stack' = {1}
      /\ stack'[1].id = i /\ stack'[1].todo = Ups(i)
  BY <1>3, <1>5
<1>7. TypeOK'
  BY <1>1, <1>2, <1>3, <1>6 DEF TypeOK, Frames
<1>8. Ground' /\ Taken'
  BY <1>1, <1>2, <1>3 DEF Ground, Taken
<1>9. Path'
  BY <1>4, <1>6 DEF Path
<1>10. Done'
  <2>1. PICK D \in SUBSET Ids : Through(D)
    BY <1>1 DEF Done
  <2>2. Closed(D)' /\ Acyclic(D)'
    BY <2>1, <1>4 DEF Through, Closed, Acyclic
  <2>3. \A x \in stored' \ roots' : x \in D \/ x = stack'[1].id
    BY <2>1, <1>2, <1>6 DEF Through
  <2>4. stack' # <<>>
    BY <1>3, <1>5
  <2>5. Through(D)'
    BY <2>2, <2>3, <2>4, <1>4, <1>6 DEF Through
  <2> QED
    BY <2>5 DEF Done
<1> QED
  BY <1>3, <1>7, <1>8, <1>9, <1>10 DEF Inv

LEMMA Top ==
  ASSUME Inv, stack # <<>>
  PROVE  /\ stack \in Seq(Frames) /\ DOMAIN stack = 1..Len(stack)
         /\ Len(stack) \in 1..Len(stack)
         /\ Last(stack) = stack[Len(stack)] /\ Last(stack) \in Frames
         /\ \A k \in DOMAIN stack : stack[k] \in Frames
<1>1. stack \in Seq(Frames)
  BY DEF Inv, TypeOK, Frames
<1> QED
  BY <1>1, FrontFacts

LEMMA VisitParentStep ==
  ASSUME Inv, NEW p \in Ids, VisitParent(p)
  PROVE  Inv'
<1>1. /\ TypeOK /\ Ground /\ Lists /\ Path /\ Taken /\ Done
  BY DEF Inv
<1>2. stack # <<>> /\ p \in Last(stack).todo /\ UNCHANGED <<stored, refs, roots>>
  BY DEF VisitParent
<1>3. \A x : Ups(x)' = Ups(x)
  BY <1>2 DEF Ups
<1>4. CASE UNCHANGED <<order, parents, children, stack>> /\ status' \in {"circular", "overflow"}
  <2>1. TypeOK' /\ Ground' /\ Taken'
    BY <1>1, <1>2, <1>4 DEF TypeOK, Ground, Taken, Linked
  <2>2. Lists' /\ Path'
    BY <1>1, <1>3, <1>4 DEF Lists, Path, Linked, Before
  <2>3. Done'
    BY <1>1, <1>2, <1>3, <1>4 DEF Done, Through, Closed, Acyclic
  <2> QED
    BY <2>1, <2>2, <2>3 DEF Inv
<1>5. CASE Enter(p, Front(stack) \o <<[Last(stack) EXCEPT !.todo = @ \ {p}]>>)
  <2>0. PICK n \in Nat : n = Len(stack)
    BY <1>1 DEF TypeOK
  <2> DEFINE top    == [Last(stack) EXCEPT !.todo = @ \ {p}]
             frames == Front(stack) \o <<top>>
             new    == [id |-> p, todo |-> Ups(p)]
  <2>1. /\ order' \in Seq(Ids)
        /\ parents' \in [Ids -> [Ids -> 0..2]]
        /\ children' \in [Ids -> [Ids -> 0..1]]
        /\ Lists'
        /\ p \in Linked' /\ Linked \subseteq Linked'
        /\ stack' = Append(frames, new)
        /\ status' = status
    BY <1>1, <1>2, <1>5, EnterFacts
  <2>2. /\ stack \in Seq(Frames) /\ Len(stack) = n
        /\ DOMAIN stack = 1..n /\ n \in 1..n
        /\ Last(stack) = stack[n] /\ stack[n] \in Frames
    BY <1>2, <2>0, Top
  <2>3. /\ top \in Frames /\ top.id = stack[n].id /\ top.todo = stack[n].todo \ {p}
    BY <2>2 DEF Frames
  <2>4. new \in Frames /\ new.id = p /\ new.todo = Ups(p)
    BY <1>1 DEF Frames, Ups, TypeOK
  <2> HIDE DEF top, new
  <2>5. /\ frames \in Seq(Frames) /\ Len(frames) = n /\ frames[n] = top
        /\ \A k \in 1..(n - 1) : frames[k] = stack[k]
    BY <1>2, <2>2, <2>3, ChangeLastFacts
  <2> HIDE DEF frames
  <2>6. /\ stack' \in Seq(Frames) /\ Len(stack') = n + 1
        /\ stack'[n + 1] = new
        /\ \A k \in 1..n : stack'[k] = frames[k]
    BY <2>1, <2>4, <2>5, PushFacts
  <2>7. /\ DOMAIN stack' = 1..(n + 1)
        /\ stack'[n + 1].id = p /\ stack'[n + 1].todo = Ups(p)
        /\ stack'[n].id = stack[n].id /\ stack'[n].todo = stack[n].todo \ {p}
        /\ \A k \in 1..(n - 1) : stack'[k] = stack[k]
    <3>1. \A k \in 1..(n - 1) : k \in 1..n
      BY <2>2
    <3> QED
      BY <2>2, <2>3, <2>4, <2>5, <2>6, <3>1
  <2>8. TypeOK'
    BY <1>1, <1>2, <2>1, <2>6 DEF TypeOK, Frames
  <2>9. Ground' /\ Taken'
    BY <1>1, <1>2, <2>1 DEF Ground, Taken
  <2>10. \A k \in 1..(n + 1) : k = n + 1 \/ k = n \/ (k \in 1..(n - 1) /\ k + 1 \in 1..n)
    BY <2>2
  <2>11. \A k \in 1..n : stack'[k].id = stack[k].id
    BY <2>2, <2>7, <2>10
  <2>12. Path'
    <3> SUFFICES ASSUME NEW k \in 1..(n + 1)
                 PROVE  /\ stack'[k].todo \subseteq Ups(stack'[k].id)
                        /\ k < n + 1 => stack'[k + 1].id \in Ups(stack'[k].id)
      BY <1>3, <2>6, <2>7 DEF Path
    <3>1. CASE k = n + 1
      BY <2>2, <2>7, <3>1
    <3>2. CASE k = n
      <4>1. stack[n].todo \subseteq Ups(stack[n].id)
        BY <1>1, <2>2 DEF Path
      <4> QED
        BY <1>2, <2>2, <2>7, <3>2, <4>1
    <3>3. CASE k \in 1..(n - 1) /\ k + 1 \in 1..n
      <4>1. /\ k \in DOMAIN stack /\ k < n
            /\ stack[k].todo \subseteq Ups(stack[k].id)
            /\ stack[k + 1].id \in Ups(stack[k].id)
        BY <1>1, <2>2, <3>3 DEF Path
      <4> QED
        BY <2>7, <2>11, <3>3, <4>1
    <3> QED
      BY <2>10, <3>1, <3>2, <3>3
  <2>13. Done'
    <3>1. PICK D \in SUBSET Ids : Through(D)
      BY <1>1 DEF Done
    <3>2. Closed(D)' /\ Acyclic(D)'
      BY <3>1, <1>3 DEF Through, Closed, Acyclic
    <3>3. \A x \in stored' \ roots' : x \in D \/ (stack' # <<>> /\ x = stack'[1].id)
      <4>1. 1 \in 1..n /\ stack' # <<>>
        BY <2>2, <2>6
      <4> QED
        BY <3>1, <4>1, <1>2, <2>11 DEF Through
    <3>4. ASSUME NEW k \in 1..(n + 1), NEW q \in Ups(stack'[k].id)
          PROVE  \/ q \in D
                 \/ q \in stack'[k].todo
                 \/ k < n + 1 /\ q = stack'[k + 1].id
      <4>1. CASE k = n + 1
        BY <2>7, <3>4, <4>1
      <4>2. CASE k = n
        <5>1. q \in D \/ q \in stack[n].todo
          BY <2>2, <2>7, <3>1, <3>4, <4>2 DEF Through
        <5> QED
          BY <2>2, <2>7, <4>2, <5>1
      <4>3. CASE k \in 1..(n - 1) /\ k + 1 \in 1..n
        <5>1. /\ k \in DOMAIN stack /\ stack'[k] = stack[k]
              /\ stack'[k + 1].id = stack[k + 1].id /\ k < n + 1
          BY <2>2, <2>7, <2>11, <4>3
        <5>2. q \in D \/ q \in stack[k].todo \/ q = stack[k + 1].id
          BY <3>1, <3>4, <5>1 DEF Through
        <5> QED
          BY <5>1, <5>2
      <4> QED
        BY <2>10, <4>1, <4>2, <4>3
    <3>5. Through(D)'
      BY <1>3, <2>6, <2>7, <3>2, <3>3, <3>4 DEF Through
    <3> QED
      BY <3>5 DEF Done
  <2> QED
    BY <2>1, <2>8, <2>9, <2>12, <2>13 DEF Inv
<1> QED
  BY <1>4, <1>5 DEF VisitParent
LEMMA ReturnStep ==
  ASSUME Inv, Return
  PROVE  Inv'
<1>1. /\ TypeOK /\ Ground /\ Lists /\ Path /\ Taken /\ Done
  BY DEF Inv
<1>2. /\ stack # <<>> /\ Last(stack).todo = {} /\ stack' = Front(stack)
      /\ UNCHANGED <<stored, refs, order, parents, children, roots, status>>
  BY DEF Return
<1>3. \A x : Ups(x)' = Ups(x)
  BY <1>2 DEF Ups
<1>4. PICK n \in Nat : n = Len(stack)
  BY <1>1 DEF TypeOK
<1>5. /\ stack \in Seq(Frames) /\ DOMAIN stack = 1..n /\ n \in 1..n
      /\ Last(stack) = stack[n] /\ stack[n] \in Frames
  BY <1>2, <1>4, Top
<1>6. /\ stack' \in Seq(Frames) /\ Len(stack') = n - 1 /\ DOMAIN stack' = 1..(n - 1)
      /\ \A k \in 1..(n - 1) : k \in 1..n /\ stack'[k] = stack[k]
  <2>1. /\ Front(stack) \in Seq(Frames) /\ Len(Front(stack)) = n - 1
        /\ \A k \in 1..(n - 1) : k \in 1..n /\ Front(stack)[k] = stack[k]
    BY <1>2, <1>4, <1>5, FrontFacts
  <2> QED
    BY <1>2, <2>1
<1>7. TypeOK' /\ Ground' /\ Taken'
  BY <1>1, <1>2, <1>6 DEF TypeOK, Ground, Taken, Linked, Frames
<1>8. Lists'
  BY <1>1, <1>2, <1>3 DEF Lists, Linked, Before
<1>9. Path'
  <2> SUFFICES ASSUME NEW k \in 1..(n - 1)
               PROVE  /\ stack'[k].todo \subseteq Ups(stack'[k].id)
                      /\ k < n - 1 => stack'[k + 1].id \in Ups(stack'[k].id)
    BY <1>3, <1>6 DEF Path
  <2>1. k \in DOMAIN stack /\ k < Len(stack) /\ stack'[k] = stack[k]
    BY <1>4, <1>5, <1>6
  <2>2. k < n - 1 => k + 1 \in 1..(n - 1)
    OBVIOUS
  <2> QED
    BY <2>1, <2>2, <1>1, <1>6 DEF Path
<1>10. Done'
  <2>1. PICK D \in SUBSET Ids : Through(D)
    BY <1>1 DEF Done
  <2>2. PICK i \in Ids : i = stack[n].id
    BY <1>5 DEF Frames
  <2>3. Ups(i) \subseteq D
    BY <1>2, <1>4, <1>5, <2>1, <2>2 DEF Through
  <2>4. Closed(D \union {i}) /\ Acyclic(D \union {i})
    BY <2>1, <2>3, AddOne DEF Through
  <2>5. Closed(D \union {i})' /\ Acyclic(D \union {i})'
    BY <2>4, <1>3 DEF Closed, Acyclic
  <2>6. \A x \in stored' \ roots' :
          x \in D \union {i} \/ (stack' # <<>> /\ x = stack'[1].id)
    <3> SUFFICES ASSUME NEW x \in stored \ roots, x \notin D \union {i}
                 PROVE  stack' # <<>> /\ x = stack'[1].id
      BY <1>2
    <3>1. x = stack[1].id
      BY <2>1 DEF Through
    <3>2. n # 1 /\ 1 \in 1..(n - 1)
      BY <2>2, <3>1, <1>5
    <3> QED
      BY <3>1, <3>2, <1>6
  <2>7. ASSUME NEW k \in 1..(n - 1), NEW q \in Ups(stack'[k].id)
        PROVE  \/ q \in D \union {i}
               \/ q \in stack'[k].todo
               \/ k < n - 1 /\ q = stack'[k + 1].id
    <3>1. /\ k \in DOMAIN stack /\ stack'[k] = stack[k]
          /\ k = n - 1 \/ (k < n - 1 /\ k + 1 \in 1..(n - 1))
      BY <1>5, <1>6
    <3>2. q \in D \/ q \in stack[k].todo \/ q = stack[k + 1].id
      BY <2>1, <2>7, <3>1 DEF Through
    <3>3. CASE k = n - 1
      BY <3>1, <3>2, <3>3, <2>2
    <3>4. CASE k < n - 1 /\ k + 1 \in 1..(n - 1)
      BY <3>1, <3>2, <3>4, <1>6
    <3> QED
      BY <3>1, <3>3, <3>4
  <2>8. Through(D \union {i})'
    BY <1>3, <1>6, <2>5, <2>6, <2>7 DEF Through
  <2> QED
    BY <2>8 DEF Done
<1> QED
  BY <1>7, <1>8, <1>9, <1>10 DEF Inv

LEMMA Stays ==
  ASSUME Inv, UNCHANGED <<stored, refs, order, parents, children, roots, stack>>,
         status' \in {"linking", "linked", "circular", "overflow"}
  PROVE  Inv'
<1>1. TypeOK' /\ Ground' /\ Taken'
  BY DEF Inv, TypeOK, Ground, Taken, Linked
<1>2. \A x : Ups(x)' = Ups(x)
  BY DEF Ups
<1>3. Lists' /\ Path'
  BY <1>2 DEF Inv, Lists, Path, Linked, Before
<1>4. Done'
  BY <1>2 DEF Inv, Done, Through, Closed, Acyclic
<1> QED
  BY <1>1, <1>3, <1>4 DEF Inv

LEMMA Step == Inv /\ [Next]_vars => Inv'
<1> SUFFICES ASSUME Inv, [Next]_vars PROVE Inv'
  OBVIOUS
<1>1. ASSUME NEW i \in Ids, TakeRoot(i) PROVE Inv'
  BY <1>1, TakeRootStep
<1>2. ASSUME NEW i \in Ids, VisitParent(i) PROVE Inv'
  BY <1>2, VisitParentStep
<1>3. CASE Return
  BY <1>3, ReturnStep
<1>4. CASE Finish
  BY <1>4, Stays DEF Finish
<1>5. CASE UNCHANGED vars
  BY <1>5, Stays DEF vars, Inv, TypeOK
<1> QED
  BY <1>1, <1>2, <1>3, <1>4, <1>5 DEF Next

LEMMA Invariance == Spec => []Inv
  BY InitInv, Step, PTL DEF Spec

-----------------------------------------------------------------------------
(* Theorems about the walk *)

\* link_chunk's state keeps its shape: no list ever names a chunk more than
\* twice, or a child more than once.
THEOREM TypeCorrect == Spec => []TypeOK
<1>1. Inv => TypeOK
  BY DEF Inv
<1> QED
  BY <1>1, Invariance, PTL

\* A parent hears of each child once; a child that was linked before its parent
\* lists it twice, and any other child lists it once.
THEOREM ParentsListedTwice == Spec => []ListedTwice
<1>1. Inv => ListedTwice
  <2> SUFFICES ASSUME Inv, NEW i \in Linked, NEW p \in refs[i] \intersect stored
               PROVE  /\ children[p][i] = 1
                      /\ parents[i][p] = IF Before(i, p) THEN 2 ELSE 1
    BY DEF ListedTwice
  <2>1. i \in Ids /\ p \in Ids /\ p \in Ups(i)
    BY DEF Inv, TypeOK, Linked, Range, Ups
  <2> QED
    BY <2>1 DEF Inv, Lists
<1> QED
  BY <1>1, Invariance, PTL

-----------------------------------------------------------------------------
(* The walk implements Linking *)

LEMMA NamedIs ==
  ASSUME Inv
  PROVE  /\ Abstract!Named = [i \in Ids |-> Ups(i)]
         /\ \A i \in Ids : Ups(i) \subseteq Ids /\ (i \notin stored => Ups(i) = {})
  BY DEF Inv, Ground, TypeOK, Ups, Abstract!Named

\* Back at the root: the frames are a circle.
LEMMA BackAtRoot ==
  ASSUME Inv, NEW p, stack # <<>>, p \in Last(stack).todo, IsRoot(p)
  PROVE  Abstract!Circular
<1>1. PICK n \in Nat : n = Len(stack)
  BY DEF Inv, TypeOK
<1>2. /\ DOMAIN stack = 1..n /\ n \in 1..n /\ 1 \in 1..n
      /\ Last(stack) = stack[n]
      /\ \A k \in 1..n : stack[k].id \in Ids
  BY <1>1, Top DEF Frames
<1> DEFINE S == {stack[k].id : k \in 1..n}
<1>3. S \in SUBSET Ids /\ stack[1].id \in S
  BY <1>2
<1>4. \A k \in 1..n : Ups(stack[k].id) \intersect S # {}
  <2> SUFFICES ASSUME NEW k \in 1..n PROVE Ups(stack[k].id) \intersect S # {}
    OBVIOUS
  <2>1. CASE k = n
    <3>1. p \in Ups(stack[n].id) /\ p = stack[1].id
      BY <1>2 DEF Inv, Path, IsRoot
    <3> QED
      BY <2>1, <3>1, <1>3
  <2>2. CASE k # n
    <3>1. k + 1 \in 1..n /\ k < n
      BY <2>2
    <3>2. stack[k + 1].id \in Ups(stack[k].id)
      BY <3>1, <1>1, <1>2 DEF Inv, Path
    <3> QED
      BY <3>1, <3>2
  <2> QED
    BY <2>1, <2>2
<1>5. \A x \in S : Abstract!Named[x] \intersect S # {}
  <2> SUFFICES ASSUME NEW k \in 1..n
               PROVE  Abstract!Named[stack[k].id] \intersect S # {}
    OBVIOUS
  <2>1. Abstract!Named[stack[k].id] = Ups(stack[k].id)
    BY <1>2, NamedIs
  <2> HIDE DEF S
  <2> QED
    BY <2>1, <1>4
<1> QED
  BY <1>3, <1>5 DEF Abstract!Circular

\* Deeper than there are chunks: some chunk has two frames, and those from the
\* one to the other are a circle.
LEMMA TooDeep ==
  ASSUME Inv, Len(stack) = MaxDepth, stack # <<>>
  PROVE  Abstract!Circular
<1>1. PICK n \in Nat : n = Len(stack)
  BY DEF Inv, TypeOK
<1>2. /\ DOMAIN stack = 1..n
      /\ \A k \in 1..n : stack[k].id \in Ids
  BY <1>1, Top DEF Frames
<1> DEFINE f == [k \in 1..n |-> stack[k].id]
<1>3. PICK x, y \in 1..n : x # y /\ f[x] = f[y]
  <2>1. IsFiniteSet(1..n) /\ Cardinality(1..n) = n
    BY <1>1, FS_Interval
  <2>2. f \in [1..n -> Ids]
    BY <1>2
  <2>3. IsFiniteSet(Ids) /\ Cardinality(Ids) < Cardinality(1..n)
    BY <1>1, <2>1, DepthAssumption, FS_CardinalityType
  <2> HIDE DEF f
  <2> QED
    BY <2>1, <2>2, <2>3, FS_PigeonHole
<1>4. PICK k, l \in 1..n : k < l /\ stack[k].id = stack[l].id
  BY <1>3
<1> DEFINE S == {stack[j].id : j \in k..(l - 1)}
<1>5. S \in SUBSET Ids /\ stack[k].id \in S
  BY <1>2, <1>4
<1>6. \A j \in k..(l - 1) : Ups(stack[j].id) \intersect S # {}
  <2> SUFFICES ASSUME NEW j \in k..(l - 1) PROVE Ups(stack[j].id) \intersect S # {}
    OBVIOUS
  <2>1. j \in 1..n /\ j < n /\ (j + 1 \in k..(l - 1) \/ j + 1 = l)
    BY <1>4
  <2>2. stack[j + 1].id \in Ups(stack[j].id)
    BY <2>1, <1>1, <1>2 DEF Inv, Path
  <2>3. stack[j + 1].id \in S
    BY <2>1, <1>4, <1>5
  <2> QED
    BY <2>2, <2>3
<1>7. \A z \in S : Abstract!Named[z] \intersect S # {}
  <2> SUFFICES ASSUME NEW j \in k..(l - 1)
               PROVE  Abstract!Named[stack[j].id] \intersect S # {}
    OBVIOUS
  <2>1. j \in 1..n
    BY <1>4
  <2>2. Abstract!Named[stack[j].id] = Ups(stack[j].id)
    BY <2>1, <1>2, NamedIs
  <2> HIDE DEF S
  <2> QED
    BY <2>2, <1>6
<1> QED
  BY <1>5, <1>7 DEF Abstract!Circular

\* The walk is through: there is no circle, and the links are those of the texts.
LEMMA AllLinked ==
  ASSUME Inv, stack = <<>>, roots = {}
  PROVE  /\ ~Abstract!Circular
         /\ [i \in Ids |-> Listed(parents, i)] = Abstract!Named
         /\ [p \in Ids |-> Listed(children, p)] =
              [p \in Ids |-> {i \in Ids : p \in Abstract!Named[i]}]
<1>1. PICK D \in SUBSET Ids : Through(D)
  BY DEF Inv, Done
<1>2. stored \subseteq D /\ stored \subseteq Linked
  BY <1>1 DEF Through, Inv, Taken
<1>3. ~Abstract!Circular
  <2> SUFFICES ASSUME NEW S \in (SUBSET Ids) \ {{}},
                      \A x \in S : Abstract!Named[x] \intersect S # {}
               PROVE  FALSE
    BY DEF Abstract!Circular
  <2>1. \A x \in S : Ups(x) \intersect S # {}
    BY NamedIs
  <2>2. S \in SUBSET D
    BY <2>1, <1>2, NamedIs
  <2> QED
    BY <2>1, <2>2, <1>1 DEF Through, Acyclic
<1>4. \A i, p \in Ids : /\ parents[i][p] > 0 <=> p \in Ups(i)
                        /\ children[p][i] > 0 <=> p \in Ups(i)
  <2> SUFFICES ASSUME NEW i \in Ids, NEW p \in Ids
               PROVE  /\ parents[i][p] > 0 <=> p \in Ups(i)
                      /\ children[p][i] > 0 <=> p \in Ups(i)
    OBVIOUS
  <2>1. p \in Ups(i) => i \in Linked
    BY <1>2, NamedIs
  <2> QED
    BY <2>1 DEF Inv, Lists
<1>5. \A i \in Ids : Listed(parents, i) = Ups(i)
  BY <1>4, NamedIs DEF Listed
<1>6. \A p \in Ids : Listed(children, p) = {i \in Ids : p \in Ups(i)}
  BY <1>4 DEF Listed
<1> QED
  BY <1>3, <1>5, <1>6, NamedIs

LEMMA MapsInit == Init => Abstract!LInit
  BY DEF Init, Abstract!LInit

LEMMA MapsStep == Inv /\ [Next]_vars => [Abstract!LNext]_(Abstract!lvars)
<1> SUFFICES ASSUME Inv, [Next]_vars PROVE [Abstract!LNext]_(Abstract!lvars)
  OBVIOUS
<1>1. CASE UNCHANGED <<stored, refs>> /\ status = "linking" /\ status' = "linking"
  BY <1>1 DEF Abstract!lvars
<1>2. ASSUME NEW i \in Ids, TakeRoot(i)
      PROVE  [Abstract!LNext]_(Abstract!lvars)
  BY <1>1, <1>2 DEF TakeRoot, Enter
<1>3. ASSUME NEW p \in Ids, VisitParent(p)
      PROVE  [Abstract!LNext]_(Abstract!lvars)
  <2>1. /\ status = "linking" /\ stack # <<>> /\ p \in Last(stack).todo
        /\ UNCHANGED <<stored, refs, roots>>
    BY <1>3 DEF VisitParent
  <2>2. CASE status' \in {"circular", "overflow"} /\ Abstract!Circular
    BY <2>1, <2>2 DEF Abstract!LNext, Abstract!Failed
  <2>3. CASE IsRoot(p) /\ status' = "circular"
    BY <2>1, <2>2, <2>3, BackAtRoot
  <2>4. CASE Len(stack) = MaxDepth /\ status' = "overflow"
    BY <2>1, <2>2, <2>4, TooDeep
  <2>5. CASE status' = status
    BY <2>1, <2>5, <1>1
  <2> QED
    BY <1>3, <2>3, <2>4, <2>5 DEF VisitParent, Enter
<1>4. CASE Return
  BY <1>1, <1>4 DEF Return
<1>5. CASE Finish
  <2>1. /\ status = "linking" /\ status' = "linked" /\ stack = <<>> /\ roots = {}
        /\ UNCHANGED <<stored, refs, parents, children>>
    BY <1>5 DEF Finish
  <2>2. /\ ~Abstract!Circular
        /\ [i \in Ids |-> Listed(parents, i)] = Abstract!Named
        /\ [p \in Ids |-> Listed(children, p)] =
             [p \in Ids |-> {i \in Ids : p \in Abstract!Named[i]}]
    BY <2>1, AllLinked
  <2>3. /\ [i \in Ids |-> IF status' = "linked" THEN Listed(parents', i) ELSE {}]
             = [i \in Ids |-> Listed(parents, i)]
        /\ [i \in Ids |-> IF status' = "linked" THEN Listed(children', i) ELSE {}]
             = [i \in Ids |-> Listed(children, i)]
    BY <2>1
  <2> QED
    BY <2>1, <2>2, <2>3 DEF Abstract!LNext, Abstract!LinkedAll
<1>6. CASE UNCHANGED vars
  BY <1>6 DEF vars, Abstract!lvars
<1> QED
  BY <1>2, <1>3, <1>4, <1>5, <1>6 DEF Next

\* Every run of the start, whatever the texts name and in whichever order the
\* chunks and their parents are taken, is one of Linking: the links appear all
\* at once and are those of the texts, which have no circle, or the start fails
\* and they have one.  That the start does end is left to the run.
THEOREM StartLinks == Spec => Abstract!LInit /\ [][Abstract!LNext]_(Abstract!lvars)
  BY MapsInit, MapsStep, Invariance, PTL DEF Spec
===============================================================================
