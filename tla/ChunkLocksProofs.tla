--------------------------- MODULE ChunkLocksProofs ---------------------------
(***************************************************************************)
(* Who can wait for whom, for every finite graph of chunks without a cycle *)
(* and every set of requests.                                              *)
(*                                                                         *)
(* The inductive invariant Inv says how the frames of a request lie in the *)
(* graph: a frame that can still move goes to a child of its chunk, and    *)
(* then none of the frames under it is deeper, or to a parent, and then    *)
(* none of them is higher.  So a request never waits for a chunk it has    *)
(* locked itself, and requests that all wait downwards, or all upwards,    *)
(* cannot wait for each other in a circle.                                 *)
(***************************************************************************)
EXTENDS ChunkLocks, FiniteSetTheorems, SequenceTheorems, WellFoundedInduction, TLAPS

\* How deep the chunks are: a child is deeper than all of its parents.
Depth == CHOOSE depth \in [Chunks -> 0..Cardinality(Chunks)] :
           \A c \in Chunks : \A p \in Up[c] : depth[p] < depth[c]

AnyMove == [to : Chunks, way : Ways]
Frames  == [at : Chunks \union {Nobody}, moves : Seq(AnyMove)]

\* What a request of this kind does from its bottom frame.
WaysOf(what) ==
  {"alone"}
  \union (IF what = "notes" THEN {"drop", "past"} ELSE {})
  \union (IF what \in {"view", "well", "write"} THEN {"view", "peek", "crest", "down"} ELSE {})
  \union (IF what \in {"write", "delete"} THEN {"try", "up", "insert", "remove"} ELSE {})

Plan(what) == [to : Chunks, way : WaysOf(what)]

\* A move from the chunk c to a relative, when the chunks of g are gone.
Falls(g, c, m) == m.to \in Chunks \ g /\ c \in Up[m.to] /\ m.way \in {"alone", "down"}
Rises(g, c, m) == m.to \in Up[c] \ g /\ m.way \in {"alone", "up"}

\* The moves from the chunk c lead away from the first n frames.
Leads(g, fs, n, c, moves) ==
  \A l \in DOMAIN moves :
    \/ Falls(g, c, moves[l]) /\ \A j \in 2..n : Depth[fs[j].at] <= Depth[c]
    \/ Rises(g, c, moves[l]) /\ \A j \in 2..n : Depth[fs[j].at] >= Depth[c]

\* Those of the k-th frame lead away from the frames under it.
Heads(g, fs, k) == Leads(g, fs, k, fs[k].at, fs[k].moves)

\* These requests look at one chunk at a time.
Flat == {"read", "list", "notes"}

Framed(g, fs, what) ==
  /\ fs \in Seq(Frames)
  /\ fs # <<>> => fs[1].at = Nobody /\ fs[1].moves \in Seq(Plan(what))
  /\ \A k \in 2..Len(fs) : fs[k].at \in Chunks /\ Heads(g, fs, k)
  /\ what \in Flat => \A k \in 2..Len(fs) : k = 2 /\ fs[k].moves = <<>>
  /\ \A j, k \in 2..Len(fs) : fs[j].at = fs[k].at => j = k

\* The guard that a request of this kind has while it runs.
GuardsOf(what) ==
  IF what = "notes" THEN {"none", "write"}
  ELSE IF what \in {"view", "read", "well"} THEN {"read"} ELSE {"write"}

Good(r) ==
  /\ kind[r] \in Kinds \union {"none"}
  /\ Framed(gone, stack[r], kind[r])
  /\ stack[r] = <<>> => guard[r] = "none"
  /\ stack[r] # <<>> => kind[r] \in Kinds /\ guard[r] \in GuardsOf(kind[r])

Exclusive == \A r, s \in Requests : guard[r] = "write" /\ s # r => guard[s] = "none"

Holds ==
  /\ \A c \in Chunks : holder[c] # Nobody =>
       \E k \in 2..Len(stack[holder[c]]) : stack[holder[c]][k].at = c
  /\ \A r \in Requests : kind[r] # "notes" =>
       \A k \in 2..Len(stack[r]) : holder[stack[r][k].at] = r

Shape ==
  /\ kind \in [Requests -> Kinds \union {"none"}]
  /\ guard \in [Requests -> {"none", "read", "write"}]
  /\ stack \in [Requests -> Seq(Frames)]
  /\ holder \in [Chunks -> Requests \union {Nobody}]
  /\ gone \subseteq Chunks
  /\ poisoned \in BOOLEAN

Inv == Shape /\ (\A r \in Requests : Good(r)) /\ Exclusive /\ Holds
-----------------------------------------------------------------------------
(* The graph, and sequences of moves *)

LEMMA DepthFacts ==
  /\ Cardinality(Chunks) \in Nat
  /\ Depth \in [Chunks -> 0..Cardinality(Chunks)]
  /\ \A c \in Chunks : Depth[c] \in Nat /\ Depth[c] <= Cardinality(Chunks)
  /\ \A c \in Chunks : \A p \in Up[c] : Depth[p] < Depth[c]
<1>1. Cardinality(Chunks) \in Nat
  BY LocksAssumption, FS_CardinalityType
<1>2. /\ Depth \in [Chunks -> 0..Cardinality(Chunks)]
      /\ \A c \in Chunks : \A p \in Up[c] : Depth[p] < Depth[c]
  BY LocksAssumption DEF Depth
<1>3. \A c \in Chunks : Depth[c] \in Nat /\ Depth[c] <= Cardinality(Chunks)
  BY <1>1, <1>2
<1> QED
  BY <1>1, <1>2, <1>3

LEMMA LeastNatural ==
  ASSUME NEW S \in SUBSET Nat, S # {}
  PROVE  \E x \in S : \A y \in S : x <= y
<1>1. PICK x \in S : \A y \in S : ~ (<<y, x>> \in OpToRel(<, Nat))
  BY NatLessThanWellFounded, WFMin
<1>2. \A y \in S : ~ (y < x)
  BY <1>1 DEF OpToRel
<1> QED
  BY <1>2

LEMMA Relatives ==
  ASSUME NEW c \in Chunks
  PROVE  /\ Live \subseteq Chunks
         /\ \A x \in Above(c) : x \in Chunks /\ Depth[x] < Depth[c]
         /\ \A x \in Down(c) : x \in Chunks /\ Depth[c] < Depth[x]
  BY LocksAssumption, DepthFacts DEF Live, Above, Down

LEMMA ConcatType ==
  ASSUME NEW S, NEW s \in Seq(S), NEW t \in Seq(S)
  PROVE  s \o t \in Seq(S)
  OBVIOUS

LEMMA WiderType ==
  ASSUME NEW S, NEW T, S \subseteq T, NEW s, s \in Seq(S)
  PROVE  s \in Seq(T)
  OBVIOUS

LEMMA OneType ==
  ASSUME NEW C, NEW W, NEW c \in C, NEW w \in W
  PROVE  One(c, w) \in Seq([to : C, way : W])
  BY DEF One

LEMMA MovesType ==
  ASSUME NEW C \in SUBSET Chunks, NEW W, NEW w \in W
  PROVE  Moves(C, w) \in Seq([to : C, way : W])
<1> DEFINE n == Cardinality(C)
<1>1. IsFiniteSet(C)
  BY LocksAssumption, FS_Subset
<1>2. n \in Nat /\ ExistsBijection(1..n, C)
  BY <1>1, FS_CardinalityType
<1>3. \E f \in [1..n -> C] : IsInjective(f)
  BY <1>2 DEF ExistsBijection, Bijection, Injection
<1>4. SetToSeq(C) \in [1..n -> C]
  BY <1>3 DEF SetToSeq
<1>5. Moves(C, w) = [k \in 1..n |-> [to |-> SetToSeq(C)[k], way |-> w]]
  BY DEF Moves
<1> HIDE DEF n
<1>6. \A k \in 1..n : [to |-> SetToSeq(C)[k], way |-> w] \in [to : C, way : W]
  BY <1>4
<1> QED
  BY <1>2, <1>5, <1>6

\* The moves to the children, and those to the parents.
Falling(c) == [to : Down(c), way : {"alone", "down"}]
Rising(c)  == [to : Above(c), way : {"alone", "up"}]

LEMMA RelativesMoves ==
  ASSUME NEW c \in Chunks
  PROVE  /\ Moves(Down(c), "alone") \in Seq(Falling(c))
         /\ Moves(Down(c), "down") \in Seq(Falling(c))
         /\ Moves(Above(c), "alone") \in Seq(Rising(c))
         /\ Moves(Above(c), "up") \in Seq(Rising(c))
         /\ \A b \in BOOLEAN : /\ Modified(c, b) \in Seq(Falling(c))
                               /\ View(c, b) \in Seq(Falling(c) \union Rising(c))
<1>1. Down(c) \in SUBSET Chunks /\ Above(c) \in SUBSET Chunks
  BY Relatives
<1>2. /\ Moves(Down(c), "alone") \in Seq(Falling(c))
      /\ Moves(Down(c), "down") \in Seq(Falling(c))
      /\ Moves(Above(c), "alone") \in Seq(Rising(c))
      /\ Moves(Above(c), "up") \in Seq(Rising(c))
  BY <1>1, MovesType DEF Falling, Rising
<1>3. ASSUME NEW b \in BOOLEAN PROVE Modified(c, b) \in Seq(Falling(c))
  <2>1. <<>> \in Seq(Falling(c))
    OBVIOUS
  <2>2. Moves(Down(c), "alone") \o Moves(Down(c), "down") \in Seq(Falling(c))
    BY <1>2, ConcatType
  <2> QED
    BY <2>1, <2>2 DEF Modified
<1>4. ASSUME NEW b \in BOOLEAN PROVE View(c, b) \in Seq(Falling(c) \union Rising(c))
  <2> DEFINE T == Falling(c) \union Rising(c)
  <2>1. /\ Modified(c, b) \in Seq(T) /\ Moves(Down(c), "alone") \in Seq(T)
        /\ Moves(Above(c), "alone") \in Seq(T)
    BY <1>2, <1>3, WiderType
  <2> HIDE DEF T
  <2>2. Modified(c, b) \o Moves(Above(c), "alone") \in Seq(T)
    BY <2>1, ConcatType
  <2>3. View(c, b) \in Seq(T)
    BY <2>1, <2>2, ConcatType DEF View
  <2> QED
    BY <2>3 DEF T
<1> QED
  BY <1>2, <1>3, <1>4

\* What a frame has to do: to go to its chunk's relatives, downwards only if it
\* was reached by a "down", upwards only if by an "up".
LEMMA FramesOfFacts ==
  ASSUME NEW m \in AnyMove, m.way \notin {"try", "insert", "remove", "drop", "past"},
         NEW moves \in FramesOf(m)
  PROVE  /\ moves \in Seq(AnyMove)
         /\ m.way = "alone" => moves = <<>>
         /\ \A l \in DOMAIN moves : Falls(gone, m.to, moves[l]) \/ Rises(gone, m.to, moves[l])
         /\ m.way = "down" => \A l \in DOMAIN moves : Falls(gone, m.to, moves[l])
         /\ m.way = "up" => \A l \in DOMAIN moves : Rises(gone, m.to, moves[l])
<1> DEFINE c == m.to
<1>1. c \in Chunks /\ m.way \in {"alone", "down", "view", "up", "peek", "crest"}
  BY DEF AnyMove, Ways
<1>2. <<>> \in Seq(Falling(c)) /\ <<>> \in Seq(Falling(c) \union Rising(c))
  OBVIOUS
<1>3. /\ m.way = "alone" => FramesOf(m) = {<<>>}
      /\ m.way = "down"  => FramesOf(m) = {Modified(c, b) : b \in BOOLEAN}
      /\ m.way = "view"  => FramesOf(m) = {<<>>} \union {View(c, b) : b \in BOOLEAN}
      /\ m.way = "up"    => FramesOf(m) = {Moves(Above(c), "up")}
      /\ m.way = "peek"  => FramesOf(m) = {Moves(Down(c), "alone")}
      /\ m.way = "crest" => FramesOf(m) = {Moves(Above(c), "alone")}
  BY DEF FramesOf
<1>4. /\ m.way = "alone" => moves = <<>>
      /\ m.way = "down" => moves \in Seq(Falling(c))
      /\ m.way = "up" => moves \in Seq(Rising(c))
  BY <1>1, <1>3, RelativesMoves
<1>5. moves \in Seq(Falling(c) \union Rising(c))
  <2>1. CASE m.way \in {"alone", "view"}
    <3>1. moves = <<>> \/ \E b \in BOOLEAN : moves = View(c, b)
      BY <2>1, <1>3
    <3> QED
      BY <3>1, <1>1, <1>2, RelativesMoves
  <2>2. CASE m.way \in {"down", "peek"}
    <3>1. moves \in Seq(Falling(c))
      BY <2>2, <1>1, <1>3, RelativesMoves
    <3> QED
      BY <3>1, WiderType
  <2>3. CASE m.way \in {"up", "crest"}
    <3>1. moves \in Seq(Rising(c))
      BY <2>3, <1>1, <1>3, RelativesMoves
    <3> QED
      BY <3>1, WiderType
  <2> QED
    BY <1>1, <2>1, <2>2, <2>3
<1>6. \A x \in Falling(c) : Falls(gone, c, x)
  BY DEF Falling, Falls, Down, Live
<1>7. \A x \in Rising(c) : Rises(gone, c, x)
  BY DEF Rising, Rises, Above
<1>8. Falling(c) \union Rising(c) \subseteq AnyMove
  BY <1>1, Relatives DEF Falling, Rising, AnyMove, Ways
<1>9. moves \in Seq(AnyMove)
  BY <1>5, <1>8, WiderType
<1>10. \A S : moves \in Seq(S) => \A l \in DOMAIN moves : moves[l] \in S
  OBVIOUS
<1> HIDE DEF c
<1>11. \A l \in DOMAIN moves : Falls(gone, c, moves[l]) \/ Rises(gone, c, moves[l])
  BY <1>5, <1>6, <1>7, <1>10
<1>12. /\ m.way = "down" => \A l \in DOMAIN moves : Falls(gone, c, moves[l])
       /\ m.way = "up" => \A l \in DOMAIN moves : Rises(gone, c, moves[l])
  BY <1>4, <1>6, <1>7, <1>10
<1> QED
  BY <1>4, <1>9, <1>11, <1>12 DEF c
-----------------------------------------------------------------------------
(* Frames *)

LEMMA BackFacts ==
  ASSUME NEW S, NEW s \in Seq(S), s # <<>>
  PROVE  /\ Len(s) \in Nat /\ Len(s) \in 1..Len(s)
         /\ Last(s) = s[Len(s)] /\ Last(s) \in S
         /\ Front(s) \in Seq(S) /\ Len(Front(s)) = Len(s) - 1
         /\ \A k \in 1..(Len(s) - 1) : Front(s)[k] = s[k]
<1>1. Len(s) \in Nat /\ Len(s) > 0
  OBVIOUS
<1>2. PICK n \in Nat : n = Len(s) - 1
  BY <1>1
<1>3. \A k \in 1..n : s[k] \in S
  BY <1>1, <1>2
<1>4. /\ SubSeq(s, 1, n) \in Seq(S)
      /\ Len(SubSeq(s, 1, n)) = IF 1 <= n THEN n - 1 + 1 ELSE 0
      /\ \A k \in 1..(n - 1 + 1) : SubSeq(s, 1, n)[k] = s[1 + k - 1]
  BY <1>3, SubSeqProperties
<1>5. Front(s) = SubSeq(s, 1, n)
  BY <1>2 DEF Front
<1>6. /\ (IF 1 <= n THEN n - 1 + 1 ELSE 0) = n
      /\ 1..(n - 1 + 1) = 1..n
      /\ \A k \in 1..n : 1 + k - 1 = k
  OBVIOUS
<1>7. /\ Front(s) \in Seq(S) /\ Len(Front(s)) = n
      /\ \A k \in 1..n : Front(s)[k] = s[k]
  BY <1>4, <1>5, <1>6
<1>8. Last(s) = s[Len(s)] /\ Last(s) \in S
  BY <1>1 DEF Last
<1> QED
  BY <1>1, <1>2, <1>7, <1>8

LEMMA PushFacts ==
  ASSUME NEW S, NEW s \in Seq(S), NEW e \in S
  PROVE  /\ Append(s, e) \in Seq(S)
         /\ Len(Append(s, e)) = Len(s) + 1
         /\ Append(s, e)[Len(s) + 1] = e
         /\ \A k \in 1..Len(s) : Append(s, e)[k] = s[k]
  OBVIOUS

LEMMA ChangeLastFacts ==
  ASSUME NEW S, NEW s \in Seq(S), s # <<>>, NEW e \in S
  PROVE  /\ Front(s) \o <<e>> \in Seq(S)
         /\ Len(Front(s) \o <<e>>) = Len(s)
         /\ (Front(s) \o <<e>>)[Len(s)] = e
         /\ \A k \in 1..(Len(s) - 1) : (Front(s) \o <<e>>)[k] = s[k]
<1>1. /\ Front(s) \in Seq(S) /\ Len(Front(s)) = Len(s) - 1
      /\ \A k \in 1..(Len(s) - 1) : Front(s)[k] = s[k]
      /\ Len(s) \in Nat
  BY BackFacts
<1>2. Front(s) \o <<e>> = Append(Front(s), e)
  BY <1>1
<1> QED
  BY <1>1, <1>2, PushFacts

LEMMA TailFacts ==
  ASSUME NEW S, NEW s \in Seq(S), s # <<>>
  PROVE  /\ Head(s) = s[1] /\ 1 \in DOMAIN s /\ Head(s) \in S
         /\ Tail(s) \in Seq(S)
         /\ \A k \in DOMAIN Tail(s) : k + 1 \in DOMAIN s /\ Tail(s)[k] = s[k + 1]
  OBVIOUS

\* The frames with one move of the last one made.
LEMMA MadeFacts ==
  ASSUME NEW g, NEW what, NEW fs, Framed(g, fs, what), fs # <<>>,
         NEW n \in Nat, n = Len(fs), fs[n].moves # <<>>,
         NEW gs \in Seq(Frames), Len(gs) = n,
         gs[n].at = fs[n].at, gs[n].moves = Tail(fs[n].moves),
         \A k \in 1..(n - 1) : gs[k] = fs[k]
  PROVE  /\ Framed(g, gs, what) /\ gs # <<>>
         /\ \A k \in 1..n : gs[k].at = fs[k].at
<1>2. fs \in Seq(Frames) /\ n \in 1..n /\ fs[n] \in Frames
  <2>1. fs \in Seq(Frames)
    BY DEF Framed
  <2> QED
    BY <2>1
<1>3. /\ fs[n].moves \in Seq(AnyMove) /\ fs[n].moves # <<>>
      /\ Tail(fs[n].moves) \in Seq(AnyMove)
      /\ \A l \in DOMAIN Tail(fs[n].moves) :
           l + 1 \in DOMAIN fs[n].moves /\ Tail(fs[n].moves)[l] = fs[n].moves[l + 1]
  <2>1. fs[n].moves \in Seq(AnyMove)
    BY <1>2 DEF Frames
  <2> QED
    BY <2>1, TailFacts
<1>7. /\ \A k \in 1..n : k = n \/ k \in 1..(n - 1)
      /\ \A k \in 2..n : k \in 1..n /\ \A j \in 2..k : j \in 1..n
  OBVIOUS
<1>8. \A k \in 1..n : gs[k].at = fs[k].at
  BY <1>7
<1>9. gs[1].at = Nobody /\ gs[1].moves \in Seq(Plan(what))
  <2>1. fs[1].at = Nobody /\ fs[1].moves \in Seq(Plan(what))
    BY DEF Framed
  <2>2. CASE n = 1
    <3>1. fs[1].moves # <<>> /\ gs[1].at = fs[1].at /\ gs[1].moves = Tail(fs[1].moves)
      BY <2>2, <1>3
    <3> QED
      BY <2>1, <3>1, TailFacts
  <2>3. CASE n # 1
    <3>1. 1 \in 1..(n - 1)
      BY <2>3, <1>2
    <3> QED
      BY <2>1, <3>1
  <2> QED
    BY <2>2, <2>3
<1>10. ASSUME NEW k \in 2..n PROVE gs[k].at \in Chunks /\ Heads(g, gs, k)
  <2>1. /\ k \in 1..n /\ gs[k].at = fs[k].at /\ fs[k].at \in Chunks /\ Heads(g, fs, k)
    <3>1. \A i \in 2..Len(fs) : fs[i].at \in Chunks /\ Heads(g, fs, i)
      BY DEF Framed
    <3> QED
      BY <3>1, <1>7, <1>8, <1>10
  <2>2. \A j \in 2..k : gs[j].at = fs[j].at
    BY <1>7, <1>8, <1>10
  <2>3. ASSUME NEW l \in DOMAIN gs[k].moves
        PROVE  \E x \in DOMAIN fs[k].moves : gs[k].moves[l] = fs[k].moves[x]
    <3>1. CASE k = n
      <4>1. gs[k].moves = Tail(fs[n].moves)
        BY <3>1
      <4>2. l \in DOMAIN Tail(fs[n].moves)
        BY <4>1, <2>3
      <4> QED
        BY <3>1, <4>1, <4>2, <1>3
    <3>2. CASE k \in 1..(n - 1)
      BY <3>2, <2>3
    <3> QED
      BY <3>1, <3>2, <2>1, <1>7
  <2> QED
    BY <2>1, <2>2, <2>3 DEF Heads, Leads
<1>11. what \in Flat => \A k \in 2..n : k = 2 /\ gs[k].moves = <<>>
  <2> SUFFICES ASSUME what \in Flat, NEW k \in 2..n PROVE k = 2 /\ gs[k].moves = <<>>
    OBVIOUS
  <2>1. k = 2 /\ fs[k].moves = <<>>
    BY DEF Framed
  <2>2. n # 2
    <3>1. n = 2 => n \in 2..n /\ fs[n].moves = <<>>
      BY DEF Framed
    <3> QED
      BY <3>1, <1>3
  <2>3. k \in 1..(n - 1)
    BY <2>1, <2>2
  <2> QED
    BY <2>1, <2>3
<1>12. \A j, k \in 2..n : gs[j].at = gs[k].at => j = k
  <2>1. \A j, k \in 2..Len(fs) : fs[j].at = fs[k].at => j = k
    BY DEF Framed
  <2> QED
    BY <2>1, <1>7, <1>8
<1>13. gs # <<>>
  BY <1>2
<1> QED
  BY <1>8, <1>9, <1>10, <1>11, <1>12, <1>13 DEF Framed

LEMMA PopFacts ==
  ASSUME NEW g, NEW what, NEW fs, Framed(g, fs, what),
         NEW n \in Nat, n >= 1, Len(fs) = n + 1,
         NEW gs \in Seq(Frames), Len(gs) = n, \A k \in 1..n : gs[k] = fs[k]
  PROVE  Framed(g, gs, what) /\ gs # <<>>
<1>2. fs \in Seq(Frames) /\ fs # <<>> /\ gs # <<>>
  BY DEF Framed
<1>5. gs[1].at = Nobody /\ gs[1].moves \in Seq(Plan(what))
  BY <1>2 DEF Framed
<1>6. ASSUME NEW k \in 2..n PROVE gs[k].at \in Chunks /\ Heads(g, gs, k)
  <2>1. /\ k \in 2..Len(fs) /\ gs[k] = fs[k]
        /\ \A j \in 2..k : gs[j] = fs[j]
    BY <1>6
  <2>2. fs[k].at \in Chunks /\ Heads(g, fs, k)
    BY <2>1 DEF Framed
  <2> QED
    BY <2>1, <2>2 DEF Heads, Leads
<1>7. \A k \in 2..n : k \in 2..Len(fs) /\ gs[k] = fs[k]
  OBVIOUS
<1>8. what \in Flat => \A k \in 2..n : k = 2 /\ gs[k].moves = <<>>
  BY <1>7 DEF Framed
<1>9. \A j, k \in 2..n : gs[j].at = gs[k].at => j = k
  BY <1>7 DEF Framed
<1>10. Framed(g, gs, what)
  BY <1>2, <1>5, <1>6, <1>8, <1>9 DEF Framed
<1> QED
  BY <1>2, <1>10

\* A frame for a chunk that the request has not locked, by a move that the
\* frames under it agree with.
LEMMA PushedFacts ==
  ASSUME NEW g, NEW what, NEW fs, Framed(g, fs, what), fs # <<>>,
         NEW n \in Nat, n = Len(fs), NEW c \in Chunks, NEW moves,
         \A k \in 2..n : fs[k].at # c,
         what \in Flat => moves = <<>> /\ n = 1,
         Leads(g, fs, n, c, moves),
         NEW gs \in Seq(Frames), Len(gs) = n + 1,
         gs[n + 1].at = c, gs[n + 1].moves = moves,
         \A k \in 1..n : gs[k] = fs[k]
  PROVE  Framed(g, gs, what) /\ gs # <<>>
<1>2. fs \in Seq(Frames) /\ n >= 1
  BY DEF Framed
<1>6. gs # <<>>
  BY <1>2
<1>7. \A k \in 2..(n + 1) : k = n + 1 \/ k \in 2..n
  OBVIOUS
<1>8. gs[1].at = Nobody /\ gs[1].moves \in Seq(Plan(what))
  BY <1>2 DEF Framed
<1>9. ASSUME NEW k \in 2..(n + 1) PROVE gs[k].at \in Chunks /\ Heads(g, gs, k)
  <2>1. CASE k \in 2..n
    <3>1. gs[k] = fs[k] /\ (\A j \in 2..k : gs[j] = fs[j])
      BY <2>1
    <3>2. fs[k].at \in Chunks /\ Heads(g, fs, k)
      BY <2>1 DEF Framed
    <3> QED
      BY <3>1, <3>2 DEF Heads, Leads
  <2>2. CASE k = n + 1
    <3>1. gs[k].at = c /\ gs[k].moves = moves
      BY <2>2
    <3>2. \A j \in 2..k : gs[j].at = c \/ (j \in 2..n /\ gs[j] = fs[j])
      BY <2>2, <1>7
    <3>3. Depth[c] \in Nat
      BY DepthFacts
    <3>4. Leads(g, gs, k, c, moves)
      <4> SUFFICES ASSUME NEW l \in DOMAIN moves
                   PROVE  \/ /\ Falls(g, c, moves[l])
                             /\ \A j \in 2..k : Depth[gs[j].at] <= Depth[c]
                          \/ /\ Rises(g, c, moves[l])
                             /\ \A j \in 2..k : Depth[gs[j].at] >= Depth[c]
        BY DEF Leads
      <4>1. CASE /\ Falls(g, c, moves[l])
                 /\ \A j \in 2..n : Depth[fs[j].at] <= Depth[c]
        <5>1. ASSUME NEW j \in 2..k PROVE Depth[gs[j].at] <= Depth[c]
          <6>1. CASE gs[j].at = c
            <7>1. PICK d \in Nat : d = Depth[c]
              BY <3>3
            <7>2. Depth[gs[j].at] = d
              BY <6>1, <7>1
            <7> QED
              BY <7>1, <7>2
          <6>2. CASE j \in 2..n /\ gs[j] = fs[j]
            BY <6>2, <4>1
          <6> QED
            BY <6>1, <6>2, <3>2, <5>1
        <5> QED
          BY <4>1, <5>1
      <4>2. CASE /\ Rises(g, c, moves[l])
                 /\ \A j \in 2..n : Depth[fs[j].at] >= Depth[c]
        <5>1. ASSUME NEW j \in 2..k PROVE Depth[gs[j].at] >= Depth[c]
          <6>1. CASE gs[j].at = c
            <7>1. PICK d \in Nat : d = Depth[c]
              BY <3>3
            <7>2. Depth[gs[j].at] = d
              BY <6>1, <7>1
            <7> QED
              BY <7>1, <7>2
          <6>2. CASE j \in 2..n /\ gs[j] = fs[j]
            BY <6>2, <4>2
          <6> QED
            BY <6>1, <6>2, <3>2, <5>1
        <5> QED
          BY <4>2, <5>1
      <4> QED
        BY <4>1, <4>2 DEF Leads
    <3> QED
      BY <3>1, <3>4 DEF Heads
  <2> QED
    BY <1>7, <2>1, <2>2
<1>10. what \in Flat => \A k \in 2..(n + 1) : k = 2 /\ gs[k].moves = <<>>
  <2> SUFFICES ASSUME what \in Flat, NEW k \in 2..(n + 1) PROVE k = 2 /\ gs[k].moves = <<>>
    OBVIOUS
  <2>1. n = 1
    OBVIOUS
  <2>2. k = 2
    BY <2>1
  <2> QED
    BY <2>1, <2>2
<1>11. ASSUME NEW j \in 2..(n + 1), NEW k \in 2..(n + 1), gs[j].at = gs[k].at PROVE j = k
  <2>1. \A i \in 2..n : gs[i] = fs[i] /\ fs[i].at # c
    OBVIOUS
  <2>2. CASE j \in 2..n /\ k \in 2..n
    BY <2>1, <2>2, <1>11 DEF Framed
  <2>3. CASE j = n + 1 \/ k = n + 1
    BY <2>1, <2>3, <1>7, <1>11
  <2> QED
    BY <1>7, <2>2, <2>3
<1>12. Framed(g, gs, what)
  BY <1>6, <1>8, <1>9, <1>10, <1>11 DEF Framed
<1> QED
  BY <1>6, <1>12

LEMMA PlanMoves ==
  ASSUME NEW what
  PROVE  Plan(what) \subseteq AnyMove
  BY DEF Plan, AnyMove, WaysOf, Ways

\* A request that has only its bottom frame.
LEMMA BottomFacts ==
  ASSUME NEW g, NEW what, NEW moves \in Seq(Plan(what)),
         NEW gs, gs = <<[at |-> Nobody, moves |-> moves]>>
  PROVE  Framed(g, gs, what) /\ gs # <<>> /\ Len(gs) = 1
<1>1. moves \in Seq(AnyMove)
  BY PlanMoves, WiderType
<1>2. PICK f : f = [at |-> Nobody, moves |-> moves]
  OBVIOUS
<1>3. f \in Frames /\ f.at = Nobody /\ f.moves = moves
  BY <1>1, <1>2 DEF Frames
<1>4. gs \in Seq(Frames) /\ Len(gs) = 1 /\ gs # <<>> /\ gs[1] = f
  BY <1>2, <1>3
<1>5. \A k \in 2..Len(gs) : FALSE
  BY <1>4
<1> QED
  BY <1>3, <1>4, <1>5 DEF Framed

\* The bottom frame's moves are other ones.
LEMMA RebottomFacts ==
  ASSUME NEW g, NEW h, NEW what, NEW fs, Framed(g, fs, what), fs # <<>>,
         h = g \/ what \in Flat \/ Len(fs) = 1,
         NEW n \in Nat, n = Len(fs), NEW gs \in Seq(Frames), Len(gs) = n,
         gs[1].at = Nobody, gs[1].moves \in Seq(Plan(what)),
         \A k \in 2..n : gs[k] = fs[k]
  PROVE  Framed(h, gs, what) /\ gs # <<>>
<1>2. gs # <<>>
  BY DEF Framed
<1>8. \A k \in 2..n : k \in 2..Len(fs) /\ (\A j \in 2..k : gs[j] = fs[j])
  OBVIOUS
<1>9. ASSUME NEW k \in 2..n PROVE gs[k].at \in Chunks /\ Heads(h, gs, k)
  <2>1. fs[k].at \in Chunks /\ Heads(g, fs, k) /\ gs[k] = fs[k]
    BY <1>8, <1>9 DEF Framed
  <2>2. CASE h = g
    BY <1>8, <1>9, <2>1, <2>2 DEF Heads, Leads
  <2>3. CASE what \in Flat
    <3>1. DOMAIN fs[k].moves = {}
      BY <1>8, <1>9, <2>3 DEF Framed
    <3> QED
      BY <2>1, <3>1 DEF Heads, Leads
  <2>4. CASE Len(fs) = 1
    BY <1>9, <2>4
  <2> QED
    BY <2>2, <2>3, <2>4
<1>10. what \in Flat => \A k \in 2..n : k = 2 /\ gs[k].moves = <<>>
  BY <1>8 DEF Framed
<1>11. \A j, k \in 2..n : gs[j].at = gs[k].at => j = k
  BY <1>8 DEF Framed
<1>12. Framed(h, gs, what)
  BY <1>2, <1>9, <1>10, <1>11 DEF Framed
<1> QED
  BY <1>2, <1>12
-----------------------------------------------------------------------------
(* The move that a request makes next *)

LEMMA GoodFacts ==
  ASSUME NEW r \in Requests, Good(r), Busy(r)
  PROVE  /\ Framed(gone, stack[r], kind[r]) /\ stack[r] # <<>>
         /\ Len(stack[r]) \in Nat /\ Len(stack[r]) >= 1
         /\ Len(stack[r]) \in DOMAIN stack[r]
         /\ stack[r] \in Seq(Frames) /\ Top(r) = stack[r][Len(stack[r])]
         /\ kind[r] \in Kinds /\ guard[r] \in GuardsOf(kind[r])
<1>1. Framed(gone, stack[r], kind[r]) /\ stack[r] # <<>>
  BY DEF Good, Busy
<1>2. stack[r] \in Seq(Frames)
  BY <1>1 DEF Framed
<1>3. /\ Len(stack[r]) \in Nat /\ Len(stack[r]) \in 1..Len(stack[r])
      /\ Last(stack[r]) = stack[r][Len(stack[r])]
  BY <1>1, <1>2, BackFacts
<1> QED
  BY <1>1, <1>2, <1>3 DEF Top, Good

\* From the bottom frame a request moves as its kind does; from any other frame
\* to a relative, away from the frames under it.
LEMMA MoveFacts ==
  ASSUME NEW r \in Requests, Good(r), More(r), NEW n, n = Len(stack[r])
  PROVE  /\ Move(r) \in AnyMove
         /\ n = 1 => Move(r) \in Plan(kind[r])
         /\ kind[r] \in Flat => n = 1
         /\ n # 1 =>
              \/ /\ Falls(gone, stack[r][n].at, Move(r))
                 /\ \A j \in 2..n : Depth[stack[r][j].at] <= Depth[stack[r][n].at]
              \/ /\ Rises(gone, stack[r][n].at, Move(r))
                 /\ \A j \in 2..n : Depth[stack[r][j].at] >= Depth[stack[r][n].at]
<1>1. /\ Framed(gone, stack[r], kind[r]) /\ n \in Nat /\ n >= 1 /\ n \in DOMAIN stack[r]
      /\ stack[r] \in Seq(Frames) /\ Top(r) = stack[r][n] /\ stack[r] # <<>>
  BY GoodFacts DEF More
<1>2. PICK moves : moves = stack[r][n].moves
  OBVIOUS
<1>3. moves \in Seq(AnyMove) /\ moves # <<>> /\ Move(r) = Head(moves)
  <2>1. stack[r][n] \in Frames
    BY <1>1
  <2>2. moves \in Seq(AnyMove)
    BY <2>1, <1>2 DEF Frames
  <2>3. moves = Top(r).moves
    BY <1>1, <1>2
  <2> QED
    BY <2>2, <2>3 DEF More, Move
<1>4. Move(r) = moves[1] /\ 1 \in DOMAIN moves /\ Move(r) \in AnyMove
  BY <1>3, TailFacts
<1>5. ASSUME n = 1 PROVE Move(r) \in Plan(kind[r])
  <2>1. moves \in Seq(Plan(kind[r]))
    BY <1>1, <1>2, <1>5 DEF Framed
  <2> QED
    BY <2>1, <1>3, TailFacts
<1>6. n # 1 => n \in 2..n
  <2>1. \A i \in Nat : i >= 1 /\ i # 1 => i \in 2..i
    OBVIOUS
  <2> QED
    BY <2>1, <1>1
<1>7. ASSUME n # 1
      PROVE \/ /\ Falls(gone, stack[r][n].at, Move(r))
               /\ \A j \in 2..n : Depth[stack[r][j].at] <= Depth[stack[r][n].at]
            \/ /\ Rises(gone, stack[r][n].at, Move(r))
               /\ \A j \in 2..n : Depth[stack[r][j].at] >= Depth[stack[r][n].at]
  <2>1. Heads(gone, stack[r], n)
    BY <1>1, <1>6, <1>7 DEF Framed
  <2> QED
    BY <2>1, <1>2, <1>4 DEF Heads, Leads
<1>8. kind[r] \in Flat => n = 1
  <2> SUFFICES ASSUME kind[r] \in Flat, n # 1 PROVE FALSE
    OBVIOUS
  <2>1. moves = <<>>
    BY <1>1, <1>2, <1>6 DEF Framed
  <2> QED
    BY <2>1, <1>3
<1> QED
  BY <1>4, <1>5, <1>7, <1>8

\* All but looks at chunks and the invalidation start at the bottom.
LEMMA FromBottom ==
  ASSUME NEW r \in Requests, Good(r), More(r), Move(r).way \notin {"alone", "down", "up"}
  PROVE  Len(stack[r]) = 1 /\ Move(r) \in Plan(kind[r])
<1>1. Len(stack[r]) # 1 => Move(r).way \in {"alone", "down", "up"}
  BY MoveFacts DEF Falls, Rises
<1> QED
  BY <1>1, MoveFacts

LEMMA MadeByOne ==
  ASSUME NEW r \in Requests, Good(r), More(r)
  PROVE  /\ Framed(gone, Made(r), kind[r]) /\ Made(r) # <<>>
         /\ Len(Made(r)) = Len(stack[r])
         /\ \A k \in 1..Len(stack[r]) : Made(r)[k].at = stack[r][k].at
<1>1. PICK fs : fs = stack[r]
  OBVIOUS
<1>2. PICK n \in Nat : n = Len(fs)
  BY <1>1, GoodFacts DEF More
<1>3. /\ Framed(gone, fs, kind[r]) /\ fs # <<>> /\ fs \in Seq(Frames)
      /\ Last(fs) = fs[n] /\ n \in DOMAIN fs /\ fs[n].moves # <<>>
  BY <1>1, <1>2, GoodFacts DEF More, Top
<1>4. PICK t : t = [fs[n] EXCEPT !.moves = Tail(fs[n].moves)]
  OBVIOUS
<1>5. t \in Frames /\ t.at = fs[n].at /\ t.moves = Tail(fs[n].moves)
  <2>1. fs[n] \in Frames
    BY <1>3
  <2>2. fs[n].moves \in Seq(AnyMove)
    BY <2>1 DEF Frames
  <2>3. Tail(fs[n].moves) \in Seq(AnyMove)
    BY <2>2, <1>3, TailFacts
  <2> QED
    BY <2>1, <2>3, <1>4 DEF Frames
<1>6. PICK gs : gs = Front(fs) \o <<t>>
  OBVIOUS
<1>7. /\ gs \in Seq(Frames) /\ Len(gs) = n /\ gs[n] = t
      /\ \A k \in 1..(n - 1) : gs[k] = fs[k]
  BY <1>2, <1>3, <1>5, <1>6, ChangeLastFacts
<1>8. /\ Framed(gone, gs, kind[r]) /\ gs # <<>>
      /\ \A k \in 1..n : gs[k].at = fs[k].at
  BY <1>2, <1>3, <1>5, <1>7, MadeFacts
<1>9. Made(r) = gs
  BY <1>1, <1>3, <1>4, <1>6 DEF Made, Top
<1> QED
  BY <1>1, <1>2, <1>7, <1>8, <1>9
-----------------------------------------------------------------------------
(* Steps *)

LEMMA InitInv == Init => Inv
<1> SUFFICES ASSUME Init PROVE Inv
  OBVIOUS
<1>1. Shape
  <2>1. /\ kind \in [Requests -> Kinds \union {"none"}]
        /\ guard \in [Requests -> {"none", "read", "write"}]
        /\ gone \subseteq Chunks /\ poisoned \in BOOLEAN
    BY DEF Init
  <2>2. holder \in [Chunks -> Requests \union {Nobody}]
    BY DEF Init
  <2>3. <<>> \in Seq(Frames)
    OBVIOUS
  <2>4. stack \in [Requests -> Seq(Frames)]
    BY <2>3 DEF Init
  <2> QED
    BY <2>1, <2>2, <2>4 DEF Shape
<1>2. ASSUME NEW r \in Requests PROVE Good(r)
  <2>1. kind[r] = "none" /\ guard[r] = "none" /\ stack[r] = <<>>
    BY DEF Init
  <2>2. Framed(gone, stack[r], kind[r])
    BY <2>1 DEF Framed, Flat
  <2> QED
    BY <2>1, <2>2 DEF Good
<1>3. Exclusive
  BY DEF Init, Exclusive
<1>4. Holds
  BY DEF Init, Holds
<1> QED
  BY <1>1, <1>2, <1>3, <1>4 DEF Inv

\* A step of a request that holds no chunk, before it and after it.
LEMMA BottomStep ==
  ASSUME Inv, NEW r \in Requests, NEW what \in Kinds \union {"none"},
         NEW gd \in {"none", "read", "write"}, NEW gs,
         \A k \in 2..Len(stack[r]) : FALSE,
         \A k \in 2..Len(gs) : FALSE,
         Framed(gone, gs, what),
         gs = <<>> => gd = "none",
         gs # <<>> => what \in Kinds /\ gd \in GuardsOf(what),
         gd = "write" => \A s \in Requests : s # r => guard[s] = "none",
         gd # "none" => \A s \in Requests : s # r => guard[s] # "write",
         kind' = [kind EXCEPT ![r] = what], guard' = [guard EXCEPT ![r] = gd],
         stack' = [stack EXCEPT ![r] = gs],
         holder' = holder, gone' = gone, poisoned' \in BOOLEAN
  PROVE  Inv'
<1>1. /\ Shape /\ (\A s \in Requests : Good(s)) /\ Exclusive /\ Holds
  BY DEF Inv
<1>2. gs \in Seq(Frames)
  BY DEF Framed
<1>3. Shape'
  BY <1>1, <1>2 DEF Shape
<1>4. /\ kind'[r] = what /\ guard'[r] = gd /\ stack'[r] = gs
      /\ \A s \in Requests : s # r =>
           kind'[s] = kind[s] /\ guard'[s] = guard[s] /\ stack'[s] = stack[s]
  BY <1>1 DEF Shape
<1>5. ASSUME NEW s \in Requests PROVE Good(s)'
  <2>1. CASE s = r
    BY <2>1, <1>4 DEF Good
  <2>2. CASE s # r
    BY <2>2, <1>1, <1>4 DEF Good
  <2> QED
    BY <2>1, <2>2
<1>6. Exclusive'
  BY <1>1, <1>4 DEF Exclusive
<1>7. Holds'
  <2>1. ASSUME NEW c \in Chunks, holder[c] # Nobody
        PROVE  \E k \in 2..Len(stack'[holder[c]]) : stack'[holder[c]][k].at = c
    <3>1. holder[c] \in Requests
      BY <1>1, <2>1 DEF Shape
    <3>2. PICK k \in 2..Len(stack[holder[c]]) : stack[holder[c]][k].at = c
      BY <1>1, <2>1 DEF Holds
    <3>3. holder[c] # r
      BY <3>2
    <3> QED
      BY <3>1, <3>2, <3>3, <1>4
  <2>2. ASSUME NEW s \in Requests, kind'[s] # "notes", NEW k \in 2..Len(stack'[s])
        PROVE  holder[stack'[s][k].at] = s
    <3>1. s # r
      BY <2>2, <1>4
    <3> QED
      BY <3>1, <2>2, <1>1, <1>4 DEF Holds
  <2> QED
    BY <2>1, <2>2 DEF Holds
<1> QED
  BY <1>3, <1>5, <1>6, <1>7 DEF Inv

LEMMA BeginsStep ==
  ASSUME Inv, NEW r \in Requests, NEW what \in Kinds, NEW g \in GuardsOf(what),
         NEW moves \in Seq(Plan(what)), Begins(r, what, g, moves),
         (g = "read" /\ MayRead) \/ (g = "write" /\ MayWrite)
  PROVE  Inv'
<1>1. Good(r) /\ kind[r] = "none"
  BY DEF Inv, Begins
<1>2. stack[r] = <<>>
  BY <1>1 DEF Good, Kinds
<1>3. PICK gs : gs = <<[at |-> Nobody, moves |-> moves]>>
  OBVIOUS
<1>4. Framed(gone, gs, what) /\ gs # <<>> /\ Len(gs) = 1
  BY <1>3, BottomFacts
<1>5. (\A k \in 2..Len(stack[r]) : FALSE) /\ (\A k \in 2..Len(gs) : FALSE)
  BY <1>2, <1>4
<1>6. g \in {"none", "read", "write"}
  OBVIOUS
<1>7. /\ g = "write" => \A s \in Requests : s # r => guard[s] = "none"
      /\ \A s \in Requests : s # r => guard[s] # "write"
  BY DEF MayRead, MayWrite
<1>8. /\ kind' = [kind EXCEPT ![r] = what] /\ guard' = [guard EXCEPT ![r] = g]
      /\ stack' = [stack EXCEPT ![r] = gs]
      /\ holder' = holder /\ gone' = gone /\ poisoned' \in BOOLEAN
  BY <1>3 DEF Begins, Inv, Shape
<1> QED
  BY <1>4, <1>5, <1>6, <1>7, <1>8, BottomStep

\* What the requests have to do is what Plan says of their kind.
LEMMA PlanOne ==
  ASSUME NEW what, NEW c \in Chunks, NEW way \in WaysOf(what)
  PROVE  One(c, way) \in Seq(Plan(what))
  BY OneType DEF Plan

LEMMA PlanSome ==
  ASSUME NEW what, NEW C \in SUBSET Chunks, NEW way \in WaysOf(what)
  PROVE  Moves(C, way) \in Seq(Plan(what))
<1>1. Moves(C, way) \in Seq([to : C, way : WaysOf(what)])
  BY MovesType
<1>2. [to : C, way : WaysOf(what)] \subseteq Plan(what)
  BY DEF Plan
<1> QED
  BY <1>1, <1>2, WiderType

LEMMA ViewPlans ==
  ASSUME NEW c \in Chunks
  PROVE  /\ One(c, "alone") \o One(c, "view") \in Seq(Plan("view"))
         /\ One(c, "alone") \o One(c, "alone") \in Seq(Plan("read"))
         /\ WellOf(c) \in Seq(Plan("well"))
<1>1. "alone" \in WaysOf("view") /\ "view" \in WaysOf("view") /\ "alone" \in WaysOf("read")
  BY DEF WaysOf
<1>2. One(c, "alone") \o One(c, "view") \in Seq(Plan("view"))
  BY <1>1, PlanOne, ConcatType
<1>3. One(c, "alone") \o One(c, "alone") \in Seq(Plan("read"))
  BY <1>1, PlanOne, ConcatType
<1>4. \A w \in {"view", "peek", "down"} : w \in WaysOf("well")
  BY DEF WaysOf
<1>5. Down(c) \in SUBSET Chunks
  BY Relatives
<1>6. /\ One(c, "view") \in Seq(Plan("well")) /\ One(c, "peek") \in Seq(Plan("well"))
      /\ Moves(Down(c), "down") \in Seq(Plan("well"))
      /\ Moves(Down(c), "view") \in Seq(Plan("well"))
  BY <1>4, <1>5, PlanOne, PlanSome
<1>7. /\ One(c, "view") \o One(c, "peek") \in Seq(Plan("well"))
      /\ Level(Down(c)) \in Seq(Plan("well"))
  BY <1>6, ConcatType DEF Level
<1>8. WellOf(c) \in Seq(Plan("well"))
  BY <1>7, ConcatType DEF WellOf
<1> QED
  BY <1>2, <1>3, <1>8

LEMMA AllPlans ==
  ASSUME NEW c \in Chunks
  PROVE  /\ Moves(Live, "alone") \in Seq(Plan("read"))
         /\ Moves(Live, "crest") \o Level({k \in Live : Above(k) = {}}) \in Seq(Plan("well"))
         /\ Moves(Live, "alone") \o One(c, "drop") \o Moves(Live, "alone")
              \o Moves(Live, "alone") \in Seq(Plan("notes"))
         /\ Moves(Live, "alone") \o Moves(Live, "alone") \in Seq(Plan("list"))
<1>1. PICK L \in SUBSET Chunks : L = Live
  BY DEF Live
<1>2. PICK T \in SUBSET Chunks : T = {k \in Live : Above(k) = {}}
  BY <1>1
<1>3. /\ "alone" \in WaysOf("read") /\ "alone" \in WaysOf("list")
      /\ "alone" \in WaysOf("notes") /\ "drop" \in WaysOf("notes")
      /\ \A w \in {"view", "crest", "down"} : w \in WaysOf("well")
  BY DEF WaysOf
<1>4. Moves(L, "alone") \in Seq(Plan("read"))
  BY <1>3, PlanSome
<1>5. Moves(L, "alone") \o Moves(L, "alone") \in Seq(Plan("list"))
  BY <1>3, PlanSome, ConcatType
<1>6. Moves(L, "crest") \o Level(T) \in Seq(Plan("well"))
  <2>1. /\ Moves(L, "crest") \in Seq(Plan("well")) /\ Moves(T, "down") \in Seq(Plan("well"))
        /\ Moves(T, "view") \in Seq(Plan("well"))
    BY <1>3, PlanSome
  <2>2. Level(T) \in Seq(Plan("well"))
    BY <2>1, ConcatType DEF Level
  <2> QED
    BY <2>1, <2>2, ConcatType
<1>7. Moves(L, "alone") \o One(c, "drop") \o Moves(L, "alone") \o Moves(L, "alone")
        \in Seq(Plan("notes"))
  <2>1. Moves(L, "alone") \in Seq(Plan("notes")) /\ One(c, "drop") \in Seq(Plan("notes"))
    BY <1>3, PlanSome, PlanOne
  <2>2. Moves(L, "alone") \o One(c, "drop") \in Seq(Plan("notes"))
    BY <2>1, ConcatType
  <2>3. Moves(L, "alone") \o One(c, "drop") \o Moves(L, "alone") \in Seq(Plan("notes"))
    BY <2>1, <2>2, ConcatType
  <2> QED
    BY <2>1, <2>3, ConcatType
<1> QED
  BY <1>1, <1>2, <1>4, <1>5, <1>6, <1>7

LEMMA WritePlans ==
  ASSUME NEW c \in Chunks
  PROVE  /\ SetChunk(c) \o One(c, "alone") \o One(c, "view") \in Seq(Plan("write"))
         /\ One(c, "alone") \o SetChunk(c) \in Seq(Plan("write"))
         /\ One(c, "alone") \o One(c, "up") \o One(c, "remove") \in Seq(Plan("delete"))
<1>1. /\ \A w \in {"alone", "try", "up", "insert", "view"} : w \in WaysOf("write")
      /\ \A w \in {"alone", "up", "remove"} : w \in WaysOf("delete")
  BY DEF WaysOf
<1>2. Down(c) \in SUBSET Chunks /\ Above(c) \in SUBSET Chunks
  BY Relatives
<1>3. /\ One(c, "alone") \in Seq(Plan("write")) /\ One(c, "insert") \in Seq(Plan("write"))
      /\ One(c, "view") \in Seq(Plan("write"))
      /\ Moves(Above(c), "alone") \in Seq(Plan("write"))
      /\ Moves(Down(c), "alone") \in Seq(Plan("write"))
      /\ Moves(Above(c), "try") \in Seq(Plan("write"))
      /\ Moves(Above(c), "up") \in Seq(Plan("write"))
  BY <1>1, <1>2, PlanOne, PlanSome
<1>4. One(c, "alone") \o Moves(Above(c), "alone") \in Seq(Plan("write"))
  BY <1>3, ConcatType
<1>5. One(c, "alone") \o Moves(Above(c), "alone") \o Moves(Down(c), "alone")
        \in Seq(Plan("write"))
  BY <1>3, <1>4, ConcatType
<1>6. One(c, "alone") \o Moves(Above(c), "alone") \o Moves(Down(c), "alone")
        \o Moves(Above(c), "try") \in Seq(Plan("write"))
  BY <1>3, <1>5, ConcatType
<1>7. One(c, "alone") \o Moves(Above(c), "alone") \o Moves(Down(c), "alone")
        \o Moves(Above(c), "try") \o Moves(Above(c), "up") \in Seq(Plan("write"))
  BY <1>3, <1>6, ConcatType
<1>8. SetChunk(c) \in Seq(Plan("write"))
  BY <1>3, <1>7, ConcatType DEF SetChunk
<1>9. SetChunk(c) \o One(c, "alone") \in Seq(Plan("write"))
  BY <1>3, <1>8, ConcatType
<1>10. SetChunk(c) \o One(c, "alone") \o One(c, "view") \in Seq(Plan("write"))
  BY <1>3, <1>9, ConcatType
<1>11. One(c, "alone") \o SetChunk(c) \in Seq(Plan("write"))
  BY <1>3, <1>8, ConcatType
<1>12. One(c, "alone") \o One(c, "up") \in Seq(Plan("delete"))
  BY <1>1, PlanOne, ConcatType
<1>13. One(c, "alone") \o One(c, "up") \o One(c, "remove") \in Seq(Plan("delete"))
  BY <1>1, <1>12, PlanOne, ConcatType
<1> QED
  BY <1>10, <1>11, <1>13

LEMMA RequestsStep ==
  ASSUME Inv, NEW r \in Requests, NEW c \in Live,
         \/ ViewNote(r, c) \/ ReadNote(r, c) \/ Well(r, c)
         \/ Write(r, c) \/ Leave(r, c) \/ Delete(r, c)
  PROVE  Inv'
<1>1. c \in Chunks
  BY DEF Live
<1>2. /\ \A what \in {"view", "read", "well"} : what \in Kinds /\ "read" \in GuardsOf(what)
      /\ \A what \in {"write", "delete"} : what \in Kinds /\ "write" \in GuardsOf(what)
  BY DEF Kinds, GuardsOf
<1>3. CASE ViewNote(r, c)
  BY <1>1, <1>2, <1>3, ViewPlans, BeginsStep DEF ViewNote
<1>4. CASE ReadNote(r, c)
  BY <1>1, <1>2, <1>4, ViewPlans, BeginsStep DEF ReadNote
<1>5. CASE Well(r, c)
  BY <1>1, <1>2, <1>5, ViewPlans, BeginsStep DEF Well
<1>6. CASE Write(r, c)
  BY <1>1, <1>2, <1>6, WritePlans, BeginsStep DEF Write, WriteMayBegin
<1>7. CASE Leave(r, c)
  BY <1>1, <1>2, <1>7, WritePlans, BeginsStep DEF Leave, WriteMayBegin
<1>8. CASE Delete(r, c)
  BY <1>1, <1>2, <1>8, WritePlans, BeginsStep DEF Delete, WriteMayBegin
<1> QED
  BY <1>3, <1>4, <1>5, <1>6, <1>7, <1>8

LEMMA WholeRequestsStep ==
  ASSUME Inv, NEW r \in Requests, Copy(r) \/ Wells(r) \/ Notes(r) \/ List(r)
  PROVE  Inv'
<1>1. PICK c \in Chunks : c = CHOOSE k \in Chunks : TRUE
  BY LocksAssumption
<1>2. /\ \A what \in {"read", "well"} : what \in Kinds /\ "read" \in GuardsOf(what)
      /\ \A what \in {"notes", "list"} : what \in Kinds /\ "write" \in GuardsOf(what)
  BY DEF Kinds, GuardsOf
<1>3. CASE Copy(r)
  BY <1>1, <1>2, <1>3, AllPlans, BeginsStep DEF Copy
<1>4. CASE Wells(r)
  BY <1>1, <1>2, <1>4, AllPlans, BeginsStep DEF Wells
<1>5. CASE Notes(r)
  <2>1. Begins(r, "notes", "write",
               Moves(Live, "alone") \o One(c, "drop") \o Moves(Live, "alone")
               \o Moves(Live, "alone"))
    BY <1>1, <1>5 DEF Notes
  <2> QED
    BY <1>1, <1>2, <1>5, <2>1, AllPlans, BeginsStep DEF Notes
<1>6. CASE List(r)
  BY <1>1, <1>2, <1>6, AllPlans, BeginsStep DEF List
<1> QED
  BY <1>3, <1>4, <1>5, <1>6

\* The steps that a request makes from its bottom frame, and that leave the
\* other requests' frames alone.
LEMMA FromBottomStep ==
  ASSUME Inv, NEW r \in Requests,
         TryWrite(r) \/ TryWritePanics(r) \/ Pass(r) \/ Drop(r) \/ Answer(r)
  PROVE  Inv'
<1>1. /\ Shape /\ Good(r) /\ Exclusive
  BY DEF Inv
<1>2. kind[r] \in Kinds \union {"none"} /\ guard[r] \in {"none", "read", "write"}
  BY <1>1 DEF Shape
<1>3. kind = [kind EXCEPT ![r] = kind[r]] /\ guard = [guard EXCEPT ![r] = guard[r]]
  BY <1>1 DEF Shape
<1>4. /\ guard[r] = "write" => \A s \in Requests : s # r => guard[s] = "none"
      /\ guard[r] # "none" => \A s \in Requests : s # r => guard[s] # "write"
  BY <1>1 DEF Exclusive
<1>5. poisoned \in BOOLEAN
  BY <1>1 DEF Shape
<1>6. Framed(gone, <<>>, kind[r])
  BY DEF Framed
<1>7. CASE TryWrite(r)
  <2>1. More(r) /\ Move(r).way = "try"
    BY <1>7 DEF TryWrite
  <2>2. Len(stack[r]) = 1 /\ Move(r) \in Plan(kind[r])
    BY <1>1, <2>1, FromBottom
  <2>3. /\ Framed(gone, stack[r], kind[r]) /\ stack[r] \in Seq(Frames)
        /\ Top(r) = stack[r][1] /\ kind[r] \in Kinds /\ guard[r] \in GuardsOf(kind[r])
    BY <1>1, <2>1, <2>2, GoodFacts DEF More
  <2>4. Move(r).to \in Chunks /\ "try" \in WaysOf(kind[r])
    BY <2>1, <2>2 DEF Plan
  <2>5. Moves(Above(Move(r).to), "try") \in Seq(Plan(kind[r]))
    BY <2>4, Relatives, PlanSome
  <2>6. Top(r).at = Nobody /\ Top(r).moves \in Seq(Plan(kind[r])) /\ Top(r).moves # <<>>
    BY <2>1, <2>3 DEF Framed, More, Busy
  <2>7. Tail(Top(r).moves) \in Seq(Plan(kind[r]))
    BY <2>6, TailFacts
  <2>8. PICK moves \in Seq(Plan(kind[r])) :
          moves = Moves(Above(Move(r).to), "try") \o Tail(Top(r).moves)
    BY <2>5, <2>7, ConcatType
  <2>9. Top(r) \in Frames
    BY <2>2, <2>3
  <2>10. [Top(r) EXCEPT !.moves = moves] = [at |-> Nobody, moves |-> moves]
    BY <2>6, <2>9 DEF Frames
  <2>11. PICK gs : gs = <<[at |-> Nobody, moves |-> moves]>>
    OBVIOUS
  <2>12. Framed(gone, gs, kind[r]) /\ gs # <<>> /\ Len(gs) = 1
    BY <2>11, BottomFacts
  <2>13. stack' = [stack EXCEPT ![r] = gs]
    BY <1>7, <2>8, <2>10, <2>11 DEF TryWrite
  <2>14. (\A k \in 2..Len(stack[r]) : FALSE) /\ (\A k \in 2..Len(gs) : FALSE)
    BY <2>2, <2>12
  <2>15. kind' = kind /\ guard' = guard /\ holder' = holder /\ gone' = gone /\ poisoned' = poisoned
    BY <1>7 DEF TryWrite
  <2> QED
    BY <1>2, <1>3, <1>4, <1>5, <2>3, <2>12, <2>13, <2>14, <2>15, BottomStep
<1>8. CASE TryWritePanics(r) \/ Answer(r)
  <2>1. Len(stack[r]) = 1
    BY <1>1, <1>8, FromBottom DEF TryWritePanics, Answer
  <2>2. (\A k \in 2..Len(stack[r]) : FALSE) /\ (\A k \in 2..Len(<<>>) : FALSE)
    BY <2>1
  <2>3. /\ guard' = [guard EXCEPT ![r] = "none"] /\ stack' = [stack EXCEPT ![r] = <<>>]
        /\ kind' = kind /\ holder' = holder /\ gone' = gone /\ poisoned' \in BOOLEAN
    BY <1>5, <1>8 DEF TryWritePanics, Answer
  <2> QED
    BY <1>2, <1>3, <1>6, <2>2, <2>3, BottomStep
<1>9. CASE Pass(r) \/ Drop(r)
  <2>1. More(r) /\ Move(r).way \in {"past", "drop"}
    BY <1>9 DEF Pass, Drop
  <2>2. Len(stack[r]) = 1 /\ Move(r) \in Plan(kind[r])
    BY <1>1, <2>1, FromBottom
  <2>3. kind[r] \in Kinds /\ guard[r] \in GuardsOf(kind[r])
    BY <1>1, <2>1, GoodFacts DEF More
  <2>4. kind[r] = "notes"
    <3>1. Move(r).way \in WaysOf(kind[r])
      BY <2>2 DEF Plan
    <3> QED
      BY <2>1, <3>1 DEF WaysOf
  <2>5. PICK gs : gs = Made(r)
    OBVIOUS
  <2>6. Framed(gone, gs, kind[r]) /\ gs # <<>> /\ Len(gs) = 1
    BY <1>1, <2>1, <2>2, <2>5, MadeByOne
  <2>7. (\A k \in 2..Len(stack[r]) : FALSE) /\ (\A k \in 2..Len(gs) : FALSE)
    BY <2>2, <2>6
  <2>8. /\ stack' = [stack EXCEPT ![r] = gs]
        /\ kind' = kind /\ holder' = holder /\ gone' = gone /\ poisoned' = poisoned
    BY <1>9, <2>5 DEF Pass, Drop
  <2>9. "none" \in GuardsOf("notes")
    BY DEF GuardsOf
  <2>10. CASE guard' = guard
    BY <1>2, <1>3, <1>4, <1>5, <2>3, <2>6, <2>7, <2>8, <2>10, BottomStep
  <2>11. CASE guard' = [guard EXCEPT ![r] = "none"]
    BY <1>2, <1>3, <1>5, <2>3, <2>4, <2>6, <2>7, <2>8, <2>9, <2>11, BottomStep
  <2> QED
    BY <1>9, <2>10, <2>11 DEF Pass, Drop
<1> QED
  BY <1>7, <1>8, <1>9

LEMMA TakeStep ==
  ASSUME Inv, NEW r \in Requests, Take(r)
  PROVE  Inv'
<1>1. Shape /\ (\A s \in Requests : Good(s)) /\ Exclusive /\ Holds
  BY DEF Inv
<1>2. More(r) /\ Locks(r) /\ Busy(r)
  BY DEF Take, Locks, More
<1>3. PICK n \in Nat : n = Len(stack[r]) /\ n >= 1
  BY <1>1, <1>2, GoodFacts
<1>4. /\ Move(r) \in AnyMove
      /\ n = 1 => Move(r) \in Plan(kind[r])
      /\ kind[r] \in Flat => n = 1
      /\ n # 1 =>
           \/ /\ Falls(gone, stack[r][n].at, Move(r))
              /\ \A j \in 2..n : Depth[stack[r][j].at] <= Depth[stack[r][n].at]
           \/ /\ Rises(gone, stack[r][n].at, Move(r))
              /\ \A j \in 2..n : Depth[stack[r][j].at] >= Depth[stack[r][n].at]
  BY <1>1, <1>2, <1>3, MoveFacts
<1>5. PICK moves \in FramesOf(Move(r)) :
        stack' = [stack EXCEPT ![r] = Append(Made(r), [at |-> Move(r).to, moves |-> moves])]
  BY DEF Take
<1>6. PICK c \in Chunks : c = Move(r).to
  BY <1>4 DEF AnyMove
<1>7. Move(r).way \notin {"try", "insert", "remove", "drop", "past"}
  BY <1>2 DEF Locks
<1>8. /\ moves \in Seq(AnyMove)
      /\ Move(r).way = "alone" => moves = <<>>
      /\ \A l \in DOMAIN moves : Falls(gone, c, moves[l]) \/ Rises(gone, c, moves[l])
      /\ Move(r).way = "down" => \A l \in DOMAIN moves : Falls(gone, c, moves[l])
      /\ Move(r).way = "up" => \A l \in DOMAIN moves : Rises(gone, c, moves[l])
  BY <1>4, <1>5, <1>6, <1>7, FramesOfFacts
<1>9. PICK fs : fs = Made(r)
  OBVIOUS
<1>10. /\ Framed(gone, fs, kind[r]) /\ fs # <<>> /\ Len(fs) = n
       /\ \A k \in 1..n : fs[k].at = stack[r][k].at
  BY <1>1, <1>2, <1>3, <1>9, MadeByOne
<1>11. \A k \in 2..n : k \in 1..n
  OBVIOUS
<1>12. \A k \in 2..Len(fs) : fs[k].at # c
  <2> SUFFICES ASSUME NEW k \in 2..n, fs[k].at = c PROVE FALSE
    BY <1>10
  <2>1. stack[r][k].at = c
    BY <1>10, <1>11
  <2>2. kind[r] # "notes"
    BY <1>4 DEF Flat
  <2>3. holder[c] = r
    BY <2>1, <2>2, <1>1, <1>3 DEF Holds
  <2> QED
    BY <2>3, <1>6, LocksAssumption DEF Take
<1>13. kind[r] \in Flat => moves = <<>> /\ n = 1
  <2> SUFFICES ASSUME kind[r] \in Flat PROVE moves = <<>>
    BY <1>4, <1>10
  <2>1. Move(r).way \in WaysOf(kind[r])
    BY <1>4 DEF Plan
  <2>2. Move(r).way = "alone"
    BY <2>1, <1>7 DEF WaysOf, Flat
  <2> QED
    BY <2>2, <1>8
<1>14. ASSUME NEW l \in DOMAIN moves
       PROVE \/ /\ Falls(gone, c, moves[l])
                /\ \A j \in 2..n : Depth[fs[j].at] <= Depth[c]
             \/ /\ Rises(gone, c, moves[l])
                /\ \A j \in 2..n : Depth[fs[j].at] >= Depth[c]
  <2>1. CASE n = 1
    <3>1. \A j \in 2..n : FALSE
      BY <2>1
    <3> QED
      BY <3>1, <1>8, <1>14
  <2>2. CASE n # 1
    <3>1. PICK d \in Chunks : d = stack[r][n].at
      <4>1. \A i \in Nat : i >= 1 /\ i # 1 => i \in 2..i
        OBVIOUS
      <4>2. n \in 2..n
        BY <2>2, <1>3, <4>1
      <4> QED
        BY <4>2, <1>1, <1>3 DEF Good, Framed
    <3>2. /\ Depth[c] \in Nat /\ Depth[d] \in Nat
          /\ \A j \in 2..n : Depth[stack[r][j].at] \in Nat
      <4>1. \A j \in 2..n : stack[r][j].at \in Chunks
        BY <1>1, <1>3 DEF Good, Framed
      <4> QED
        BY <4>1, DepthFacts
    <3>3. CASE /\ Falls(gone, d, Move(r))
               /\ \A j \in 2..n : Depth[stack[r][j].at] <= Depth[d]
      <4>1. d \in Up[c] /\ Move(r).way \in {"alone", "down"}
        BY <3>3, <1>6 DEF Falls
      <4>2. Depth[d] < Depth[c]
        BY <4>1, DepthFacts
      <4>3. Falls(gone, c, moves[l])
        BY <4>1, <1>8, <1>14
      <4>4. ASSUME NEW j \in 2..n PROVE Depth[fs[j].at] <= Depth[c]
        <5>1. fs[j].at = stack[r][j].at
          BY <1>10, <1>11
        <5>2. Depth[stack[r][j].at] <= Depth[c]
          BY <4>2, <3>2, <3>3
        <5> QED
          BY <5>1, <5>2
      <4> QED
        BY <4>3, <4>4, <1>10
    <3>4. CASE /\ Rises(gone, d, Move(r))
               /\ \A j \in 2..n : Depth[stack[r][j].at] >= Depth[d]
      <4>1. c \in Up[d] /\ Move(r).way \in {"alone", "up"}
        BY <3>4, <1>6 DEF Rises
      <4>2. Depth[c] < Depth[d]
        BY <3>1, <4>1, DepthFacts
      <4>3. Rises(gone, c, moves[l])
        BY <4>1, <1>8, <1>14
      <4>4. ASSUME NEW j \in 2..n PROVE Depth[fs[j].at] >= Depth[c]
        <5>1. fs[j].at = stack[r][j].at
          BY <1>10, <1>11
        <5>2. Depth[stack[r][j].at] >= Depth[c]
          BY <4>2, <3>2, <3>4
        <5> QED
          BY <5>1, <5>2
      <4> QED
        BY <4>3, <4>4, <1>10
    <3> QED
      BY <2>2, <3>1, <3>3, <3>4, <1>4
  <2> QED
    BY <2>1, <2>2
<1>15. PICK gs : gs = Append(fs, [at |-> c, moves |-> moves])
  OBVIOUS
<1>16. /\ Framed(gone, gs, kind[r]) /\ gs # <<>>
       /\ Len(gs) = n + 1 /\ gs[n + 1].at = c
       /\ \A k \in 1..n : gs[k] = fs[k]
  <2>1. PICK f \in Frames : f = [at |-> c, moves |-> moves]
    BY <1>8 DEF Frames
  <2>2. f.at = c /\ f.moves = moves
    BY <2>1
  <2>3. fs \in Seq(Frames)
    BY <1>10 DEF Framed
  <2>4. /\ gs \in Seq(Frames) /\ Len(gs) = n + 1 /\ gs[n + 1] = f
        /\ \A k \in 1..n : gs[k] = fs[k]
    BY <2>1, <2>3, <1>10, <1>15, PushFacts
  <2>5. \A k \in 2..n : fs[k].at # c
    BY <1>10, <1>12
  <2>7. Leads(gone, fs, n, c, moves)
    BY <1>14 DEF Leads
  <2>8. /\ n \in Nat /\ n = Len(fs) /\ c \in Chunks
        /\ Framed(gone, fs, kind[r]) /\ fs # <<>>
        /\ gs \in Seq(Frames) /\ Len(gs) = n + 1
        /\ gs[n + 1].at = c /\ gs[n + 1].moves = moves
        /\ \A k \in 1..n : gs[k] = fs[k]
    BY <1>3, <1>6, <1>10, <2>2, <2>4
  <2>6. Framed(gone, gs, kind[r]) /\ gs # <<>>
    BY <1>13, <2>5, <2>7, <2>8, PushedFacts
  <2> QED
    BY <2>2, <2>4, <2>6
<1>17. /\ stack' = [stack EXCEPT ![r] = gs]
       /\ holder' = [holder EXCEPT ![c] = r] /\ holder[c] = Nobody
       /\ kind' = kind /\ guard' = guard /\ gone' = gone /\ poisoned' = poisoned
  BY <1>5, <1>6, <1>9, <1>15 DEF Take
<1>18. Shape'
  <2>1. gs \in Seq(Frames)
    BY <1>16 DEF Framed
  <2> QED
    BY <2>1, <1>1, <1>17 DEF Shape
<1>19. /\ stack'[r] = gs /\ holder'[c] = r
       /\ \A s \in Requests : s # r => stack'[s] = stack[s]
       /\ \A d \in Chunks : d # c => holder'[d] = holder[d]
  BY <1>1, <1>17 DEF Shape
<1>20. ASSUME NEW s \in Requests PROVE Good(s)'
  <2>1. CASE s = r
    <3>1. guard[r] \in GuardsOf(kind[r]) /\ kind[r] \in Kinds
      BY <1>1, <1>2, GoodFacts
    <3> QED
      BY <2>1, <3>1, <1>16, <1>17, <1>19 DEF Good
  <2>2. CASE s # r
    BY <2>2, <1>1, <1>17, <1>19 DEF Good
  <2> QED
    BY <2>1, <2>2
<1>21. Exclusive'
  BY <1>1, <1>17 DEF Exclusive
<1>22. Holds'
  <2>1. ASSUME NEW d \in Chunks, holder'[d] # Nobody
        PROVE  \E k \in 2..Len(stack'[holder'[d]]) : stack'[holder'[d]][k].at = d
    <3>1. CASE d = c
      <4>1. n + 1 \in 2..Len(gs)
        BY <1>3, <1>16
      <4> QED
        BY <3>1, <4>1, <1>16, <1>19
    <3>2. CASE d # c
      <4>1. holder'[d] = holder[d] /\ holder[d] \in Requests
        BY <2>1, <3>2, <1>1, <1>19 DEF Shape
      <4>2. PICK k \in 2..Len(stack[holder[d]]) : stack[holder[d]][k].at = d
        BY <2>1, <4>1, <1>1 DEF Holds
      <4>3. CASE holder[d] = r
        <5>1. k \in 2..n /\ k \in 2..Len(gs)
          BY <4>2, <4>3, <1>3, <1>16
        <5>2. gs[k].at = d
          BY <4>2, <4>3, <5>1, <1>10, <1>11, <1>16
        <5> QED
          BY <4>1, <4>3, <5>1, <5>2, <1>19
      <4>4. CASE holder[d] # r
        BY <4>1, <4>2, <4>4, <1>19
      <4> QED
        BY <4>3, <4>4
    <3> QED
      BY <3>1, <3>2
  <2>2. ASSUME NEW s \in Requests, kind[s] # "notes", NEW k \in 2..Len(stack'[s])
        PROVE  holder'[stack'[s][k].at] = s
    <3>1. CASE s = r
      <4>1. k = n + 1 \/ k \in 2..n
        BY <2>2, <3>1, <1>3, <1>16, <1>19
      <4>2. CASE k = n + 1
        BY <3>1, <4>2, <1>16, <1>19
      <4>3. CASE k \in 2..n
        <5>1. stack'[r][k].at = stack[r][k].at /\ fs[k].at = stack[r][k].at
          BY <4>3, <1>10, <1>11, <1>16, <1>19
        <5>2. holder[stack[r][k].at] = r /\ stack[r][k].at \in Chunks
          BY <2>2, <3>1, <4>3, <1>1, <1>3 DEF Holds, Good, Framed
        <5>3. stack[r][k].at # c
          BY <4>3, <5>1, <1>10, <1>12
        <5> QED
          BY <3>1, <5>1, <5>2, <5>3, <1>19
      <4> QED
        BY <4>1, <4>2, <4>3
    <3>2. CASE s # r
      <4>1. k \in 2..Len(stack[s]) /\ stack'[s] = stack[s]
        BY <2>2, <3>2, <1>19
      <4>2. holder[stack[s][k].at] = s /\ stack[s][k].at \in Chunks
        BY <2>2, <4>1, <1>1 DEF Holds, Good, Framed
      <4>3. stack[s][k].at # c
        BY <4>2, <1>17, LocksAssumption
      <4> QED
        BY <4>1, <4>2, <4>3, <1>19
    <3> QED
      BY <3>1, <3>2
  <2> QED
    BY <2>1, <2>2, <1>17 DEF Holds
<1> QED
  BY <1>18, <1>20, <1>21, <1>22 DEF Inv

LEMMA ReleaseStep ==
  ASSUME Inv, NEW r \in Requests, Release(r)
  PROVE  Inv'
<1>1. Shape /\ (\A s \in Requests : Good(s)) /\ Exclusive /\ Holds
  BY DEF Inv
<1>2. Len(stack[r]) > 1
  BY DEF Release
<1>3. PICK n \in Nat : n = Len(stack[r]) - 1 /\ Len(stack[r]) = n + 1 /\ n >= 1
  <2>1. Len(stack[r]) \in Nat
    BY <1>1 DEF Shape
  <2> QED
    BY <2>1, <1>2
<1>4. /\ Framed(gone, stack[r], kind[r]) /\ stack[r] # <<>> /\ Busy(r)
  BY <1>1, <1>2 DEF Good, Busy
<1>5. PICK c : c = Top(r).at
  OBVIOUS
<1>6. c \in Chunks /\ stack[r][n + 1].at = c /\ n + 1 \in 2..Len(stack[r])
  <2>1. Top(r) = stack[r][n + 1]
    BY <1>1, <1>3, <1>4, GoodFacts
  <2>2. n + 1 \in 2..Len(stack[r])
    BY <1>3
  <2> QED
    BY <2>1, <2>2, <1>4, <1>5 DEF Framed
<1>7. PICK gs : gs = Front(stack[r])
  OBVIOUS
<1>8. /\ Framed(gone, gs, kind[r]) /\ gs # <<>> /\ Len(gs) = n
      /\ \A k \in 1..n : gs[k] = stack[r][k]
  <2>1. PICK fs : fs = stack[r]
    OBVIOUS
  <2>2. Framed(gone, fs, kind[r]) /\ Len(fs) = n + 1 /\ fs \in Seq(Frames) /\ fs # <<>>
    BY <2>1, <1>1, <1>3, <1>4 DEF Shape
  <2>3. gs \in Seq(Frames) /\ Len(gs) = n /\ \A k \in 1..n : gs[k] = fs[k]
    BY <2>1, <2>2, <1>3, <1>7, BackFacts
  <2>4. Framed(gone, gs, kind[r]) /\ gs # <<>>
    BY <2>2, <2>3, <1>3, PopFacts
  <2> QED
    BY <2>1, <2>3, <2>4
<1>9. /\ stack' = [stack EXCEPT ![r] = gs]
      /\ holder' = [holder EXCEPT ![c] = IF holder[c] = r THEN Nobody ELSE holder[c]]
      /\ kind' = kind /\ guard' = guard /\ gone' = gone /\ poisoned' = poisoned
  BY <1>5, <1>7 DEF Release
<1>10. Shape'
  <2>1. gs \in Seq(Frames)
    BY <1>8 DEF Framed
  <2> QED
    BY <2>1, <1>1, <1>9 DEF Shape
<1>11. /\ stack'[r] = gs
       /\ \A s \in Requests : s # r => stack'[s] = stack[s]
       /\ \A d \in Chunks : holder[d] # r \/ d # c => holder'[d] = holder[d]
       /\ holder[c] = r => holder'[c] = Nobody
  BY <1>1, <1>6, <1>9 DEF Shape
<1>12. ASSUME NEW s \in Requests PROVE Good(s)'
  <2>1. CASE s = r
    <3>1. guard[r] \in GuardsOf(kind[r]) /\ kind[r] \in Kinds
      BY <1>1, <1>4, GoodFacts
    <3> QED
      BY <2>1, <3>1, <1>8, <1>9, <1>11 DEF Good
  <2>2. CASE s # r
    BY <2>2, <1>1, <1>9, <1>11 DEF Good
  <2> QED
    BY <2>1, <2>2
<1>13. Exclusive'
  BY <1>1, <1>9 DEF Exclusive
<1>14. \A k \in 2..n : k \in 1..n /\ k \in 2..Len(stack[r]) /\ k # n + 1
  BY <1>3
<1>15. Holds'
  <2>1. ASSUME NEW d \in Chunks, holder'[d] # Nobody
        PROVE  \E k \in 2..Len(stack'[holder'[d]]) : stack'[holder'[d]][k].at = d
    <3>1. holder'[d] = holder[d] /\ (holder[d] # r \/ d # c)
      BY <2>1, <1>11
    <3>2. holder[d] \in Requests
      BY <2>1, <3>1, <1>1 DEF Shape
    <3>3. PICK k \in 2..Len(stack[holder[d]]) : stack[holder[d]][k].at = d
      BY <2>1, <3>1, <1>1 DEF Holds
    <3>4. CASE holder[d] = r
      <4>1. k # n + 1
        BY <3>1, <3>3, <3>4, <1>6
      <4>2. k \in 2..n
        BY <3>3, <3>4, <4>1, <1>3
      <4>3. gs[k] = stack[r][k] /\ k \in 2..Len(gs)
        BY <4>2, <1>8, <1>14
      <4> QED
        BY <3>1, <3>3, <3>4, <4>3, <1>11
    <3>5. CASE holder[d] # r
      BY <3>1, <3>2, <3>3, <3>5, <1>11
    <3> QED
      BY <3>4, <3>5
  <2>2. ASSUME NEW s \in Requests, kind[s] # "notes", NEW k \in 2..Len(stack'[s])
        PROVE  holder'[stack'[s][k].at] = s
    <3>1. CASE s = r
      <4>1. k \in 2..n
        BY <2>2, <3>1, <1>8, <1>11
      <4>2. stack'[r][k].at = stack[r][k].at /\ k \in 2..Len(stack[r]) /\ k # n + 1
        BY <4>1, <1>8, <1>11, <1>14
      <4>3. holder[stack[r][k].at] = r /\ stack[r][k].at \in Chunks
        BY <2>2, <3>1, <4>2, <1>1, <1>4 DEF Holds, Framed
      <4>4. stack[r][k].at # c
        BY <4>2, <1>4, <1>6 DEF Framed
      <4> QED
        BY <3>1, <4>2, <4>3, <4>4, <1>11
    <3>2. CASE s # r
      <4>1. k \in 2..Len(stack[s]) /\ stack'[s] = stack[s]
        BY <2>2, <3>2, <1>11
      <4>2. holder[stack[s][k].at] = s /\ stack[s][k].at \in Chunks
        BY <2>2, <4>1, <1>1 DEF Holds, Good, Framed
      <4> QED
        BY <3>2, <4>1, <4>2, <1>11
    <3> QED
      BY <3>1, <3>2
  <2> QED
    BY <2>1, <2>2, <1>9 DEF Holds
<1> QED
  BY <1>10, <1>12, <1>13, <1>15 DEF Inv

LEMMA AgedPlans ==
  ASSUME NEW moves \in Seq(Plan("notes")), NEW c
  PROVE  Aged(moves, c) \in Seq(Plan("notes"))
<1>1. \A k \in DOMAIN moves : moves[k] \in Plan("notes")
  OBVIOUS
<1>2. "past" \in WaysOf("notes")
  BY DEF WaysOf
<1>3. \A m \in Plan("notes") : [m EXCEPT !.way = "past"] \in Plan("notes")
  BY <1>2 DEF Plan
<1>4. PICK n \in Nat : DOMAIN moves = 1..n
  OBVIOUS
<1>5. Aged(moves, c) = [k \in 1..n |-> IF moves[k].to = c
                          THEN [moves[k] EXCEPT !.way = "past"] ELSE moves[k]]
  BY <1>4 DEF Aged
<1>6. \A k \in 1..n : (IF moves[k].to = c
                       THEN [moves[k] EXCEPT !.way = "past"] ELSE moves[k]) \in Plan("notes")
  BY <1>1, <1>3, <1>4
<1> QED
  BY <1>4, <1>5, <1>6

LEMMA UnstoredStep ==
  ASSUME Inv, NEW r \in Requests, Insert(r) \/ Discard(r)
  PROVE  Inv'
<1>1. Shape /\ (\A s \in Requests : Good(s)) /\ Exclusive /\ Holds
  BY DEF Inv
<1>2. More(r) /\ Move(r).way \in {"insert", "remove"}
  BY DEF Insert, Discard
<1>3. Len(stack[r]) = 1 /\ Move(r) \in Plan(kind[r])
  BY <1>1, <1>2, FromBottom
<1>4. kind[r] \in Kinds /\ guard[r] \in GuardsOf(kind[r])
  BY <1>1, <1>2, GoodFacts DEF More
<1>5. guard[r] = "write"
  <2>1. Move(r).way \in WaysOf(kind[r])
    BY <1>3 DEF Plan
  <2>2. kind[r] \in {"write", "delete"}
    BY <1>2, <2>1 DEF WaysOf
  <2> QED
    BY <2>2, <1>4 DEF GuardsOf
<1>6. \A s \in Requests : s # r => stack[s] = <<>> \/ kind[s] = "notes"
  <2> SUFFICES ASSUME NEW s \in Requests, s # r, stack[s] # <<>> PROVE kind[s] = "notes"
    OBVIOUS
  <2>1. guard[s] = "none"
    BY <1>1, <1>5 DEF Exclusive
  <2>2. guard[s] \in GuardsOf(kind[s])
    BY <1>1 DEF Good
  <2> QED
    BY <2>1, <2>2 DEF GuardsOf
<1>7. PICK c \in Chunks : c = Move(r).to
  BY <1>3 DEF Plan
<1>8. /\ Unstored(r, c) /\ gone' \in SUBSET Chunks
      /\ kind' = kind /\ guard' = guard /\ poisoned' = poisoned
  BY <1>1, <1>7 DEF Insert, Discard, Shape
<1>9. /\ \A d \in Chunks : holder'[d] = IF d = c THEN Nobody ELSE holder[d]
      /\ holder' \in [Chunks -> Requests \union {Nobody}]
  BY <1>1, <1>8 DEF Shape, Unstored
\* The frames of r, and those of the others.
<1>10. /\ Framed(gone', stack'[r], kind[r]) /\ stack'[r] # <<>>
       /\ \A k \in 2..Len(stack'[r]) : FALSE
  <2>1. PICK gs : gs = Made(r)
    OBVIOUS
  <2>2. Framed(gone, gs, kind[r]) /\ gs # <<>> /\ Len(gs) = 1
    BY <1>1, <1>2, <1>3, <2>1, MadeByOne
  <2>3. \A k \in 2..Len(gs) : FALSE
    BY <2>2
  <2>4. Framed(gone', gs, kind[r])
    BY <2>2, <2>3 DEF Framed
  <2>5. stack'[r] = gs
    BY <2>1, <1>8 DEF Unstored
  <2> QED
    BY <2>2, <2>3, <2>4, <2>5
<1>11. ASSUME NEW s \in Requests, s # r
       PROVE  /\ Framed(gone', stack'[s], kind[s])
              /\ Len(stack'[s]) = Len(stack[s])
              /\ stack[s] = <<>> <=> stack'[s] = <<>>
              /\ \A k \in 2..Len(stack[s]) : stack'[s][k] = stack[s][k]
  <2>1. CASE stack[s] = <<>>
    <3>1. stack'[s] = <<>>
      BY <2>1, <1>8, <1>11 DEF Unstored, Busy
    <3>2. Framed(gone', <<>>, kind[s])
      BY DEF Framed
    <3> QED
      BY <2>1, <3>1, <3>2
  <2>2. CASE stack[s] # <<>>
    <3>1. kind[s] = "notes"
      BY <2>2, <1>6, <1>11
    <3>2. PICK fs : fs = stack[s]
      OBVIOUS
    <3>3. Framed(gone, fs, "notes") /\ fs # <<>> /\ "notes" \in Flat
      BY <2>2, <3>1, <3>2, <1>1 DEF Good, Flat
    <3>4. fs[1].moves \in Seq(Plan("notes"))
      BY <3>3 DEF Framed
    <3>5. PICK moves \in Seq(Plan("notes")) : moves = Aged(fs[1].moves, c)
      BY <3>4, AgedPlans
    <3>6. PICK gs : gs = [fs EXCEPT ![1].moves = moves]
      OBVIOUS
    <3>9. PICK n \in Nat : n = Len(fs) /\ n >= 1
      BY <3>3 DEF Framed
    <3>10. PICK f : f = [fs[1] EXCEPT !.moves = moves]
      OBVIOUS
    <3>11. f \in Frames /\ f.at = Nobody /\ f.moves = moves /\ fs \in Seq(Frames)
      <4>1. fs[1] \in Frames /\ fs[1].at = Nobody /\ fs \in Seq(Frames)
        BY <3>3, <3>9 DEF Framed
      <4>2. moves \in Seq(AnyMove)
        BY PlanMoves, WiderType
      <4> QED
        BY <4>1, <4>2, <3>10 DEF Frames
    <3>12. gs = [fs EXCEPT ![1] = f]
      BY <3>6, <3>10
    <3>13. /\ gs \in Seq(Frames) /\ Len(gs) = n /\ gs[1] = f
           /\ \A k \in 2..n : gs[k] = fs[k]
      BY <3>9, <3>11, <3>12
    <3>7. stack'[s] = gs
      BY <2>2, <3>1, <3>2, <3>5, <3>6, <1>8, <1>11 DEF Unstored, Busy
    <3>8. /\ Framed(gone', gs, "notes") /\ gs # <<>> /\ Len(gs) = Len(fs)
          /\ \A k \in 2..Len(fs) : gs[k] = fs[k]
      <4>1. gs[1].at = Nobody /\ gs[1].moves \in Seq(Plan("notes"))
        BY <3>5, <3>11, <3>13
      <4>2. Framed(gone', gs, "notes") /\ gs # <<>>
        BY <3>3, <3>9, <3>13, <4>1, RebottomFacts
      <4> QED
        BY <3>9, <3>13, <4>2
    <3> QED
      BY <2>2, <3>1, <3>2, <3>7, <3>8
  <2> QED
    BY <2>1, <2>2
<1>12. Shape'
  <2>1. \A s \in Requests : stack'[s] \in Seq(Frames)
    BY <1>10, <1>11 DEF Framed
  <2>2. stack' = [s \in Requests |-> stack'[s]]
    BY <1>8 DEF Unstored
  <2>3. stack' \in [Requests -> Seq(Frames)]
    BY <2>1, <2>2
  <2> QED
    BY <2>3, <1>1, <1>8, <1>9 DEF Shape
<1>13. ASSUME NEW s \in Requests PROVE Good(s)'
  <2>1. CASE s = r
    BY <2>1, <1>1, <1>4, <1>8, <1>10 DEF Good
  <2>2. CASE s # r
    BY <2>2, <1>1, <1>8, <1>11 DEF Good
  <2> QED
    BY <2>1, <2>2
<1>14. Exclusive'
  BY <1>1, <1>8 DEF Exclusive
<1>15. \A k \in 2..Len(stack[r]) : FALSE
  BY <1>3
<1>16. Holds'
  <2>1. ASSUME NEW d \in Chunks, holder'[d] # Nobody
        PROVE  \E k \in 2..Len(stack'[holder'[d]]) : stack'[holder'[d]][k].at = d
    <3>1. holder'[d] = holder[d]
      BY <2>1, <1>9
    <3>2. holder[d] \in Requests
      BY <2>1, <3>1, <1>1 DEF Shape
    <3>3. PICK k \in 2..Len(stack[holder[d]]) : stack[holder[d]][k].at = d
      BY <2>1, <3>1, <1>1 DEF Holds
    <3>4. holder[d] # r
      BY <3>3, <1>15
    <3> QED
      BY <3>1, <3>2, <3>3, <3>4, <1>11
  <2>2. ASSUME NEW s \in Requests, kind[s] # "notes", NEW k \in 2..Len(stack'[s])
        PROVE  holder'[stack'[s][k].at] = s
    <3>1. s # r
      BY <2>2, <1>10
    <3>2. stack[s] = <<>> /\ stack'[s] = <<>>
      BY <2>2, <3>1, <1>6, <1>11
    <3> QED
      BY <2>2, <3>2
  <2> QED
    BY <2>1, <2>2, <1>8 DEF Holds
<1> QED
  BY <1>12, <1>13, <1>14, <1>16 DEF Inv

LEMMA NextStep == Inv /\ [Next]_vars => Inv'
<1> SUFFICES ASSUME Inv, [Next]_vars PROVE Inv'
  OBVIOUS
<1>1. CASE UNCHANGED vars
  BY <1>1 DEF vars, Inv, Shape, Good, Exclusive, Holds
<1>2. ASSUME NEW r \in Requests, NEW c \in Live,
             \/ ViewNote(r, c) \/ ReadNote(r, c) \/ Well(r, c)
             \/ Write(r, c) \/ Leave(r, c) \/ Delete(r, c)
      PROVE  Inv'
  BY <1>2, RequestsStep
<1>3. ASSUME NEW r \in Requests, Copy(r) \/ Wells(r) \/ Notes(r) \/ List(r)
      PROVE  Inv'
  BY <1>3, WholeRequestsStep
<1>4. ASSUME NEW r \in Requests, Take(r) PROVE Inv'
  BY <1>4, TakeStep
<1>5. ASSUME NEW r \in Requests, Release(r) PROVE Inv'
  BY <1>5, ReleaseStep
<1>6. ASSUME NEW r \in Requests,
             TryWrite(r) \/ TryWritePanics(r) \/ Pass(r) \/ Drop(r) \/ Answer(r)
      PROVE  Inv'
  BY <1>6, FromBottomStep
<1>7. ASSUME NEW r \in Requests, Insert(r) \/ Discard(r) PROVE Inv'
  BY <1>7, UnstoredStep
<1> QED
  BY <1>1, <1>2, <1>3, <1>4, <1>5, <1>6, <1>7 DEF Next

LEMMA AlwaysInv == Spec => []Inv
  BY InitInv, NextStep, PTL DEF Spec
-----------------------------------------------------------------------------
(* What follows for the locks *)

LEMMA InvTypeOK == Inv => TypeOK
<1> SUFFICES ASSUME Inv PROVE TypeOK
  OBVIOUS
<1>1. Shape /\ (\A r \in Requests : Good(r)) /\ Holds
  BY DEF Inv
<1>2. ASSUME NEW r \in Requests, NEW k \in DOMAIN stack[r]
      PROVE  /\ k = 1 \/ k \in 2..Len(stack[r])
             /\ stack[r][k].at \in IF k = 1 THEN {Nobody} ELSE Chunks
             /\ stack[r][k].moves \in Seq(AnyMove)
  <2>1. stack[r] \in Seq(Frames) /\ stack[r] # <<>> /\ Framed(gone, stack[r], kind[r])
    BY <1>1, <1>2 DEF Shape, Good
  <2>2. PICK n \in Nat : n = Len(stack[r]) /\ DOMAIN stack[r] = 1..n
    BY <2>1
  <2>3. k = 1 \/ k \in 2..Len(stack[r])
    BY <1>2, <2>2
  <2>4. stack[r][k].at \in IF k = 1 THEN {Nobody} ELSE Chunks
    BY <2>1, <2>3 DEF Framed
  <2>5. stack[r][k] \in Frames
    BY <1>2, <2>1
  <2> QED
    BY <2>3, <2>4, <2>5 DEF Frames
<1>3. ASSUME NEW r \in Requests, NEW k \in DOMAIN stack[r],
             NEW l \in DOMAIN stack[r][k].moves
      PROVE  stack[r][k].moves[l].to \in Chunks /\ stack[r][k].moves[l].way \in Ways
  <2>1. stack[r][k].moves[l] \in AnyMove
    BY <1>2
  <2> QED
    BY <2>1 DEF AnyMove
<1>4. HoldersHaveFrames
  <2>1. ASSUME NEW c \in Chunks, holder[c] # Nobody
        PROVE  \E k \in DOMAIN stack[holder[c]] : stack[holder[c]][k].at = c
    <3>1. stack[holder[c]] \in Seq(Frames)
      BY <1>1, <2>1 DEF Shape
    <3>2. PICK k \in 2..Len(stack[holder[c]]) : stack[holder[c]][k].at = c
      BY <1>1, <2>1 DEF Holds
    <3>3. k \in DOMAIN stack[holder[c]]
      BY <3>1, <3>2
    <3> QED
      BY <3>2, <3>3
  <2>2. ASSUME NEW r \in Requests, NEW k \in DOMAIN stack[r], k > 1, kind[r] # "notes"
        PROVE  holder[stack[r][k].at] = r
    <3>1. k \in 2..Len(stack[r])
      BY <1>2, <2>2
    <3> QED
      BY <3>1, <2>2, <1>1 DEF Holds
  <2> QED
    BY <2>1, <2>2 DEF HoldersHaveFrames
<1> QED
  BY <1>1, <1>2, <1>3, <1>4 DEF Shape, TypeOK

\* The locks and the frames fit together: who has locked a chunk has a frame
\* for it, and a frame of anyone but a list of notes is a lock (the read() and
\* write() of DBChunks, given back in the order of the Rust scopes).
THEOREM TypeCorrect == Spec => []TypeOK
  BY AlwaysInv, InvTypeOK, PTL

LEMMA PanicStep ==
  ASSUME Inv, NEW r \in Requests, TryWritePanics(r)
  PROVE  kind[holder[Move(r).to]] = "notes"
<1>1. Shape /\ (\A s \in Requests : Good(s)) /\ Exclusive /\ Holds
  BY DEF Inv
<1>2. More(r) /\ Move(r).way = "try" /\ holder[Move(r).to] # Nobody
  BY DEF TryWritePanics
<1>3. Len(stack[r]) = 1 /\ Move(r) \in Plan(kind[r])
  BY <1>1, <1>2, FromBottom
<1>4. guard[r] = "write"
  <2>1. Move(r).way \in WaysOf(kind[r]) /\ guard[r] \in GuardsOf(kind[r])
    BY <1>1, <1>2, <1>3, GoodFacts DEF Plan, More
  <2>2. kind[r] \in {"write", "delete"}
    BY <1>2, <2>1 DEF WaysOf
  <2> QED
    BY <2>1, <2>2 DEF GuardsOf
<1>5. PICK c \in Chunks : c = Move(r).to
  BY <1>3 DEF Plan
<1>6. PICK s \in Requests : s = holder[c]
  BY <1>1, <1>2, <1>5 DEF Shape
<1>7. PICK k \in 2..Len(stack[s]) : stack[s][k].at = c
  BY <1>1, <1>2, <1>5, <1>6 DEF Holds
<1>8. s # r
  BY <1>3, <1>7
<1>9. stack[s] # <<>>
  BY <1>7
<1>10. guard[s] = "none" /\ guard[s] \in GuardsOf(kind[s])
  BY <1>1, <1>4, <1>8, <1>9 DEF Exclusive, Good
<1> QED
  BY <1>5, <1>6, <1>10 DEF GuardsOf

\* try_write().unwrap() in link_chunk panics, and poisons the DB, only for the
\* sake of a list of notes that is being sorted and viewed without a guard.
THEOREM PanicsAreNotes == Spec => OnlyNotesPoison
<1>1. Inv /\ [Next]_vars
        => [\A r \in Requests : TryWritePanics(r) => kind[holder[Move(r).to]] = "notes"]_vars
  BY PanicStep
<1> QED
  BY <1>1, AlwaysInv, PTL DEF Spec, OnlyNotesPoison

\* The request holds chunks and waits for one that is deeper than all of them,
\* or for one that is less deep than all of them.
Sinks(r) ==
  /\ \E c \in Held(r) : Move(r).to \in Down(c)
  /\ \A c \in Held(r) : Depth[c] < Depth[Move(r).to]
Climbs(r) ==
  /\ \E c \in Held(r) : Move(r).to \in Above(c)
  /\ \A c \in Held(r) : Depth[c] > Depth[Move(r).to]

LEMMA WaitersFacts ==
  ASSUME Inv, NEW R \in Circles, NEW r \in R
  PROVE  /\ r \in Requests /\ Move(r).to \in Chunks
         /\ Blocker(r) \in R /\ Move(r).to \in Held(Blocker(r))
         /\ Sinks(r) \/ Climbs(r)
         /\ kind[r] \in {"view", "well", "write", "delete"}
         /\ guard[r] \in GuardsOf(kind[r])
<1>1. Shape /\ (\A s \in Requests : Good(s)) /\ Exclusive /\ Holds
  BY DEF Inv
<1>2. /\ R \subseteq Requests /\ R = {Blocker(s) : s \in R}
      /\ \A s \in R : More(s) /\ holder[Move(s).to] # Nobody
  BY DEF Circles, Waits, Locks
<1>3. \A s \in R : Move(s).to \in Chunks
  <2> SUFFICES ASSUME NEW s \in R PROVE Move(s).to \in Chunks
    OBVIOUS
  <2>1. Move(s) \in AnyMove
    BY <1>1, <1>2, MoveFacts
  <2> QED
    BY <2>1 DEF AnyMove
<1>4. PICK s \in R : holder[Move(s).to] = r
  BY <1>2 DEF Blocker
<1>5. PICK n \in Nat : n = Len(stack[r]) /\ n >= 1
  BY <1>1, <1>2, GoodFacts DEF More
<1>6. \A c \in Held(r) : \E k \in 2..n : stack[r][k].at = c
  <2> SUFFICES ASSUME NEW c \in Held(r) PROVE \E k \in 2..n : stack[r][k].at = c
    OBVIOUS
  <2>1. c \in Chunks /\ holder[c] = r /\ r # Nobody
    BY <1>2, LocksAssumption DEF Held
  <2> QED
    BY <2>1, <1>1, <1>5 DEF Holds
<1>7. n # 1
  <2>1. Move(s).to \in Held(r)
    BY <1>3, <1>4 DEF Held
  <2> QED
    BY <2>1, <1>6
<1>8. /\ kind[r] \notin Flat
      /\ \/ /\ Falls(gone, stack[r][n].at, Move(r))
            /\ \A j \in 2..n : Depth[stack[r][j].at] <= Depth[stack[r][n].at]
         \/ /\ Rises(gone, stack[r][n].at, Move(r))
            /\ \A j \in 2..n : Depth[stack[r][j].at] >= Depth[stack[r][n].at]
  BY <1>1, <1>2, <1>5, <1>7, MoveFacts
<1>9. kind[r] \in {"view", "well", "write", "delete"} /\ guard[r] \in GuardsOf(kind[r])
  <2>1. kind[r] \in Kinds /\ guard[r] \in GuardsOf(kind[r])
    BY <1>1, <1>2, GoodFacts DEF More
  <2> QED
    BY <2>1, <1>8 DEF Kinds, Flat
<1>10. PICK d \in Held(r) : d = stack[r][n].at
  <2>1. \A i \in Nat : i >= 1 /\ i # 1 => i \in 2..i
    OBVIOUS
  <2>2. n \in 2..n
    BY <2>1, <1>5, <1>7
  <2>3. stack[r][n].at \in Chunks
    BY <2>2, <1>1, <1>2, <1>5 DEF Good, Framed
  <2>4. holder[stack[r][n].at] = r
    BY <2>2, <1>1, <1>2, <1>5, <1>9 DEF Holds
  <2> QED
    BY <2>3, <2>4 DEF Held
<1>11. PICK t \in Chunks : t = Move(r).to
  BY <1>3
<1>12. d \in Chunks /\ \A c \in Held(r) : c \in Chunks
  BY DEF Held
<1>13. Depth[t] \in Nat /\ Depth[d] \in Nat /\ \A c \in Held(r) : Depth[c] \in Nat
  BY <1>12, DepthFacts
<1>14. ASSUME /\ Falls(gone, d, Move(r))
              /\ \A j \in 2..n : Depth[stack[r][j].at] <= Depth[d]
       PROVE  Sinks(r)
  <2>1. t \in Chunks \ gone /\ d \in Up[t]
    BY <1>11, <1>14 DEF Falls
  <2>2. Depth[d] < Depth[t] /\ t \in Down(d)
    BY <2>1, <1>12, DepthFacts DEF Down, Live
  <2>3. ASSUME NEW c \in Held(r) PROVE Depth[c] < Depth[t]
    <3>1. Depth[c] <= Depth[d]
      BY <1>6, <1>14
    <3> QED
      BY <3>1, <2>2, <1>13
  <2> QED
    BY <2>2, <2>3, <1>10, <1>11 DEF Sinks
<1>15. ASSUME /\ Rises(gone, d, Move(r))
              /\ \A j \in 2..n : Depth[stack[r][j].at] >= Depth[d]
       PROVE  Climbs(r)
  <2>1. t \in Up[d] \ gone
    BY <1>11, <1>15 DEF Rises
  <2>2. Depth[t] < Depth[d] /\ t \in Above(d)
    BY <2>1, <1>12, DepthFacts DEF Above
  <2>3. ASSUME NEW c \in Held(r) PROVE Depth[c] > Depth[t]
    <3>1. Depth[c] >= Depth[d]
      BY <1>6, <1>15
    <3> QED
      BY <3>1, <2>2, <1>13
  <2> QED
    BY <2>2, <2>3, <1>10, <1>11 DEF Climbs
<1>16. Blocker(r) \in R /\ Move(r).to \in Held(Blocker(r))
  BY <1>2, <1>3 DEF Held, Blocker
<1> QED
  BY <1>2, <1>3, <1>8, <1>9, <1>10, <1>14, <1>15, <1>16

\* A request that waits in a circle has the DB's read guard: the holder of the
\* write guard is in no circle with others, and never waits for itself.
LEMMA WaitersRead ==
  ASSUME Inv, NEW R \in Circles, NEW r \in R
  PROVE  kind[r] \in {"view", "well"} /\ guard[r] = "read"
<1>1. /\ r \in Requests /\ kind[r] \in {"view", "well", "write", "delete"}
      /\ guard[r] \in GuardsOf(kind[r]) /\ Move(r).to \in Chunks
      /\ Blocker(r) \in R /\ Move(r).to \in Held(Blocker(r))
      /\ Sinks(r) \/ Climbs(r)
  BY WaitersFacts
<1>2. guard[r] # "write"
  <2> SUFFICES ASSUME guard[r] = "write" PROVE FALSE
    OBVIOUS
  <2>1. PICK s \in R : s = Blocker(r)
    BY <1>1
  <2>2. /\ s \in Requests /\ kind[s] \in {"view", "well", "write", "delete"}
        /\ guard[s] \in GuardsOf(kind[s])
    BY WaitersFacts
  <2>3. guard[s] # "none"
    BY <2>2 DEF GuardsOf
  <2>4. s = r
    BY <1>1, <2>2, <2>3 DEF Inv, Exclusive
  <2>5. PICK t \in Held(r) : t = Move(r).to
    BY <1>1, <2>1, <2>4
  <2>6. Depth[t] < Depth[t] \/ Depth[t] > Depth[t]
    BY <1>1, <2>5 DEF Sinks, Climbs
  <2>7. Depth[t] \in Nat
    BY DepthFacts DEF Held
  <2> QED
    BY <2>6, <2>7
<1> QED
  BY <1>1, <1>2 DEF GuardsOf

\* There is no circle of requests that all wait downwards, nor of requests that
\* all wait upwards: each would wait for a deeper chunk than the one before.
LEMMA SomeClimb ==
  ASSUME Inv, NEW R \in Circles
  PROVE  \E r \in R : Climbs(r)
<1> SUFFICES ASSUME \A r \in R : ~Climbs(r) PROVE FALSE
  OBVIOUS
<1> DEFINE Left == {Cardinality(Chunks) - Depth[Move(r).to] : r \in R}
<1>1. \A r \in R : Depth[Move(r).to] \in Nat /\ Depth[Move(r).to] <= Cardinality(Chunks)
  BY WaitersFacts, DepthFacts
<1>2. Left \subseteq Nat
  BY <1>1, DepthFacts
<1>3. Left # {}
  BY DEF Circles
<1>4. PICK x \in Left : \A y \in Left : x <= y
  BY <1>2, <1>3, LeastNatural
<1>5. PICK r \in R : x = Cardinality(Chunks) - Depth[Move(r).to]
  BY <1>4
<1>6. PICK s \in R : s = Blocker(r) /\ Move(r).to \in Held(s)
  BY WaitersFacts
<1>7. Sinks(s)
  BY WaitersFacts
<1>8. Depth[Move(r).to] < Depth[Move(s).to]
  BY <1>6, <1>7 DEF Sinks
<1>9. x <= Cardinality(Chunks) - Depth[Move(s).to]
  BY <1>4
<1>10. PICK a \in Nat : a = Depth[Move(r).to]
  BY <1>1
<1>11. PICK b \in Nat : b = Depth[Move(s).to]
  BY <1>1
<1>12. PICK n \in Nat : n = Cardinality(Chunks)
  BY DepthFacts
<1>13. a < b /\ n - a <= n - b
  BY <1>5, <1>8, <1>9, <1>10, <1>11, <1>12
<1> QED
  BY <1>13, <1>10, <1>11, <1>12

LEMMA SomeSink ==
  ASSUME Inv, NEW R \in Circles
  PROVE  \E r \in R : Sinks(r)
<1> SUFFICES ASSUME \A r \in R : ~Sinks(r) PROVE FALSE
  OBVIOUS
<1> DEFINE Left == {Depth[Move(r).to] : r \in R}
<1>1. \A r \in R : Depth[Move(r).to] \in Nat
  BY WaitersFacts, DepthFacts
<1>2. Left \subseteq Nat
  BY <1>1
<1>3. Left # {}
  BY DEF Circles
<1>4. PICK x \in Left : \A y \in Left : x <= y
  BY <1>2, <1>3, LeastNatural
<1>5. PICK r \in R : x = Depth[Move(r).to]
  BY <1>4
<1>6. PICK s \in R : s = Blocker(r) /\ Move(r).to \in Held(s)
  BY WaitersFacts
<1>7. Climbs(s)
  BY WaitersFacts
<1>8. Depth[Move(r).to] > Depth[Move(s).to]
  BY <1>6, <1>7 DEF Climbs
<1>9. x <= Depth[Move(s).to]
  BY <1>4
<1> QED
  BY <1>1, <1>5, <1>8, <1>9

LEMMA InvOnlyViewsCross == Inv => OnlyViewsCross
<1> SUFFICES ASSUME Inv, NEW R \in Circles
             PROVE  /\ \A r \in R : kind[r] \in {"view", "well"} /\ guard[r] = "read"
                    /\ \E r \in R : \E c \in Held(r) : Move(r).to \in Above(c)
                    /\ \E r \in R : \E c \in Held(r) : Move(r).to \in Down(c)
  BY DEF OnlyViewsCross
<1>1. \A r \in R : kind[r] \in {"view", "well"} /\ guard[r] = "read"
  BY WaitersRead
<1>2. \E r \in R : \E c \in Held(r) : Move(r).to \in Above(c)
  BY SomeClimb DEF Climbs
<1>3. \E r \in R : \E c \in Held(r) : Move(r).to \in Down(c)
  BY SomeSink DEF Sinks
<1> QED
  BY <1>1, <1>2, <1>3

\* Whenever requests wait for each other in a circle, they are views under the
\* read guard, one on its way up and one on its way down: ChunkView::from and
\* get_prop_dynamic (src/src/v1/db) lock relatives while their chunk is locked.
THEOREM ViewsCross == Spec => []OnlyViewsCross
  BY AlwaysInv, InvOnlyViewsCross, PTL
===============================================================================
