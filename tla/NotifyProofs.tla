----------------------------- MODULE NotifyProofs -----------------------------
(***************************************************************************)
(* The safety of the notifications, for every set of users, sockets and    *)
(* requests, every capacity of the channel and every bound on the writes.  *)
(*                                                                         *)
(* The inductive invariant Inv is about the drafts: nothing is of a        *)
(* version that is still to come, what a socket has to send is of the      *)
(* version of now, for it holds the lock, and no list waits behind         *)
(* content that chunks_put has still to fetch.                             *)
(***************************************************************************)
EXTENDS Notify, TLAPS

\* What a draft, or a message, says of the note's content is not of a version
\* that is still to come.
Past(d)    == d.kind \in Content => d.version <= version
Current(d) == d.kind \in Content => d.version = version

LogPast == \A k \in DOMAIN log : Past(log[k])

DraftsPast == \A t \in Tasks : \A k \in DOMAIN todo[t] : Past(todo[t][k])

\* While a socket has something to send nothing is written: it holds the lock.
SocketsCurrent == \A s \in Sockets : \A k \in DOMAIN todo[s] : Current(todo[s][k])

\* A request that is not served yet has nothing to send.
Unserved == \A r \in Requests \ served : todo[r] = <<>>

\* No list waits behind content that is still to be fetched, and with it would
\* be lost by the panic.
ListsFirst ==
  \A t \in Tasks : \A k \in DOMAIN todo[t] : \A j \in k..Len(todo[t]) :
    todo[t][k].kind = "fetch" => todo[t][j].kind # "list"

Inv == /\ TypeOK /\ LogPast /\ DraftsPast /\ SocketsCurrent
       /\ Unserved /\ ListsFirst /\ SocketsSendInOrder

-----------------------------------------------------------------------------
(* Sequences *)

LEMMA TailFacts ==
  ASSUME NEW S, NEW s \in Seq(S), s # <<>>
  PROVE  /\ 1 \in DOMAIN s /\ Head(s) = s[1] /\ Head(s) \in S
         /\ Tail(s) \in Seq(S) /\ Len(Tail(s)) = Len(s) - 1
         /\ \A k \in 1..Len(Tail(s)) : k + 1 \in 1..Len(s) /\ Tail(s)[k] = s[k + 1]
  OBVIOUS

LEMMA AppendFacts ==
  ASSUME NEW S, NEW s \in Seq(S), NEW e \in S
  PROVE  /\ Append(s, e) \in Seq(S)
         /\ Len(Append(s, e)) = Len(s) + 1
         /\ Append(s, e)[Len(s) + 1] = e
         /\ \A k \in 1..Len(s) : Append(s, e)[k] = s[k]
  OBVIOUS

\* A sequence with another first element.
LEMMA ReplaceFacts ==
  ASSUME NEW S, NEW s \in Seq(S), s # <<>>, NEW e \in S
  PROVE  /\ <<e>> \o Tail(s) \in Seq(S)
         /\ Len(<<e>> \o Tail(s)) = Len(s)
         /\ (<<e>> \o Tail(s))[1] = e
         /\ \A k \in 2..Len(s) : (<<e>> \o Tail(s))[k] = s[k]
  OBVIOUS

\* A sequence with one more element, or as it was.
LEMMA OneMoreFacts ==
  ASSUME NEW S, NEW s \in Seq(S), NEW e \in S, NEW b \in BOOLEAN,
         NEW r, r = s \o (IF b THEN <<e>> ELSE <<>>)
  PROVE  /\ r \in Seq(S)
         /\ Len(r) = IF b THEN Len(s) + 1 ELSE Len(s)
         /\ \A k \in 1..Len(s) : r[k] = s[k]
         /\ b => r[Len(s) + 1] = e
<1>1. CASE b
  <2>1. s \o <<e>> = Append(s, e)
    OBVIOUS
  <2> QED
    BY <1>1, <2>1
<1>2. CASE ~b
  <2>1. s \o <<>> = s
    OBVIOUS
  <2> QED
    BY <1>2, <2>1
<1> QED
  BY <1>1, <1>2

LEMMA TwoOrThreeFacts ==
  ASSUME NEW a, NEW b, NEW c, NEW B
  PROVE  <<a, b>> \o (IF B = {} THEN <<>> ELSE <<c>>) \in Seq({a, b, c})
<1>1. /\ <<a, b>> \in Seq({a, b, c})
      /\ (IF B = {} THEN <<>> ELSE <<c>>) \in Seq({a, b, c})
  OBVIOUS
<1>2. \A r, s \in Seq({a, b, c}) : r \o s \in Seq({a, b, c})
  OBVIOUS
<1> QED
  BY <1>1, <1>2

LEMMA WiderFacts ==
  ASSUME NEW S, NEW T, T \subseteq S, NEW s, s \in Seq(T)
  PROVE  s \in Seq(S) /\ (\A k \in DOMAIN s : s[k] \in T)
  OBVIOUS

-----------------------------------------------------------------------------
(* Drafts *)

LEMMA DraftType ==
  ASSUME NEW kind \in Kinds \union {"fetch"}, NEW users \in SUBSET Users,
         NEW entitled \in SUBSET Users, NEW v \in Versions
  PROVE  /\ Draft(kind, users, entitled, v) \in Drafts
         /\ Draft(kind, users, entitled, v).kind = kind
         /\ Draft(kind, users, entitled, v).users = users
         /\ Draft(kind, users, entitled, v).version = v
  BY DEF Draft, Drafts

LEMMA UserSets ==
  ASSUME TypeOK
  PROVE  /\ 0 \in Versions /\ version \in Versions
         /\ readers \in SUBSET Users /\ Owner \in Users
         /\ \A rs \in SUBSET (Users \ {Owner}) :
              AccessUsers(rs) \in SUBSET Users /\ Told(rs) \in SUBSET Users
  BY NotifyAssumption DEF TypeOK, Versions, AccessUsers, Told, SymDiff

\* What the handlers have to send, in order.
LEMMA PutDraftsAre ==
  ASSUME TypeOK, NEW u \in Users, NEW rs \in SUBSET (Users \ {Owner}), NEW named \in BOOLEAN
  PROVE  LET ds == PutDrafts(u, rs, named) IN
         /\ ds \in Seq(Drafts)
         /\ Len(ds) \in {1, 2}
         /\ ds[1].kind = "list" /\ (Len(ds) = 2 => ds[2].kind = "fetch")
<1>1. List(Told(rs)) \in Drafts /\ List(Told(rs)).kind = "list"
  BY UserSets, DraftType DEF List, Kinds
<1>2. Fetching(rs \union {u}, u) \in Drafts /\ Fetching(rs \union {u}, u).kind = "fetch"
  BY UserSets, DraftType DEF Fetching
<1>3. <<List(Told(rs))>> \in Seq(Drafts) /\ Len(<<List(Told(rs))>>) = 1
  BY <1>1
<1>4. /\ PutDrafts(u, rs, named) \in Seq(Drafts)
      /\ Len(PutDrafts(u, rs, named)) = IF named THEN 2 ELSE 1
      /\ PutDrafts(u, rs, named)[1] = List(Told(rs))
      /\ named => PutDrafts(u, rs, named)[2] = Fetching(rs \union {u}, u)
  BY <1>2, <1>3, OneMoreFacts DEF PutDrafts
<1> QED
  BY <1>1, <1>2, <1>4

LEMMA OneDraft ==
  ASSUME TypeOK, NEW users \in SUBSET Users, NEW u \in Users
  PROVE  /\ <<List(users)>> \in Seq(Drafts) /\ <<Close(u)>> \in Seq(Drafts)
         /\ List(users).kind = "list" /\ Close(u).kind = "close"
<1>1. List(users) \in Drafts /\ List(users).kind = "list"
  BY UserSets, DraftType DEF List, Kinds
<1>2. Close(u) \in Drafts /\ Close(u).kind = "close"
  BY UserSets, DraftType DEF Close, Kinds
<1> QED
  BY <1>1, <1>2

UpdateDrafts(users, v, told) ==
  <<Diff(users, v), View(users, users, v)>> \o
    (IF told = {} THEN <<>> ELSE <<List(told)>>)

LEMMA UpdateDraftsAre ==
  ASSUME TypeOK, NEW users \in SUBSET Users, NEW v \in Versions, NEW told \in SUBSET Users,
         NEW ds, ds = UpdateDrafts(users, v, told)
  PROVE  /\ ds \in Seq(Drafts)
         /\ \A k \in DOMAIN ds : /\ ds[k].kind # "fetch"
                                 /\ ds[k].kind \in Content => ds[k].version = v
<1>1. /\ Diff(users, v) \in Drafts /\ Diff(users, v).kind = "diff"
      /\ Diff(users, v).version = v
  BY DraftType DEF Diff, Kinds
<1>2. /\ View(users, users, v) \in Drafts /\ View(users, users, v).kind = "view"
      /\ View(users, users, v).version = v
  BY DraftType DEF View, Kinds
<1>3. List(told) \in Drafts /\ List(told).kind = "list"
  BY UserSets, DraftType DEF List, Kinds
<1>4. ds = <<Diff(users, v), View(users, users, v)>> \o
             (IF told = {} THEN <<>> ELSE <<List(told)>>)
  BY DEF UpdateDrafts
<1>5. /\ ds \in Seq(Drafts)
      /\ \A k \in DOMAIN ds :
           ds[k] \in {Diff(users, v), View(users, users, v), List(told)}
  <2> DEFINE T == {Diff(users, v), View(users, users, v), List(told)}
  <2>1. ds \in Seq(T)
    BY <1>4, TwoOrThreeFacts
  <2>2. T \subseteq Drafts
    BY <1>1, <1>2, <1>3
  <2> HIDE DEF T
  <2>3. ds \in Seq(Drafts) /\ (\A k \in DOMAIN ds : ds[k] \in T)
    BY <2>1, <2>2, WiderFacts
  <2> QED
    BY <2>3 DEF T
<1> QED
  BY <1>1, <1>2, <1>3, <1>5 DEF Content
-----------------------------------------------------------------------------
(* Type correctness *)

LEMMA InitType == Init => TypeOK
<1> SUFFICES ASSUME Init PROVE TypeOK
  OBVIOUS
<1>1. \A S : <<>> \in Seq(S) /\ Len(<<>>) = 0
  OBVIOUS
<1>2. pos \in [Sockets -> 0..Len(log)]
  BY <1>1 DEF Init
<1>3. readers \in SUBSET (Users \ {Owner})
  BY DEF Init
<1> QED
  BY <1>1, <1>2, <1>3, NotifyAssumption DEF Init, TypeOK, Versions

\* A write moves the version on, and keeps the note's type.
LEMMA WriteType ==
  ASSUME TypeOK, NEW u \in Users, NEW rs \in SUBSET (Users \ {Owner}), Write(u, rs)
  PROVE  /\ exists' \in BOOLEAN /\ readers' \in SUBSET (Users \ {Owner})
         /\ version' \in Versions /\ version' = version + 1 /\ version' > version
  BY NotifyAssumption DEF TypeOK, Write, Versions

LEMMA WriteGrows ==
  ASSUME TypeOK, NEW u, NEW rs, Write(u, rs)
  PROVE  version' >= version
  BY NotifyAssumption DEF TypeOK, Write, Versions

\* A handler that starts to send, its drafts being drafts.
LEMMA StartsType ==
  ASSUME TypeOK, NEW t \in Tasks, NEW ds \in Seq(Drafts), Starts(t, ds)
  PROVE  /\ todo' \in [Tasks -> Seq(Drafts)]
         /\ phase' \in [Tasks -> {"load", "store", "send"}]
         /\ loaded' \in [Tasks -> Nat]
  BY DEF TypeOK, Starts

LEMMA FirstDraft ==
  ASSUME TypeOK, NEW t \in Tasks, todo[t] # <<>>
  PROVE  /\ todo[t] \in Seq(Drafts) /\ 1 \in DOMAIN todo[t]
         /\ Head(todo[t]) = todo[t][1] /\ Head(todo[t]) \in Drafts
         /\ Tail(todo[t]) \in Seq(Drafts)
         /\ Len(Tail(todo[t])) = Len(todo[t]) - 1
         /\ \A k \in 1..Len(Tail(todo[t])) :
              k + 1 \in 1..Len(todo[t]) /\ Tail(todo[t])[k] = todo[t][k + 1]
  BY TailFacts DEF TypeOK

\* The message that a task sends.
Message(t) ==
  [kind |-> Head(todo[t]).kind, users |-> Head(todo[t]).users,
   entitled |-> Head(todo[t]).entitled, version |-> Head(todo[t]).version,
   id |-> loaded[t], by |-> t]

LEMMA MessageType ==
  ASSUME TypeOK, NEW t \in Tasks, todo[t] # <<>>, ~MustFetch(t)
  PROVE  /\ Message(t) \in Messages
         /\ Message(t).kind = todo[t][1].kind /\ Message(t).version = todo[t][1].version
         /\ Message(t).users = todo[t][1].users /\ Message(t).by = t
<1>1. Head(todo[t]) \in Drafts /\ Head(todo[t]).kind # "fetch" /\ Head(todo[t]) = todo[t][1]
  BY FirstDraft DEF MustFetch
<1>2. loaded[t] \in Nat
  BY DEF TypeOK
<1> QED
  BY <1>1, <1>2 DEF Message, Messages, Drafts

LEMMA FetchedType ==
  ASSUME TypeOK, NEW r \in Requests, todo[r] # <<>>
  PROVE  View(Head(todo[r]).users, AccessUsers(readers), version) \in Drafts
<1>1. r \in Tasks
  BY DEF Tasks
<1>2. Head(todo[r]).users \in SUBSET Users
  BY <1>1, FirstDraft DEF Drafts
<1>3. AccessUsers(readers) \in SUBSET Users /\ version \in Versions
  BY UserSets DEF TypeOK
<1> QED
  BY <1>2, <1>3, DraftType DEF View, Kinds

LEMMA TypeStep ==
  ASSUME TypeOK, [Next]_vars
  PROVE  TypeOK'
<1> USE NotifyAssumption
<1>1. ASSUME NEW r \in Requests, NEW u \in Users, NEW rs \in SUBSET (Users \ {Owner}),
             NEW named \in BOOLEAN, Put(r, u, rs, named)
      PROVE  TypeOK'
  <2>1. PutDrafts(u, rs, named) \in Seq(Drafts) /\ r \in Tasks
    BY PutDraftsAre DEF Tasks
  <2> QED
    BY <1>1, <2>1, WriteType, StartsType DEF Put, Serve, TypeOK, conns
<1>2. ASSUME NEW r \in Requests, NEW u \in Users, Delete(r, u)
      PROVE  TypeOK'
  <2> DEFINE us == IF u = Owner THEN AccessUsers(readers) ELSE {u}
  <2>1. us \in SUBSET Users /\ r \in Tasks
    BY UserSets DEF Tasks, TypeOK
  <2>2. <<List(us)>> \in Seq(Drafts)
    BY <2>1, OneDraft
  <2>3. Starts(r, <<List(us)>>)
    BY <1>2 DEF Delete
  <2> HIDE DEF us
  <2>4. /\ todo' \in [Tasks -> Seq(Drafts)]
        /\ phase' \in [Tasks -> {"load", "store", "send"}]
        /\ loaded' \in [Tasks -> Nat]
    BY <2>1, <2>2, <2>3, StartsType
  <2> QED
    BY <1>2, <2>4 DEF Delete, Serve, TypeOK, conns
<1>3. ASSUME NEW r \in Requests, NEW u \in Users, LogoutAll(r, u)
      PROVE  TypeOK'
  <2>1. <<Close(u)>> \in Seq(Drafts) /\ r \in Tasks
    BY OneDraft DEF Tasks
  <2> QED
    BY <1>3, <2>1, StartsType DEF LogoutAll, Serve, TypeOK, conns, note
<1>4. ASSUME NEW s \in Sockets, NEW rs \in SUBSET (Users \ {Owner}), Update(s, rs)
      PROVE  TypeOK'
  <2> DEFINE ds == UpdateDrafts(AccessUsers(rs), version', Told(rs))
  <2>1. s \in Tasks /\ UserOf[s] \in Users
    BY DEF Tasks
  <2>2. /\ Write(UserOf[s], rs) /\ Starts(s, ds)
        /\ UNCHANGED <<counter, log, served, conns>>
    BY <1>4 DEF Update, UpdateDrafts
  <2>3. version' \in Versions
    BY <2>1, <2>2, WriteType
  <2>4. ds \in Seq(Drafts)
    BY <2>3, UserSets, UpdateDraftsAre
  <2> HIDE DEF ds
  <2> QED
    BY <2>1, <2>2, <2>4, WriteType, StartsType DEF TypeOK, conns
<1>5. ASSUME NEW r \in Requests, Fetch(r)
      PROVE  TypeOK'
  <2>1. /\ todo[r] # <<>> /\ r \in Tasks
        /\ todo' = [todo EXCEPT ![r] =
             <<View(Head(todo[r]).users, AccessUsers(readers), version)>> \o Tail(todo[r])]
    BY <1>5 DEF Fetch, MustFetch, Tasks, TypeOK
  <2>2. <<View(Head(todo[r]).users, AccessUsers(readers), version)>> \o Tail(todo[r])
          \in Seq(Drafts)
    BY <2>1, FetchedType, FirstDraft, ReplaceFacts
  <2>3. todo' \in [Tasks -> Seq(Drafts)]
    BY <2>1, <2>2 DEF TypeOK
  <2> QED
    BY <1>5, <2>3 DEF Fetch, TypeOK, conns, note
<1>6. ASSUME NEW r \in Requests, FetchPanics(r)
      PROVE  TypeOK'
  <2>1. <<>> \in Seq(Drafts)
    OBVIOUS
  <2>2. todo' \in [Tasks -> Seq(Drafts)]
    BY <1>6, <2>1 DEF FetchPanics, TypeOK
  <2> QED
    BY <1>6, <2>2 DEF FetchPanics, TypeOK, conns, note
<1>7. ASSUME NEW t \in Tasks, LoadId(t)
      PROVE  TypeOK'
  BY <1>7 DEF LoadId, TypeOK, conns, note
<1>8. ASSUME NEW t \in Tasks, StoreId(t)
      PROVE  TypeOK'
  <2>1. last' \in [Sockets -> Nat]
    <3>1. loaded[t] \in Nat /\ last \in [Sockets -> Nat]
      BY DEF TypeOK
    <3> QED
      BY <1>8, <3>1 DEF StoreId
  <2>2. /\ counter' \in Nat
        /\ phase' \in [Tasks -> {"load", "store", "send"}]
    BY <1>8 DEF StoreId, TypeOK
  <2> QED
    BY <1>8, <2>1, <2>2 DEF StoreId, TypeOK, note
<1>9. ASSUME NEW t \in Tasks, Send(t)
      PROVE  TypeOK'
  <2>1. todo[t] # <<>> /\ ~MustFetch(t) /\ log' = Append(log, Message(t))
    BY <1>9 DEF Send, Sends, Message
  <2>2. log' \in Seq(Messages) /\ Len(log') = Len(log) + 1
    BY <2>1, MessageType, AppendFacts DEF TypeOK
  <2>3. pos' \in [Sockets -> 0..Len(log')]
    BY <1>9, <2>2 DEF Send, conns, TypeOK
  <2>4. todo' \in [Tasks -> Seq(Drafts)]
    BY <1>9, <2>1, FirstDraft DEF Send, TypeOK
  <2> QED
    BY <1>9, <2>2, <2>3, <2>4 DEF Send, TypeOK, conns, note
<1>10. ASSUME NEW s \in Sockets, Handshake(s) \/ Subscribe(s) \/ Lagged(s) \/ Disconnect(s)
       PROVE  TypeOK'
  <2>1. Len(log) \in 0..Len(log)
    BY DEF TypeOK
  <2>2. /\ sock' \in [Sockets -> {"new", "upgrading", "open", "closed"}]
        /\ pos' \in [Sockets -> 0..Len(log)]
    BY <1>10, <2>1 DEF Handshake, Subscribe, Lagged, Disconnect, TypeOK
  <2>3. UNCHANGED <<note, counter, log, jobs, served, last>>
    BY <1>10 DEF Handshake, Subscribe, Lagged, Disconnect
  <2> QED
    BY <2>2, <2>3 DEF TypeOK, jobs, note
<1>11. ASSUME NEW s \in Sockets, Recv(s)
       PROVE  TypeOK'
  <2>1. pos[s] \in 0..Len(log) /\ pos[s] < Len(log)
    BY <1>11 DEF Recv, Waiting, TypeOK
  <2>2. pos' \in [Sockets -> 0..Len(log)]
    BY <1>11, <2>1 DEF Recv, Takes, TypeOK
  <2>3. log[pos[s] + 1].id \in Nat
    <3>1. log \in Seq(Messages) /\ pos[s] + 1 \in 1..Len(log)
      BY <2>1 DEF TypeOK
    <3>2. log[pos[s] + 1] \in Messages
      BY <3>1
    <3> QED
      BY <3>2 DEF Messages
  <2>4. /\ sock' \in [Sockets -> {"new", "upgrading", "open", "closed"}]
        /\ last' \in [Sockets -> Nat]
    BY <1>11, <2>3 DEF Recv, Handle, Processed, TypeOK
  <2> QED
    BY <1>11, <2>2, <2>4 DEF Recv, TypeOK, jobs, note
<1>12. CASE UNCHANGED vars
  BY <1>12 DEF vars, note, jobs, conns, TypeOK
<1> QED
  BY <1>1, <1>2, <1>3, <1>4, <1>5, <1>6, <1>7, <1>8, <1>9, <1>10, <1>11, <1>12 DEF Next
-----------------------------------------------------------------------------
(* The drafts, and what was sent *)

\* All of Inv but the types.
Orders == /\ LogPast /\ DraftsPast /\ SocketsCurrent
          /\ Unserved /\ ListsFirst /\ SocketsSendInOrder

\* Drafts whose lists are before any content that must be fetched.
Ordered(ds) ==
  \A k \in DOMAIN ds : \A j \in k..Len(ds) :
    ds[k].kind = "fetch" => ds[j].kind # "list"

LEMMA InitOrders == Init => Orders
<1> SUFFICES ASSUME Init PROVE Orders
  OBVIOUS
<1>1. DOMAIN log = {} /\ (\A t \in Tasks : todo[t] = <<>> /\ DOMAIN todo[t] = {})
  BY DEF Init
<1> QED
  BY <1>1 DEF Orders, LogPast, DraftsPast, SocketsCurrent, Unserved, ListsFirst,
    SocketsSendInOrder, Tasks

\* A handler starts to send, after a write if it has content of its own to send.
LEMMA StartOrders ==
  ASSUME TypeOK, TypeOK', Orders, DbFree,
         NEW t \in Tasks, NEW ds \in Seq(Drafts), Starts(t, ds), Ordered(ds),
         \A k \in DOMAIN ds : ds[k].kind \in Content => ds[k].version = version',
         log' = log, version' >= version,
         served \subseteq served', t \in Requests => t \in served'
  PROVE  Orders'
<1>1. /\ version \in Nat /\ version' \in Nat
      /\ \A m \in Messages : m.version \in Nat
      /\ \A d \in Drafts : d.version \in Nat
  BY NotifyAssumption DEF TypeOK, Versions, Messages, Drafts
<1>2. todo'[t] = ds /\ (\A x \in Tasks \ {t} : todo'[x] = todo[x])
  BY DEF Starts, TypeOK
<1>3. \A k \in DOMAIN log : log[k] \in Messages
  BY DEF TypeOK
<1>4. \A x \in Tasks : \A k \in DOMAIN todo[x] : todo[x][k] \in Drafts
  BY DEF TypeOK
<1>5. LogPast'
  BY <1>1, <1>3 DEF Orders, LogPast, Past
<1>6. DraftsPast'
  <2> SUFFICES ASSUME NEW x \in Tasks, NEW k \in DOMAIN todo'[x]
               PROVE  Past(todo[x][k])'
    BY DEF DraftsPast
  <2>1. CASE x = t
    BY <2>1, <1>1, <1>2 DEF Past
  <2>2. CASE x # t
    <3>1. /\ todo'[x] = todo[x] /\ todo[x][k] \in Drafts
          /\ todo[x][k].kind \in Content => todo[x][k].version <= version
      BY <2>2, <1>2, <1>4 DEF Orders, DraftsPast, Past
    <3>2. todo[x][k].version \in Nat
      BY <1>1, <3>1
    <3> QED
      BY <3>1, <3>2, <1>1 DEF Past
  <2> QED
    BY <2>1, <2>2
<1>7. SocketsCurrent'
  <2> SUFFICES ASSUME NEW s \in Sockets, NEW k \in DOMAIN todo'[s]
               PROVE  Current(todo[s][k])'
    BY DEF SocketsCurrent
  <2>1. s \in Tasks /\ todo[s] = <<>>
    BY DEF Tasks, DbFree
  <2>2. s = t
    BY <2>1, <1>2
  <2> QED
    BY <2>2, <1>2 DEF Current
<1>8. Unserved'
  <2> SUFFICES ASSUME NEW r \in Requests, r \notin served' PROVE todo'[r] = <<>>
    BY DEF Unserved
  <2>1. r # t /\ r \notin served /\ r \in Tasks
    BY DEF Tasks
  <2> QED
    BY <2>1, <1>2 DEF Orders, Unserved
<1>9. ListsFirst'
  BY <1>2 DEF Orders, ListsFirst, Ordered
<1>10. SocketsSendInOrder'
  BY DEF Orders, SocketsSendInOrder
<1> QED
  BY <1>5, <1>6, <1>7, <1>8, <1>9, <1>10 DEF Orders

\* The content is fetched, or the handler panics: the content is of now, and
\* the other drafts are those that were, or none.
LEMMA FetchOrders ==
  ASSUME TypeOK, TypeOK', Orders, NEW r \in Requests, Fetch(r) \/ FetchPanics(r)
  PROVE  Orders'
<1>1. r \in Tasks /\ r \notin Sockets /\ todo[r] # <<>>
  BY NotifyAssumption DEF Tasks, Fetch, FetchPanics, MustFetch
<1>2. UNCHANGED <<version, log, served>>
  BY DEF Fetch, FetchPanics, note
<1>3. \A x \in Tasks \ {r} : todo'[x] = todo[x]
  BY DEF Fetch, FetchPanics, TypeOK
<1>4. \/ /\ Len(todo'[r]) = Len(todo[r])
         /\ todo'[r][1].kind = "view" /\ todo'[r][1].version = version
         /\ \A k \in 2..Len(todo[r]) : todo'[r][k] = todo[r][k]
      \/ todo'[r] = <<>>
  <2>1. CASE Fetch(r)
    <3> DEFINE v == View(Head(todo[r]).users, AccessUsers(readers), version)
    <3>1. v \in Drafts /\ v.kind = "view" /\ v.version = version
      BY <1>1, FetchedType DEF View, Draft
    <3>2. todo'[r] = <<v>> \o Tail(todo[r])
      BY <2>1, <1>1 DEF Fetch, TypeOK
    <3>3. todo[r] \in Seq(Drafts)
      BY <1>1 DEF TypeOK
    <3> HIDE DEF v
    <3> QED
      BY <1>1, <3>1, <3>2, <3>3, ReplaceFacts
  <2>2. CASE FetchPanics(r)
    BY <2>2, <1>1 DEF FetchPanics, TypeOK
  <2> QED
    BY <2>1, <2>2
<1>5. /\ todo[r] \in Seq(Drafts) /\ todo'[r] \in Seq(Drafts)
      /\ version \in Nat
  BY <1>1, NotifyAssumption DEF TypeOK, Versions
<1>6. LogPast' /\ SocketsSendInOrder'
  BY <1>2 DEF Orders, LogPast, Past, SocketsSendInOrder
<1>7. SocketsCurrent'
  BY <1>1, <1>2, <1>3 DEF Orders, SocketsCurrent, Current, Tasks
<1>8. Unserved'
  <2>1. r \in served
    BY <1>1 DEF Orders, Unserved
  <2> QED
    BY <2>1, <1>2, <1>3 DEF Orders, Unserved, Tasks
<1>9. \A k \in DOMAIN todo'[r] :
        /\ k \in DOMAIN todo[r]
        /\ \/ k = 1 /\ todo'[r][k].kind = "view" /\ todo'[r][k].version = version
           \/ k > 1 /\ todo'[r][k] = todo[r][k]
  BY <1>4, <1>5
<1>10. DraftsPast'
  <2> SUFFICES ASSUME NEW x \in Tasks, NEW k \in DOMAIN todo'[x]
               PROVE  Past(todo[x][k])'
    BY DEF DraftsPast
  <2>1. CASE x = r
    BY <2>1, <1>2, <1>5, <1>9 DEF Orders, DraftsPast, Past
  <2>2. CASE x # r
    BY <2>2, <1>2, <1>3 DEF Orders, DraftsPast, Past
  <2> QED
    BY <2>1, <2>2
<1>11. ListsFirst'
  <2> SUFFICES ASSUME NEW x \in Tasks, NEW k \in DOMAIN todo'[x], NEW j \in k..Len(todo'[x]),
                      todo'[x][k].kind = "fetch"
               PROVE  todo'[x][j].kind # "list"
    BY DEF ListsFirst
  <2>1. CASE x = r
    <3>1. /\ k \in DOMAIN todo[r] /\ k > 1 /\ todo'[r][k] = todo[r][k]
      BY <2>1, <1>9
    <3>2. j \in DOMAIN todo'[r] /\ j \in k..Len(todo[r]) /\ j > 1
      BY <2>1, <3>1, <1>4, <1>5
    <3>3. todo'[r][j] = todo[r][j]
      BY <3>2, <1>9
    <3> QED
      BY <2>1, <3>1, <3>2, <3>3, <1>1 DEF Orders, ListsFirst
  <2>2. CASE x # r
    BY <2>2, <1>3 DEF Orders, ListsFirst
  <2> QED
    BY <2>1, <2>2
<1> QED
  BY <1>6, <1>7, <1>8, <1>10, <1>11 DEF Orders

LEMMA SendOrders ==
  ASSUME TypeOK, TypeOK', Orders, NEW t \in Tasks, Send(t)
  PROVE  Orders'
<1>1. /\ todo[t] # <<>> /\ ~MustFetch(t)
      /\ log' = Append(log, Message(t))
      /\ todo' = [todo EXCEPT ![t] = Tail(todo[t])]
      /\ UNCHANGED <<version, served>>
  BY DEF Send, Sends, Message, note, TypeOK
<1>2. todo'[t] = Tail(todo[t]) /\ (\A x \in Tasks \ {t} : todo'[x] = todo[x])
  BY <1>1 DEF TypeOK
<1>3. /\ todo[t] \in Seq(Drafts) /\ todo'[t] \in Seq(Drafts)
      /\ Len(todo'[t]) = Len(todo[t]) - 1 /\ 1 \in DOMAIN todo[t]
      /\ \A k \in DOMAIN todo'[t] :
           k + 1 \in DOMAIN todo[t] /\ todo'[t][k] = todo[t][k + 1]
  <2>1. /\ todo[t] \in Seq(Drafts) /\ Tail(todo[t]) \in Seq(Drafts)
        /\ 1 \in DOMAIN todo[t]
        /\ Len(Tail(todo[t])) = Len(todo[t]) - 1
        /\ \A k \in 1..Len(Tail(todo[t])) :
             k + 1 \in 1..Len(todo[t]) /\ Tail(todo[t])[k] = todo[t][k + 1]
    BY <1>1, FirstDraft
  <2>2. /\ DOMAIN todo[t] = 1..Len(todo[t])
        /\ DOMAIN Tail(todo[t]) = 1..Len(Tail(todo[t]))
    BY <2>1
  <2> QED
    BY <2>1, <2>2, <1>2
<1>4. /\ log' \in Seq(Messages) /\ Len(log') = Len(log) + 1
      /\ log'[Len(log) + 1] = Message(t)
      /\ \A k \in DOMAIN log : log'[k] = log[k]
  BY <1>1, MessageType, AppendFacts DEF TypeOK
<1>5. \A k \in DOMAIN log' : k \in DOMAIN log \/ k = Len(log) + 1
  BY <1>4 DEF TypeOK
<1>6. /\ Message(t).kind = todo[t][1].kind /\ Message(t).version = todo[t][1].version
      /\ Message(t).by = t
  BY <1>1, MessageType
<1>7. LogPast'
  <2>1. Past(Message(t))
    BY <1>3, <1>6 DEF Orders, DraftsPast, Past
  <2> QED
    BY <2>1, <1>1, <1>4, <1>5 DEF Orders, LogPast, Past
<1>8. DraftsPast' /\ SocketsCurrent'
  BY <1>1, <1>2, <1>3 DEF Orders, DraftsPast, SocketsCurrent, Past, Current, Tasks
<1>9. Unserved'
  <2>1. t \in Requests => t \in served
    BY <1>1 DEF Orders, Unserved
  <2> QED
    BY <2>1, <1>1, <1>2 DEF Orders, Unserved, Tasks
<1>10. ListsFirst'
  <2> SUFFICES ASSUME NEW x \in Tasks, NEW k \in DOMAIN todo'[x], NEW j \in k..Len(todo'[x]),
                      todo'[x][k].kind = "fetch"
               PROVE  todo'[x][j].kind # "list"
    BY DEF ListsFirst
  <2>1. CASE x = t
    <3>1. k + 1 \in DOMAIN todo[t] /\ todo[t][k + 1].kind = "fetch"
      BY <2>1, <1>3
    <3>2. j \in DOMAIN todo'[t] /\ j + 1 \in (k + 1)..Len(todo[t])
      BY <2>1, <1>3
    <3>3. todo'[t][j] = todo[t][j + 1]
      BY <3>2, <1>3
    <3> QED
      BY <2>1, <3>1, <3>2, <3>3 DEF Orders, ListsFirst
  <2>2. CASE x # t
    BY <2>2, <1>2 DEF Orders, ListsFirst
  <2> QED
    BY <2>1, <2>2
<1>11. SocketsSendInOrder'
  <2> SUFFICES ASSUME NEW l \in DOMAIN log', NEW k \in DOMAIN log', k < l,
                      {log'[k].kind, log'[l].kind} \subseteq Content,
                      log'[l].version < log'[k].version
               PROVE  log'[l].by \in Requests
    BY DEF SocketsSendInOrder
  <2>1. k \in DOMAIN log
    BY <1>4, <1>5 DEF TypeOK
  <2>2. CASE l \in DOMAIN log
    BY <2>1, <2>2, <1>4 DEF Orders, SocketsSendInOrder
  <2>3. CASE l = Len(log) + 1
    <3>1. log'[l] = Message(t)
      BY <2>3, <1>4
    <3>2. log'[k].version <= version /\ log'[k].version \in Nat /\ version \in Nat
      <4>1. log'[k] = log[k] /\ log[k] \in Messages
        BY <2>1, <1>4 DEF TypeOK
      <4>2. log[k].version \in Nat /\ version \in Nat
        <5>1. (\A m \in Messages : m.version \in Nat) /\ version \in Nat
          BY NotifyAssumption DEF Messages, Versions, TypeOK
        <5> QED
          BY <4>1, <5>1
      <4>3. log[k].kind \in Content
        BY <4>1
      <4>4. log[k].version <= version
        BY <2>1, <4>3 DEF Orders, LogPast, Past
      <4> QED
        BY <4>1, <4>2, <4>4
    <3>3. t \notin Sockets
      <4> SUFFICES ASSUME t \in Sockets PROVE FALSE
        OBVIOUS
      <4>1. Message(t).version = version
        BY <3>1, <1>3, <1>6 DEF Orders, SocketsCurrent, Current
      <4> QED
        BY <3>1, <3>2, <4>1
    <3> QED
      BY <3>1, <3>3, <1>6 DEF Tasks
  <2> QED
    BY <1>5, <2>2, <2>3
<1> QED
  BY <1>7, <1>8, <1>9, <1>10, <1>11 DEF Orders
LEMMA OrdersStep ==
  ASSUME TypeOK, Orders, [Next]_vars
  PROVE  Orders'
<1>0. TypeOK'
  BY TypeStep
<1>1. ASSUME NEW r \in Requests, NEW u \in Users, NEW rs \in SUBSET (Users \ {Owner}),
             NEW named \in BOOLEAN, Put(r, u, rs, named)
      PROVE  Orders'
  <2> DEFINE ds == PutDrafts(u, rs, named)
  <2>1. /\ DbFree /\ Write(u, rs) /\ Starts(r, ds) /\ log' = log
        /\ served \subseteq served' /\ r \in served' /\ r \in Tasks
    BY <1>1 DEF Put, Serve, Tasks
  <2>2. version' >= version
    BY <2>1, WriteGrows
  <2>3. /\ ds \in Seq(Drafts)
        /\ \A k \in DOMAIN ds : ds[k].kind \notin Content
        /\ \A k \in DOMAIN ds : k > 1 => ds[k].kind = "fetch"
        /\ ds[1].kind = "list"
    <3>1. /\ ds \in Seq(Drafts) /\ Len(ds) \in {1, 2}
          /\ ds[1].kind = "list" /\ (Len(ds) = 2 => ds[2].kind = "fetch")
      BY PutDraftsAre
    <3> HIDE DEF ds
    <3>2. \A k \in DOMAIN ds : k = 1 \/ (k = 2 /\ Len(ds) = 2)
      BY <3>1
    <3> QED
      BY <3>1, <3>2 DEF Content
  <2> HIDE DEF ds
  <2>4. Ordered(ds)
    <3> SUFFICES ASSUME NEW k \in DOMAIN ds, NEW j \in k..Len(ds), ds[k].kind = "fetch"
                 PROVE  ds[j].kind # "list"
      BY DEF Ordered
    <3>1. k # 1 /\ k \in 1..Len(ds)
      BY <2>3
    <3>2. j > 1 /\ j \in DOMAIN ds
      BY <3>1, <2>3
    <3> QED
      BY <3>2, <2>3
  <2> QED
    BY <1>0, <2>1, <2>2, <2>3, <2>4, StartOrders
<1>2. ASSUME NEW r \in Requests, NEW u \in Users, Delete(r, u) \/ LogoutAll(r, u)
      PROVE  Orders'
  <2> DEFINE us == IF u = Owner THEN AccessUsers(readers) ELSE {u}
  <2>1. us \in SUBSET Users /\ r \in Tasks
    BY UserSets DEF Tasks, TypeOK
  <2>2. /\ <<List(us)>> \in Seq(Drafts) /\ <<Close(u)>> \in Seq(Drafts)
        /\ List(us).kind = "list" /\ Close(u).kind = "close"
    BY <2>1, OneDraft
  <2>3. Starts(r, <<List(us)>>) \/ Starts(r, <<Close(u)>>)
    BY <1>2 DEF Delete, LogoutAll
  <2> HIDE DEF us
  <2>4. PICK d \in {List(us), Close(u)} : Starts(r, <<d>>)
    BY <2>3
  <2>5. <<d>> \in Seq(Drafts) /\ d.kind \notin Content /\ d.kind # "fetch"
    BY <2>2 DEF Content
  <2>6. Ordered(<<d>>) /\ (\A k \in DOMAIN <<d>> : <<d>>[k].kind \notin Content)
    <3>1. \A k \in DOMAIN <<d>> : <<d>>[k] = d
      OBVIOUS
    <3> QED
      BY <3>1, <2>5 DEF Ordered
  <2>7. /\ DbFree /\ log' = log /\ served \subseteq served' /\ r \in served'
        /\ version' = version
    BY <1>2 DEF Delete, LogoutAll, Serve, note
  <2>8. version' >= version
    BY <2>7, NotifyAssumption DEF TypeOK, Versions
  <2> QED
    BY <1>0, <2>1, <2>4, <2>5, <2>6, <2>7, <2>8, StartOrders
<1>3. ASSUME NEW s \in Sockets, NEW rs \in SUBSET (Users \ {Owner}), Update(s, rs)
      PROVE  Orders'
  <2>1. PICK ds : ds = UpdateDrafts(AccessUsers(rs), version', Told(rs))
    OBVIOUS
  <2>2. /\ s \in Tasks /\ s \notin Requests /\ UserOf[s] \in Users
    BY NotifyAssumption DEF Tasks
  <2>3. /\ DbFree /\ Write(UserOf[s], rs) /\ Starts(s, ds) /\ log' = log /\ served' = served
    BY <1>3, <2>1 DEF Update, UpdateDrafts
  <2>4. version' \in Versions /\ version' >= version
    BY <2>2, <2>3, WriteType, WriteGrows
  <2>5. /\ ds \in Seq(Drafts)
        /\ \A k \in DOMAIN ds : /\ ds[k].kind # "fetch"
                                /\ ds[k].kind \in Content => ds[k].version = version'
    <3>1. AccessUsers(rs) \in SUBSET Users /\ Told(rs) \in SUBSET Users
      BY UserSets
    <3> QED
      BY <2>1, <2>4, <3>1, UpdateDraftsAre
  <2>6. Ordered(ds)
    BY <2>5 DEF Ordered
  <2> QED
    BY <1>0, <2>2, <2>3, <2>4, <2>5, <2>6, StartOrders
<1>4. ASSUME NEW r \in Requests, Fetch(r) \/ FetchPanics(r)
      PROVE  Orders'
  BY <1>0, <1>4, FetchOrders
<1>5. ASSUME NEW t \in Tasks, Send(t)
      PROVE  Orders'
  BY <1>0, <1>5, SendOrders
<1>6. CASE UNCHANGED <<version, log, todo, served>>
  BY <1>6 DEF Orders, LogPast, DraftsPast, SocketsCurrent, Unserved, ListsFirst,
    SocketsSendInOrder, Past, Current
<1>7. ASSUME NEW t \in Tasks, LoadId(t) \/ StoreId(t)
      PROVE  Orders'
  BY <1>6, <1>7 DEF LoadId, StoreId, note
<1>8. ASSUME NEW s \in Sockets,
             \/ Handshake(s) \/ Subscribe(s) \/ Recv(s) \/ Lagged(s) \/ Disconnect(s)
      PROVE  Orders'
  BY <1>6, <1>8 DEF Handshake, Subscribe, Recv, Lagged, Disconnect, note, jobs
<1>9. CASE UNCHANGED vars
  BY <1>6, <1>9 DEF vars, note, jobs
<1> QED
  BY <1>1, <1>2, <1>3, <1>4, <1>5, <1>7, <1>8, <1>9 DEF Next

LEMMA Invariance == Spec => []Inv
<1>1. Init => Inv
  BY InitType, InitOrders DEF Inv, Orders
<1>2. Inv /\ [Next]_vars => Inv'
  BY TypeStep, OrdersStep DEF Inv, Orders
<1> QED
  BY <1>1, <1>2, PTL DEF Spec

-----------------------------------------------------------------------------
(* Theorems *)

\* The channel only ever carries messages of the declared shape, and no socket
\* has received more than was sent.
THEOREM TypeCorrect == Spec => []TypeOK
<1>1. Inv => TypeOK
  BY DEF Inv
<1> QED
  BY <1>1, Invariance, PTL

\* Of all the content on the channel only that of chunks_put can be older than
\* what was sent before it: a socket sends while it holds the DB.
THEOREM SocketsInOrder == Spec => []SocketsSendInOrder
<1>1. Inv => SocketsSendInOrder
  BY DEF Inv
<1> QED
  BY <1>1, Invariance, PTL

LEMMA HasOne ==
  ASSUME NEW S, NEW s \in Seq(S), NEW d
  PROVE  Contains(s, d) <=> \E k \in DOMAIN s : s[k] = d
  BY DEF Contains

\* No handler loses the list it owes to those whose access it changed, not even
\* the one that panics: the list is sent before the note is read again.
THEOREM ListsGoOut == Spec => ListsAreSent
<1>1. ASSUME Inv, Next, NEW t \in Tasks, NEW d \in Drafts,
             d.kind = "list", Contains(todo[t], d), ~Contains(todo'[t], d)
      PROVE  log' # log /\ Last(log').by = t /\ Last(log').users = d.users
  <2>1. TypeOK /\ Orders /\ TypeOK'
    BY <1>1, TypeStep DEF Inv, Orders
  <2>2. todo[t] \in Seq(Drafts) /\ todo'[t] \in Seq(Drafts)
    BY <2>1 DEF TypeOK
  <2>3. PICK k \in DOMAIN todo[t] : todo[t][k] = d
    BY <1>1, <2>2, HasOne
  <2>4. \A j \in DOMAIN todo'[t] : todo'[t][j] # d
    BY <1>1, <2>2, HasOne
  <2>5. todo'[t] # todo[t] /\ todo[t] # <<>>
    BY <2>2, <2>3, <2>4
  <2>6. ASSUME NEW x \in Tasks, NEW ds, Starts(x, ds), todo[x] = <<>>
        PROVE  FALSE
    BY <2>1, <2>5, <2>6 DEF Starts, TypeOK
  <2>7. ASSUME NEW r \in Requests, Serve(r)
        PROVE  r \in Tasks /\ todo[r] = <<>>
    BY <2>1, <2>7 DEF Serve, Orders, Unserved, Tasks
  <2>8. ASSUME NEW r \in Requests, NEW u \in Users,
               \/ Delete(r, u) \/ LogoutAll(r, u)
               \/ \E rs \in SUBSET (Users \ {Owner}), named \in BOOLEAN : Put(r, u, rs, named)
        PROVE  FALSE
    BY <2>6, <2>7, <2>8 DEF Delete, LogoutAll, Put
  <2>9. ASSUME NEW s \in Sockets, NEW rs \in SUBSET (Users \ {Owner}), Update(s, rs)
        PROVE  FALSE
    BY <2>6, <2>9 DEF Update, DbFree, Tasks
  <2>10. ASSUME NEW r \in Requests, Fetch(r) \/ FetchPanics(r)
         PROVE  FALSE
    <3>1. todo[r] # <<>> /\ Head(todo[r]).kind = "fetch" /\ r \in Tasks
      BY <2>10 DEF Fetch, FetchPanics, MustFetch, Tasks
    <3>2. r = t
      BY <3>1, <2>1, <2>5, <2>10 DEF Fetch, FetchPanics, TypeOK
    <3>3. todo[t][1].kind = "fetch" /\ 1 \in DOMAIN todo[t] /\ k \in 1..Len(todo[t])
      BY <3>1, <3>2, <2>1, <2>2, FirstDraft
    <3> QED
      BY <3>3, <2>1, <2>3, <1>1 DEF Orders, ListsFirst
  <2>11. ASSUME NEW x \in Tasks, Send(x)
         PROVE  log' # log /\ Last(log').by = t /\ Last(log').users = d.users
    <3>1. /\ todo[x] # <<>> /\ ~MustFetch(x) /\ log' = Append(log, Message(x))
          /\ todo' = [todo EXCEPT ![x] = Tail(todo[x])]
      BY <2>1, <2>11 DEF Send, Sends, Message, TypeOK
    <3>2. x = t
      BY <3>1, <2>1, <2>5 DEF TypeOK
    <3>3. todo'[t] = Tail(todo[t])
      BY <3>1, <3>2, <2>1 DEF TypeOK
    <3>4. k = 1
      <4> SUFFICES ASSUME k # 1 PROVE FALSE
        OBVIOUS
      <4>1. k - 1 \in 1..Len(Tail(todo[t])) /\ Tail(todo[t])[k - 1] = todo[t][k]
        BY <2>2, <2>3, <2>5
      <4> QED
        BY <4>1, <3>3, <2>2, <2>3, <2>4
    <3>5. /\ Message(t) \in Messages
          /\ Message(t).users = d.users /\ Message(t).by = t
      BY <3>1, <3>2, <3>4, <2>1, <2>3, MessageType
    <3>6. log' # log /\ Last(log') = Message(t)
      <4>1. /\ Len(log') = Len(log) + 1 /\ log'[Len(log) + 1] = Message(t)
            /\ Len(log) \in Nat
        BY <3>1, <3>2, <3>5, <2>1, AppendFacts DEF TypeOK
      <4> QED
        BY <4>1 DEF Last
    <3> QED
      BY <3>5, <3>6
  <2>12. ASSUME UNCHANGED todo
         PROVE  FALSE
    BY <2>5, <2>12
  <2>13. ASSUME NEW x \in Tasks, LoadId(x) \/ StoreId(x)
         PROVE  FALSE
    BY <2>12, <2>13 DEF LoadId, StoreId
  <2>14. ASSUME NEW s \in Sockets,
                \/ Handshake(s) \/ Subscribe(s) \/ Recv(s) \/ Lagged(s) \/ Disconnect(s)
         PROVE  FALSE
    BY <2>12, <2>14 DEF Handshake, Subscribe, Recv, Lagged, Disconnect, jobs
  <2> QED
    BY <1>1, <2>8, <2>9, <2>10, <2>11, <2>13, <2>14 DEF Next
<1>2. Inv /\ [Next]_vars
      => [\A t \in Tasks, d \in Drafts :
            d.kind = "list" /\ Contains(todo[t], d) /\ ~Contains(todo'[t], d)
            => log' # log /\ Last(log').by = t /\ Last(log').users = d.users]_vars
  BY <1>1
<1> QED
  BY <1>2, Invariance, PTL DEF Spec, ListsAreSent
===============================================================================
