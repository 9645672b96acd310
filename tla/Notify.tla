------------------------------- MODULE Notify -------------------------------
(***************************************************************************)
(* How a change of a note reaches the open web sockets: the handlers of    *)
(* src/src/v1/ends.rs and src/src/v1/auth.rs and the sockets of            *)
(* src/src/v1/socket.rs, which send on one broadcast channel.              *)
(*                                                                         *)
(* The store is reduced to one note: who its owner shares it with, and a   *)
(* version that every accepted write moves on.  A write runs under the     *)
(* lock of the DB and is a step.  An HTTP handler drops the lock before it *)
(* sends; a socket keeps it, the guard living as long as the match on the  *)
(* result.  A message takes its id from RESOURCE_ID, a static that nothing *)
(* guards, by a load and a store, which handlers and sockets interleave.   *)
(***************************************************************************)
EXTENDS Naturals, Sequences, SequencesExt, FiniteSetsExt

CONSTANTS
  Users, Owner,     \* the people, and the note's owner among them
  Sockets, UserOf,  \* the sockets that are opened, and by whom
  Requests,         \* the HTTP requests that are served
  Capacity,         \* of the channel: 16 in main.rs
  MaxVersion        \* bound on accepted writes

ASSUME NotifyAssumption ==
  /\ Owner \in Users
  /\ UserOf \in [Sockets -> Users]
  /\ Sockets \intersect Requests = {}
  /\ Capacity \in Nat \ {0}
  /\ MaxVersion \in Nat

Tasks    == Sockets \union Requests
Versions == 0..MaxVersion

Kinds == {"list", "diff", "view", "close"}

\* A message that a task has still to send, to users.  entitled, for content,
\* are those who had access to the note when its content was read; a "fetch"
\* is a view whose content is still to be read, by the one that is entitled.
\* version is that of the content, or that which a diff leads to.
Drafts == [kind : Kinds \union {"fetch"}, users : SUBSET Users,
           entitled : SUBSET Users, version : Versions]

Messages == [kind : Kinds, users : SUBSET Users, entitled : SUBSET Users,
             version : Versions, id : Nat, by : Tasks]

VARIABLES
  exists,     \* is the note in the store?
  readers,    \* those it is shared with; they may write it too
  version,    \* accepted writes
  counter,    \* RESOURCE_ID
  log,        \* all that was sent on the channel, in order
  todo,       \* task -> the drafts it has still to send
  phase,      \* task -> "load", "store" or "send" for the first of them
  loaded,     \* task -> what it loaded from RESOURCE_ID
  served,     \* the requests whose handler has started
  sock,       \* socket -> "new", "upgrading", "open" or "closed"
  pos,        \* socket -> messages its receiver has taken
  last        \* socket -> resource_id_last

note  == <<exists, readers, version>>
jobs  == <<todo, phase, loaded>>
conns == <<sock, pos, last>>
vars  == <<note, counter, log, jobs, served, conns>>

TypeOK ==
  /\ exists \in BOOLEAN
  /\ readers \in SUBSET (Users \ {Owner})
  /\ version \in Versions
  /\ counter \in Nat
  /\ log \in Seq(Messages)
  /\ todo \in [Tasks -> Seq(Drafts)]
  /\ phase \in [Tasks -> {"load", "store", "send"}]
  /\ loaded \in [Tasks -> Nat]
  /\ served \in SUBSET Requests
  /\ sock \in [Sockets -> {"new", "upgrading", "open", "closed"}]
  /\ pos \in [Sockets -> 0..Len(log)]
  /\ last \in [Sockets -> Nat]

\* access_users of the note: with these readers.
AccessUsers(rs) == rs \union {Owner}

Sees(u) == exists /\ u \in AccessUsers(readers)

\* The server starts with whatever store it loads, and with a new channel.
Init ==
  /\ exists \in BOOLEAN
  /\ readers \in IF exists THEN SUBSET (Users \ {Owner}) ELSE {{}}
  /\ version = 0
  /\ counter = 0
  /\ log = <<>>
  /\ todo = [t \in Tasks |-> <<>>]
  /\ phase = [t \in Tasks |-> "load"]
  /\ loaded = [t \in Tasks |-> 0]
  /\ served = {}
  /\ sock = [s \in Sockets |-> "new"]
  /\ pos = [s \in Sockets |-> 0]
  /\ last = [s \in Sockets |-> 0]

-----------------------------------------------------------------------------
(* Writes, under the lock of the DB *)

\* Mutant of DbFree: a socket drops the lock after its write.
DbFreeEarly == TRUE

\* No socket holds the lock between its write and the end of its sending.
DbFree == \A s \in Sockets : todo[s] = <<>>

\* set_chunk by u, which shares the note with rs: the owner may change the
\* readers, a reader who writes may not.
Write(u, rs) ==
  /\ version < MaxVersion
  /\ u = Owner \/ (exists /\ u \in readers /\ rs = readers)
  /\ exists' = TRUE
  /\ readers' = rs
  /\ version' = version + 1

\* Those for which access changed.
Told(rs) ==
  IF exists THEN SymDiff(readers, rs) ELSE AccessUsers(rs)

Draft(kind, users, entitled, v) ==
  [kind |-> kind, users |-> users, entitled |-> entitled, version |-> v]

List(users)              == Draft("list", users, {}, 0)
Fetching(users, u)       == Draft("fetch", users, {u}, 0)
View(users, entitled, v) == Draft("view", users, entitled, v)
Diff(users, v)           == Draft("diff", users, users, v)
Close(u)                 == Draft("close", {u}, {}, 0)

Serve(r) == r \notin served /\ served' = served \union {r}

Starts(t, drafts) == todo' = [todo EXCEPT ![t] = drafts] /\ UNCHANGED <<phase, loaded>>

\* Mutant of PutDrafts: the content goes out before the list.
PutDraftsSwapped(u, rs, named) ==
  (IF named THEN <<Fetching(rs \union {u}, u)>> ELSE <<>>) \o <<List(Told(rs))>>

\* chunks_put: the list for those whose access changed, then, if the request
\* named the note, the content, for the users it read beforehand from the text
\* it was sent, of which u is the owner.
PutDrafts(u, rs, named) ==
  <<List(Told(rs))>> \o (IF named THEN <<Fetching(rs \union {u}, u)>> ELSE <<>>)

Put(r, u, rs, named) ==
  /\ DbFree
  /\ Serve(r)
  /\ named \/ ~exists
  /\ Write(u, rs)
  /\ Starts(r, PutDrafts(u, rs, named))
  /\ UNCHANGED <<counter, log, conns>>

\* chunks_del: the owner removes the note, a reader leaves it.
Delete(r, u) ==
  /\ DbFree
  /\ Serve(r)
  /\ Sees(u)
  /\ IF u = Owner
     THEN exists' = FALSE /\ readers' = {} /\ UNCHANGED version
     ELSE readers' = readers \ {u} /\ UNCHANGED <<exists, version>>
  /\ Starts(r, <<List(IF u = Owner THEN AccessUsers(readers) ELSE {u})>>)
  /\ UNCHANGED <<counter, log, conns>>

\* logout_all: the user's tokens become invalid, then the sockets are told.
LogoutAll(r, u) ==
  /\ DbFree
  /\ Serve(r)
  /\ Starts(r, <<Close(u)>>)
  /\ UNCHANGED <<note, counter, log, conns>>

\* A socket's "chunks/<id>/value": update_chunk, the diff, the content as the
\* socket wrote it, and the list if anyone's access changed.
Update(s, rs) ==
  LET u == UserOf[s]
      users == AccessUsers(rs)
  IN  /\ DbFree
      /\ sock[s] = "open"
      /\ Sees(u)
      /\ Write(u, rs)
      /\ Starts(s, <<Diff(users, version'), View(users, users, version')>> \o
                   (IF Told(rs) = {} THEN <<>> ELSE <<List(Told(rs))>>))
      /\ UNCHANGED <<counter, log, served, conns>>

-----------------------------------------------------------------------------
(* Sending *)

\* chunks_put gets the note again before its content goes out, with an
\* unwrap: if the caller lost sight of it in between, the handler panics.
MustFetch(t) == todo[t] # <<>> /\ Head(todo[t]).kind = "fetch"
Caller(t)    == CHOOSE u \in Users : Head(todo[t]).entitled = {u}

Fetch(r) ==
  /\ DbFree
  /\ MustFetch(r)
  /\ Sees(Caller(r))
  /\ todo' = [todo EXCEPT ![r] =
                <<View(Head(@).users, AccessUsers(readers), version)>> \o Tail(@)]
  /\ UNCHANGED <<note, counter, log, phase, loaded, served, conns>>

FetchPanics(r) ==
  /\ DbFree
  /\ MustFetch(r)
  /\ ~Sees(Caller(r))
  /\ todo' = [todo EXCEPT ![r] = <<>>]
  /\ UNCHANGED <<note, counter, log, phase, loaded, served, conns>>

Sends(t, now) == phase[t] = now /\ todo[t] # <<>> /\ ~MustFetch(t)

\* resource_id_next: the id is read, and the next one written.
LoadId(t) ==
  /\ Sends(t, "load")
  /\ loaded' = [loaded EXCEPT ![t] = counter]
  /\ phase' = [phase EXCEPT ![t] = "store"]
  /\ UNCHANGED <<note, counter, log, todo, served, conns>>

\* A socket remembers the id of its diff as the last one it has processed.
StoreId(t) ==
  /\ Sends(t, "store")
  /\ counter' = loaded[t] + 1
  /\ phase' = [phase EXCEPT ![t] = "send"]
  /\ last' = IF Head(todo[t]).kind = "diff"
             THEN [last EXCEPT ![t] = loaded[t]] ELSE last
  /\ UNCHANGED <<note, log, todo, loaded, served, sock, pos>>

Send(t) ==
  /\ Sends(t, "send")
  /\ log' = Append(log, [kind     |-> Head(todo[t]).kind,
                         users    |-> Head(todo[t]).users,
                         entitled |-> Head(todo[t]).entitled,
                         version  |-> Head(todo[t]).version,
                         id       |-> loaded[t],
                         by       |-> t])
  /\ todo' = [todo EXCEPT ![t] = Tail(@)]
  /\ phase' = [phase EXCEPT ![t] = "load"]
  /\ UNCHANGED <<note, counter, loaded, served, conns>>

-----------------------------------------------------------------------------
(* Sockets *)

\* authenticate lets the request pass, and the upgrade begins.
Handshake(s) ==
  /\ DbFree
  /\ sock[s] = "new"
  /\ sock' = [sock EXCEPT ![s] = "upgrading"]
  /\ UNCHANGED <<note, counter, log, jobs, served, pos, last>>

\* Mutant of Subscribe: the receiver starts behind a message yet to be sent.
SubscribeAhead(s) ==
  /\ sock[s] = "upgrading"
  /\ sock' = [sock EXCEPT ![s] = "open"]
  /\ pos' = [pos EXCEPT ![s] = Len(log) + 1]
  /\ UNCHANGED <<note, counter, log, jobs, served, last>>

\* handle_socket begins, in a task of its own: only now does the socket have a
\* receiver, and its messages are those sent from now on.
Subscribe(s) ==
  /\ sock[s] = "upgrading"
  /\ sock' = [sock EXCEPT ![s] = "open"]
  /\ pos' = [pos EXCEPT ![s] = Len(log)]
  /\ UNCHANGED <<note, counter, log, jobs, served, last>>

\* The socket's task is at its select, and a message waits for it.
Waiting(s) == sock[s] = "open" /\ todo[s] = <<>> /\ pos[s] < Len(log)

Closes(s, m)   == m.kind = "close" /\ UserOf[s] \in m.users
Takes(s)       == pos' = [pos EXCEPT ![s] = @ + 1]
Processed(s,m) == last' = [last EXCEPT ![s] = m.id]

\* Mutant of Handle: messages are dropped before it is looked at whether they
\* close the socket.
HandleIdFirst(s, m) ==
  IF m.id <= last[s] THEN UNCHANGED <<sock, last>>
  ELSE IF Closes(s, m) THEN sock' = [sock EXCEPT ![s] = "closed"] /\ UNCHANGED last
  ELSE Processed(s, m) /\ UNCHANGED sock

\* handle_resource: a close message for the user ends the loop; a message whose
\* id is not above the last is dropped; any other is processed, and forwarded
\* if the user is one of its users.
Handle(s, m) ==
  IF Closes(s, m) THEN sock' = [sock EXCEPT ![s] = "closed"] /\ UNCHANGED last
  ELSE IF m.id <= last[s] THEN UNCHANGED <<sock, last>>
  ELSE Processed(s, m) /\ UNCHANGED sock

Recv(s) ==
  /\ Waiting(s)
  /\ Len(log) - pos[s] <= Capacity
  /\ Handle(s, log[pos[s] + 1])
  /\ Takes(s)
  /\ UNCHANGED <<note, counter, log, jobs, served>>

\* The channel overwrote what the socket had not received: it is closed.
Lagged(s) ==
  /\ Waiting(s)
  /\ Len(log) - pos[s] > Capacity
  /\ sock' = [sock EXCEPT ![s] = "closed"]
  /\ UNCHANGED <<note, counter, log, jobs, served, pos, last>>

\* The client goes away, or the server shuts down.
Disconnect(s) ==
  /\ sock[s] \in {"upgrading", "open"}
  /\ todo[s] = <<>>
  /\ sock' = [sock EXCEPT ![s] = "closed"]
  /\ UNCHANGED <<note, counter, log, jobs, served, pos, last>>

-----------------------------------------------------------------------------
Work(t) == LoadId(t) \/ StoreId(t) \/ Send(t)

Next ==
  \/ \E r \in Requests, u \in Users :
       \/ \E rs \in SUBSET (Users \ {Owner}), named \in BOOLEAN : Put(r, u, rs, named)
       \/ Delete(r, u)
       \/ LogoutAll(r, u)
  \/ \E s \in Sockets, rs \in SUBSET (Users \ {Owner}) : Update(s, rs)
  \/ \E r \in Requests : Fetch(r) \/ FetchPanics(r)
  \/ \E t \in Tasks : LoadId(t) \/ StoreId(t) \/ Send(t)
  \/ \E s \in Sockets :
       \/ Handshake(s) \/ Subscribe(s) \/ Recv(s) \/ Lagged(s) \/ Disconnect(s)

\* tokio runs a task that can run.  A socket that always has a message waiting
\* receives it in the end, for select polls its branches in random order.
Fairness ==
  /\ \A t \in Tasks : WF_vars(Work(t))
  /\ \A s \in Sockets : SF_vars(Recv(s) \/ Lagged(s))

Spec == Init /\ [][Next]_vars /\ Fairness
-----------------------------------------------------------------------------
(* Properties *)

\* Whatever becomes of the rest of the handler, the panic of chunks_put over a
\* note that was deleted or unshared meanwhile included, those whose access a
\* write changed are told to fetch their list of notes again.
ListsAreSent ==
  [][\A t \in Tasks, d \in Drafts :
       d.kind = "list" /\ Contains(todo[t], d) /\ ~Contains(todo'[t], d)
       => log' # log /\ Last(log').by = t /\ Last(log').users = d.users]_vars

\* "If this is Some, sockets that have contained users will close"
\* (socket.rs:98): every socket of the user that is open when the message of
\* logout_all is sent closes, even if the message's id, because of the race for
\* RESOURCE_ID or the socket's own writes, is not above the socket's last.
LogoutCloses ==
  \A s \in Sockets :
    /\ sock[s] = "open"
    /\ \E k \in (pos[s] + 1)..Len(log) : Closes(s, log[k])
    ~> sock[s] = "closed"

Content == {"diff", "view"}

\* Clients keep what came last, and apply a diff to it: content goes back to an
\* older version only by chunks_put, which reads it under one guard and sends it
\* after.  What a socket sends is never older than what was sent before it: its
\* guard, a temporary of the match on its write, lasts until all is sent.
SocketsSendInOrder ==
  \A l \in DOMAIN log, k \in DOMAIN log :
    /\ k < l
    /\ {log[k].kind, log[l].kind} \subseteq Content
    /\ log[l].version < log[k].version
    => log[l].by \in Requests

-----------------------------------------------------------------------------
(* What the code says of itself, and does not keep *)

\* "Notifies users which already have access, of the note's new content"
\* (ends.rs:156): content goes to no one who had no access to it.
ContentToReaders == \A k \in DOMAIN log :
  log[k].kind = "view" => log[k].users \subseteq log[k].entitled

\* A socket takes a message and does not process it.
Skips(s) == sock[s] = "open" /\ pos'[s] = pos[s] + 1 /\ sock'[s] = "open" /\ last'[s] = last[s]

\* "... so when we're sending a message in resource stream, we don't process
\* the message on the instance that sent it" (socket.rs:208-210): of the
\* messages for its user, a socket leaves unprocessed only those it sent itself.
OnlyOwnSkipped ==
  [][\A s \in Sockets :
       Skips(s) => log[pos'[s]].by = s \/ UserOf[s] \notin log[pos'[s]].users]_vars

=============================================================================
