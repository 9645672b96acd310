# A verification project for chunk-app

chunk-app is a server for shared notes ("chunks") written in Rust (`src/`). This
directory holds TLA+ modules that model its core, the TLC configurations that
check them on small instances, and proofs that TLAPS checks for every instance.
Line numbers refer to the files under `src/src/`.

## The system

| Component | State | Operations | Hard behaviour |
| --- | --- | --- | --- |
| **Chunk store**, `struct DB` (`v1/db/db_app.rs`) behind one `RwLock` | map id -> `Arc<RwLock<DBChunk>>`, users | `set_chunk`, `update_chunk`, `del_chunk`, `link_all`, `get_chunk`, `get_chunks`, `subtree` | sequences of writes, re-parenting, deletion and re-creation; calls that stop half way; panics under the guard |
| **Chunk**, `DBChunk` (`v1/db/db_chunk.rs`) | the text, what was extracted from it (title, parents, access), weak links both ways, cached "modified" per user | `extract`, `override`, `link_child`, `link_parent`, `get_prop_dynamic`, `invalidate`, `try_clone_to` | a cache over a changing graph; text and extracted access that drift apart |
| **Access rules** (`db_chunk.rs`, `Access` in `v1/db/mod.rs`) | none | `has_access`, `is_public`, `access_diff`, `try_clone_to` | what a chain of allowed writes adds up to |
| **Linking at the start** (`link_all`, `link_chunk`) | flag `linked`, links, call stack | one recursion per chunk | random order, circular input, termination |
| **HTTP handlers** (`v1/ends.rs`, `v1/auth.rs`) | none; they share the store and a broadcast channel | `chunks_put`, `chunks_del`, `logout_all`, reads, `media_post` | two guards in one handler; messages sent after the lock is dropped |
| **Web sockets** (`v1/socket.rs`) | receiver of the channel, last message id | updates, forwarded messages, views | an unguarded `static mut` counter, lag, logout against handshake |
| **Authentication** (`v1/auth.rs`, `v1/db/db_auth.rs`, `v1/user`) | users, password hashes, `not_before`; signed tokens | register, login, reset, logout_all, authenticate | second granularity, tokens that outlive a reset |
| **Persistence, backup** (`v1/mod.rs`, `backup.rs`, `cache.rs`, `main.rs`) | store file, backups, cache file | load, save at shutdown, backup every two hours | crash, failed write, poisoned lock |
| **Media** (`v1/ends.rs`) | content-addressed files, cache entries | upload, fetch | check-then-write races, partial files |

How they interact: handlers and sockets call the store under the guard of the one
`RwLock`; the store returns the users to notify; the caller sends messages on one
broadcast channel of 16 places, to which every socket subscribes and from which
it picks those for its user. A client that gets a "chunks" message fetches its
list again; "chunks/<id>" carries the new content. The start reads the `Chunk`s
(id, text, owner, times), extracts every text again and links them all; nothing
else of a `DBChunk` is saved.

What makes each correct:

* store: the two link lists agree, follow the texts and have no cycle; a call
  that fails or stops leaves all that whole; no one changes what they may not;
* chunk: a cached "modified" never hides an edit; text and running grants agree;
* linking: it ends, with all links of the texts or with a refusal;
* notification: whoever gains or loses sight of a note hears of it; content goes
  to readers only; a logout closes the sockets;
* persistence: what was acknowledged survives a stop; authentication: a token
  issued before a logout is worth nothing after it; media: a file is whole.

## Modules

| Module | Models | Status |
| --- | --- | --- |
| `ChunkAccess` | the access rules as operators | done |
| `ChunkDB` | the store: one action per operation, or per step of `del_chunk` | done |
| `MCChunkDB` | instances of `ChunkDB`: which texts clients write | done |
| `ChunkDBProofs` | invariant of `ChunkDB`: types, owners, links; the well; the caches | proved |
| `ChunkAccessProofs` | `ChunkDB`: who may change what, who is told, what a restart keeps | proved |
| `Linking` | what the start promises: one atomic step | done |
| `LinkAll`, `MCLinkAll` | the recursion that implements `Linking` | done |
| `LinkAllProofs` | the lists, and the refinement's safety part | proved |
| `Notify`, `MCNotify` | handlers, channel and sockets, for one note | done |
| `NotifyProofs` | invariant of `Notify` and its safety properties | proved |
| `ChunkLocks`, `MCChunkLocks` | who waits for whose lock, of the DB and of chunks | done, for a graph that only loses notes |
| `ChunkLocksProofs` | invariant of `ChunkLocks` and its safety properties | proved |
| `Persistence`, `MCPersistence` | files: load, save, backups, crashes | done |
| `PersistenceProofs` | invariant of `Persistence` and its safety properties | proved |
| `Auth`, `MCAuth` | accounts, tokens, requests and sockets that live on a token | done |
| `AuthProofs` | invariant of `Auth` and its safety properties | proved |
| `Media`, `MCMedia` | uploads, their files and cache entries | done |
| `MediaProofs` | invariant of `Media` and its safety properties | proved |

`ChunkDB` extends `ChunkAccess`. Its `Restart` takes the linking of all chunks as
one step; `LinkAll` refines that step (`Linking`) to what the code does. `Notify`
reduces the store to one note and its readers and models what happens after the
guard is released; its `Write`, `Told` and `Sees` are `set_chunk`,
`access_diff` and `get_chunk` for that one note. `ChunkLocks` opens up what is one
step in `ChunkDB`, to the locks taken on the way; `Persistence` takes the store as
the set of edits that made it, and `ChunkDB`'s `Restart` is its graceful stop and start.
`Auth` takes the delivery of logout's message, which `Notify` models, as one step to a set of
sockets (`due`), and adds what `Notify` leaves out: on which token a socket was opened.
`Media` shares nothing with the rest but the cache file, whose `last_backup` is `Persistence`'s.

### ChunkDB

| Variable | Code |
| --- | --- |
| `live`, `chunk` | keys of `DB.chunks`; the `Chunk` (id, owner, text, modified) and the extracted access, of every `DBChunk` there is |
| `held` | the `DBChunk`s whose `Arc` a running list of notes or subtree keeps |
| `parents`, `children` | the weak references of `DBChunk` that can still be upgraded |
| `cache` | `props_per_user` for "modified", the one dynamic property |
| `now` | `get_secs()` |
| `status` | "poisoned" after a panic under the guard, "noboot" after a failed start |
| `del` | the locals of a running `del_chunk` |
| `reply` | what the call that just ended returned, to whom: history for the properties |

A text is a record of what the store reads out of it: title, parents, grants and
`tail`, whether the text ends in an unterminated line once its share lines are
taken out, which is what `override` depends on. Grants are a function from
principals to the highest level granted, since `extract_access` adds the lower
ones.

A *node* stands for a `DBChunk`: an id for the one that the store has under it, a member of
`Old` for one that the store has given up but a list still holds. `get_notes` takes an `Arc` of
every note of its user and drops the guard before it sorts and views them (socket.rs:179-183;
`ListNotes`), `get_subtree` one of its root (socket.rs:189; `TakeRoot`). When such a note is
replaced or removed, its data and links move to a free place in `Old` (`Places`, `Carried`,
`Redirected`), where its relatives' weak references still reach it, with its old access: it counts
as a parent in `parents(Some(ua))` and as a child in what a cache is computed from. It goes when
the list lets go of it (`LetGo`). Without such a list, weak references to a replaced or removed
chunk cannot be upgraded from then on. `held` is what all lists together hold; they drop their
`Arc`s one by one and at any time, which is more than they do.

An operation under the guard is one step. `del_chunk` is one step per id in each of its two loops, since
it iterates a `HashSet` (any order) and can return or panic between two ids;
meanwhile it holds the guard, so nothing steps but a list that lets go of a note. A panic under the write
guard poisons the lock: no call is enabled any more. A writer's update of a note with two
or more parents compares JSON arrays filled from `HashSet`s, so it succeeds or
not by chance (`OrdersOf`).

### LinkAll

A stack of frames, each a chunk and the parents still to visit. The order of
roots (random ids in a map) and of parents (a `HashSet`) is free. `MaxDepth` is
the room on the thread's stack: a walk that meets a cycle which does not pass
through its root runs into it. The lists count entries, for a chunk linked before
its parent is told of it again. `Implements` maps the links to `Linking` once all of
them are made: they are not visible to anyone before.

### Notify

A handler's write is one step, after which the messages it has to send are its
`todo`. Each message takes an id by a load and a store of the static counter
(`LoadId`, `StoreId`), and is sent (`Send`); handlers and sockets interleave
in between. A socket's update keeps the guard until it has sent all, since the
guard is a temporary of the `match` (`DbFree`); a handler drops it. `chunks_put`
reads the note again for its second message, with an unwrap (`Fetch`,
`FetchPanics`). A socket lives from `Handshake` over `Subscribe` to closed, takes
messages one at a time (`Recv`), or is closed for lag (`Lagged`). The unguarded
`RESOURCE_ID` is a data race; the outcomes modelled are those of one load and one
store per id. A message carries the version of its content, or the one that its
difference leads to; the version a difference starts from is the one before.

### ChunkLocks

Each request has a `kind`, a `guard` of the DB and a `stack`. A frame of the stack
stands for a chunk it has locked (`holder`), with the moves still to make under that
lock: `ChunkView::from` (mod.rs:57) keeps the write lock of its chunk while it looks
at parents and children, `get_prop_dynamic` that of each while it goes further down,
`invalidate` that of each while it goes up. `Take` and `Release` follow the frames.
The views of `subtree` run under one read guard; `get_notes` drops the write guard
before it sorts and views (`Drop`). `TryWrite` is `try_write().unwrap()` (db_app.rs:274).
`Write` is `update_chunk` with the view that a socket sends; the locks of `chunks_put` are
those of `Write` and then of `ViewNote`. When a chunk is replaced (`Insert`), a list of
notes keeps the old one (`Aged`), and its locks concern nobody else, so it goes by it (`Pass`). A deletion (`Delete`) clears the
caches upwards and takes the note out (`Discard`, `gone`); a leave is a write without a view.
Abstractions: no write changes the graph otherwise, and everyone sees all of it; a
`del_chunk` of several ids takes the locks of one id after those of another; that a
running list of notes keeps a deleted note, and thereby its link to its parents, alive is
`ChunkDB`'s subject and left out here; whether "modified" is cached is a free choice; locks are
exclusive, for the code takes the read locks only when it holds no other chunk's.

### Persistence

`phase` is where `main` is, `task` where the backup service is. A file is missing,
`Torn` (`fs::write` empties it before it fills it) or `Whole`; every write is a start and
an end, with a crash or a failure possible between. `Start` panics on a torn store or
cache file, so it is not enabled then; a file that cannot be read counts as empty,
as in the code (v1/mod.rs:58). `last` is `last_backup` in memory, and
reaches the file only at a graceful stop. Sockets' tasks are waited for by nobody,
so `SocketEdit` goes on after the save. `Tick` is held back while a backup is due: the
sleep is assumed to end within the hour, and the clock not to be turned back. `stuck` says that a
task waits for what never comes (`Blocks`): two views wait for each other (`OnlyViewsCross`), and
with a guard each they keep the next writer and then everyone from the DB, the backup service and `main`
included; or a client does not take the body it is being sent (ends.rs:207-222). `TimeoutLayer`
(main.rs:99) interrupts neither: it cannot stop a thread that waits for a `RwLock`, and it is done once the headers are.
`at`, `faults` and `late` are history. The configuration is the container's (`DB_PATH`
set, `DB_INIT` not); `link_all`'s panic at the start is `ChunkDB`'s `RestartFails`.

### Auth

| Variable | Code |
| --- | --- |
| `now`, `backs` | `get_secs()`; how often the clock was set back |
| `run` | the process, each with the key pair `KP` that it makes at first use |
| `notBefore`, `saved` | `User.not_before`, in memory and in the store's file |
| `token` | what a token says (`sub`, `iat`, by whose key), and its `fate`: history |
| `conn` | a request or socket: "checked" by `authenticate`, "telling" of a logout, "open" |
| `late`, `ahead` | history: sockets that subscribed after their token was logged out; tokens that a clock set back behind their `iat` kept from being ended |
| `due` | sockets of which logout's message waits in the channel |
| `poisoned` | a panic under the write guard |

A request passes `authenticate` in a step (`Authenticate`, or `PassPublic` without a valid
token: the code lets it through as "public") and is then a handler of its own: it opens a socket, or logs out in two steps,
`LogoutAll` under the guard and `LogoutTells` after it, and others step in between.
`Reset` takes the old password and tells nobody. `Starts` makes a new key and reads the file,
or finds it unreadable and has no accounts. Passwords, the rules for names and the
blacklist are abstracted: a call they refuse changes nothing. The validity of a token in
itself (`Verified`: signature, `iat` <= now < `exp`) is the pasetors library's.

### Media

A `job` is where `media_post` is between two awaits; the `write` it starts runs on a thread
of its own, opens the file empty, fills it in `Blocks` pieces and goes on when its request is
dropped (`Cancel`: the client leaves, `TimeoutLayer` ends the request after 30 seconds, or the
body breaks off). `file` is by the hash of its content, `entry` is the `Cache`'s map; a `Ref` to
another id is made by code that is commented out now, but an older cache file may hold it.
`Stop` waits for requests and saves the cache, or fails to. A write that is cut off by
an error or a crash marks its id `spoilt`, as history: no later upload
writes a file that exists.

## Runs

| Run | Checks | Bounds, and why they are enough |
| --- | --- | --- |
| `db_graph` | `LinksMirror`, `LinksDeclared`, `LinksAcyclic`, `CacheCoversEdits`, `WellReachesAll` | 3 ids and 8 texts: visible to the reader and under one other or none, hidden and under two or none. They give cycles of length 1 to 3, diamonds, chains with an end and a middle, hidden parents, re-parenting, deletion of any subset, re-creation. Two writers: the owner, and the reader, who leaves and whose `del_chunk` stops half way. The reader lists notes and fills the cache. One place in `Old` (while it is taken, no second held note is replaced or removed), two times. Ids are interchangeable (`Symmetry`), and the answer of the last call is left out of the state (`View`), for no property of the run looks at it. `Bounds` leaves unexplored what follows on a note of the reader's own, and explores lists and caches apart: while a list runs nothing is cached and no second passes. The theorems cover both together |
| `db_access` | `TypeOK`, `TextGrantsNoMore`, `UpdateKeepsSight`, `OnlyAuthorised`, `SightChangeTold`, `RestartKeepsGrants` | 2 ids, so that a `del_chunk` can fail after its first; owner, admin or writer, reader, and the public; every level of grant, with a tail and without |
| `link_all` | `TypeOK`, `ListedTwice`, `Implements` | 4 ids, all texts over them, stored or not, and 6 frames: cycles beside the root, diamonds, all orders |
| `notify` | `TypeOK`, `SocketsSendInOrder`, `ListsAreSent`, `LogoutCloses` | any stored note at the start, two accepted writes, a request and a socket that both write, a channel of 2: one that steps in between the two guards of the other, a logout amid an update, an id taken twice, lag |
| `locks` | `TypeOK`, `OnlyViewsCross`, `OnlyNotesPoison`, `RequestsEnd` | a note, its child and a child of both, the least graph with two ways up, and two requests of any kind: waiting in a circle, with a holder and a waiter on every edge |
| `persistence` | `TypeOK`, `StopKeepsAll`, `CrashLossBounded`, `KeptUntilHeld`, `SignalEnds` | one edit, for each property speaks of one edit at a time and edits do not affect each other; 5 hours over two days, a period of 2: two backups to a day, any number of runs, crashes and failures |
| `auth` | `TypeOK`, `RevokedStayOut`, `FreshTokensPass`, `SurvivorsCameLate`, `LogoutUnwrapSafe`, `LogoutReaches` | one account, for accounts do not affect each other; a token from before and one from after a logout; a connection that logs out and one that opens a socket; expiry, a clock that is set back once, two runs of the server |
| `media` | `TypeOK`, `AnsweredIsThere`, `AnsweredSettles` | two uploads, which the check and the write of one id are between at most; two contents, for a `Ref` from one to the other; files of two pieces |
| `db_leave`, `db_circle`, `notify_content`, `notify_skip` | one property each, which the code does not keep | see below |

Deadlock is not checked: a poisoned or failed server, a linked store and a
served set of requests stop for good.

What the passing runs say, beyond types:

* `LinksMirror`, `LinksDeclared`, `LinksAcyclic`: no sequence of writes, deletions,
  leaves, restarts and lists that run meanwhile leaves a link on one side only, to a chunk that is gone
  (neither in the store nor held by a list), under an id the text does not name, or around a circle.
* `OnlyAuthorised`: whatever sequence of calls, and however far a `del_chunk` came,
  owner, title, parents and grants of a note change by its owner's or an admin's
  doing only, except that a reader gives up the own grant.
* `SightChangeTold`: everyone who can see a note before a successful call and not
  after it, or the other way round, is among the users to notify.
* `TextGrantsNoMore`, `RestartKeepsGrants`: a restart, which extracts access anew,
  never widens it, and keeps it where the text ends its last line.
* `UpdateKeepsSight`: the unwrap at db_app.rs:242 is safe.
* `CacheCoversEdits`: a cached "modified" is at least that of all that its user sees below.
  It may be too late: a note that moves away leaves its time with its former ancestors until
  something else clears them. No edit is hidden by that, so it is no finding.
* `WellReachesAll`: whatever is hidden, deleted, moved or shared anew, a note that
  someone has access to is among the roots `subtree` gives them, or below one
  through notes they see. There is one exception, which the property names (`Orphans`): while a list
  of notes holds a parent that was deleted or replaced, the parent still counts at db_app.rs:68, so its
  child is no root, and if it has no other visible parent in the store it is below none either. Such a note, with what is
  found through it alone, drops out of the tree until the list lets go. That is a matter of the moment a list takes, and
  as long as nothing is held there are no orphans, for links lead to what is in the store or held (`LinksMirror`).
* `Implements`: the recursion of the start ends and equals the atomic linking;
  `ListedTwice` says exactly which links are listed twice in memory.
* `ListsAreSent`: the panic of `chunks_put` never swallows the message about
  access. `LogoutCloses`: sockets open when logout's message is sent close,
  whatever the race does to its id, for that is looked at first.
* `SocketsSendInOrder`: what sockets send about a note comes in the order of their writes,
  so nobody's editor is put back to an older version. This rests on the guard of socket.rs:250, a temporary that lives to the end
  of the `match`: written as a `let`, it would break.
* `OnlyViewsCross`: two views, one of a note that looks up, one of its parent that looks
  down, can wait for each other for ever; that is reachable, and no doc denies it. The
  property says that nothing else can: no write, deletion or list of notes is part of a circle.
  `RequestsEnd`: all else is answered, though a write waits for whoever reads.
* `OnlyNotesPoison`: the `try_write` under the guard panics because of a list of notes,
  which views chunks without a guard, and of nothing else.
* `StopKeepsAll`: a graceful stop saves every edit but those that sockets make after the
  save. `SignalEnds`: it comes to an end, whether the backup service sleeps, writes or
  has died of a poisoned lock, unless a task is stuck: then `main` may wait for ever, until the
  process is killed, which is a `Crash` that saves nothing.
* `CrashLossBounded`: what a crash costs at most, as long as since the start no write has failed, the lock
  is not poisoned and no task is stuck. On a server that is up it costs the edits of the last two hours, although the
  restart may read an old `last_backup`. A crash amid a backup costs more: the file of the day is emptied before it
  is filled (backup.rs:42), so what earlier backups of that day held goes too, that is, edits of that day
  and of the two hours before it. A crash amid the save (v1/mod.rs:68) empties the store's file in the same way and may cost what was
  loaded from it, unless a backup has it. During a shutdown the loss is still that since the last backup, but nothing bounds
  how long ago that was, for the backup service has stopped. Each of the three cases occurs: without any one of them the run fails.
  `KeptUntilHeld`: what the store's file or an earlier day's
  backup holds is not overwritten by a server that lacks it. The backup of the day is:
  a restart after a crash overwrites it at once, without what the crash cost, so the
  time to save it is before the restart.
* `RevokedStayOut`: a token that a reset, a logout or the loss of its account was to end never
  passes again, whatever crashes bring back; the exceptions are named: one issued in the
  very second of the logout, and one from the future of a clock set back. `FreshTokensPass`: nothing else
  locks anybody out before the token expires or the server restarts.
* `SurvivorsCameLate`: a socket that outlives the logout of its token has subscribed after
  it, on a check made before; these are the only ones, and they stay. `LogoutReaches`: all others close.
* `LogoutUnwrapSafe`: the unwrap of `logout_all` under the write guard holds for everyone who was
  let in with a token. It fails for a request without one, which poisons the lock
  (`LogoutPanics`, auth.rs): the property says that this is the only way.
* `AnsweredIsThere`: what an upload was answered with, or the cache knows, has a file, which
  is whole, is being written again by another upload, or was cut off once.
  `AnsweredSettles`: from some time on it is whole for good, or was cut off.

### What the code does not keep

* `AccessValidOnLeave` (db_app.rs:150): leaving a note whose text ends without a line
  break glues the share line to the last line; the text grants nobody any more,
  the next reader who leaves makes the `expect` fail under the guard, and the
  poisoned lock ends the service and the save.
* `StoredAcyclic` (db_app.rs:667): parents not in the store are skipped by the
  circle check, so a circle of texts is accepted, saved, and ends the next start.
* `ContentToReaders` (ends.rs:156): between `chunks_put`'s two guards the readers
  may change; the content then goes to the former ones.
* `OnlyOwnSkipped` (socket.rs:208): the message with id 0 is dropped by every socket,
  and a socket's own update drops messages of others that still wait.

### Fairness

`LinkAll`: one thread runs, so weak fairness of `Next`. `Notify`: tokio runs a task
that can run, so weak fairness of a task's sending; `select!` polls its branches
in random order, so a socket that has messages waiting again and again takes
one, also when its client's updates compete: strong fairness of receiving.
`ChunkLocks`: weak fairness of each request's steps, for a thread that has its lock
goes on; there are finitely many requests, so nobody is passed over again and again.
`Persistence`: weak fairness of `main`, of the backup service and of the server's end, as long as no task is stuck:
handlers that wait for nobody come to their end, and `TimeoutLayer` ends those that wait for their client's request.
Once one is stuck nothing is assumed any more, for the others may wait for it or for the DB.
`Auth`: weak fairness of `LogoutTells`, for a handler has no await between the guard and its
message, and of `Close`: a socket whose client takes what it is sent comes to the message.
`Media`: weak fairness of a write once it has begun, for its thread waits for nobody.
No fairness is assumed of requests, clients or disconnects. `ChunkDB` has safety properties only.

## Proofs

`ChunkDBProofs` proves `Spec => []Inv` with

    Inv == TypeOK /\ Owned /\ Links

where `Owned` says that every note in the store has the id it is stored under and is owned by a user, never by the
public; `Links` is
`LinksMirror`, `LinksDeclared` and `LinksAcyclic` together. They need each
other: that installing a chunk keeps the links acyclic rests on the circle check
walking `parents`, which is the whole graph only if `children` mirrors it (a new
version inherits the children of the old); that a restart does rests on its own test of
the texts. The argument for cycles: a set in which everyone has a parent inside
would, after the new chunk is linked, contain the chunk, and the closure of its
parents would meet it, which the check excluded (`ReachIsClosed`,
`AcyclicReplace`); the version that a list holds on to stands where the chunk stood before, and nothing
new is linked to it, so a set through it gives one through the chunk as it was; dropping links makes no cycle (`AcyclicDrop`). Acyclicity is
stated over sets, not paths, so no induction over data is needed.

`ChunkAccessProofs` proves from `Inv` that the text never grants more than
the store (`RestartGrantsNoMore`) and that no accepted update hides the note from
its author (`UpdateNeverHides`).

`WellIsComplete` (in `ChunkDBProofs`) needs `LinksMirror` and `LinksAcyclic`: the notes that a
user sees but cannot reach from the roots and orphans would each have a parent among themselves, since a note
without a visible parent is a root, one whose visible parents are all out of the store is an orphan, and one with a reachable parent is a child of it and so reachable
(`RootsSuffice`); that is a cycle.

`AuthProofs` proves `Spec => []Inv` for `Auth`, with

    Inv == TypeOK /\ Kept /\ Held /\ SurvivorsCameLate

`Kept` says of every token of this run that its account is there, that a good one is not
from before `not_before`, and that one which was to be ended is not from after it, but for those of `ahead`.
The restriction to this run is the point: a crash may bring an old `not_before` back, and
then only the new key keeps the token out. `Held` says that the account which a connection acts for is there as
long as the connection is, since accounts go in a restart only, which ends all connections;
the unwrap of `logout_all` rests on it. `SurvivorsCameLate` is inductive with `TypeOK`.

The other properties of the store rest on `Inv` and on `Rules` (in `ChunkAccessProofs`): the access of
a note is that of its text, but for a text whose share line a leave glued to its last line (`Faithful`);
an id that is not in the store holds nothing (`Vacant`); and what a `del_chunk` has set aside is its
user's to remove, with all who see it noted down (`Aside`). The last one is what lets a deletion that
takes several steps be judged when it removes, long after it has looked. `Puts` and `Stays` say what
a step does to the notes of the store, whatever it does to those that only lists hold.

`CachesCoverEdits` is inductive with `Inv`: what `get_prop_dynamic` fills from the notes below,
`invalidate` clears from the note upwards, and the two meet because the lists mirror each other
(`InstallCovers`). For a user who does not see a note between, the cache does not depend on
what is below it.

`PersistenceProofs`: the heart is `Covered`. An edit of a healthy run was loaded from the store's file, is in the file that was saved, in the backup
of a day, in the one that is being written, or was made since the last backup (`Place`); and that is a period ago at most, or the next one is due and the clock waits.
To bound what an interrupted backup costs, it keeps for every edit in a backup that the day of its file is no later than that of a period after the edit (`InDay`, `InSnap`):
so a backup that empties the file of today takes edits of today, or of the period before, and no others. Days come in the order of their hours (`DaysInOrder`).
The rest ties files to phases: who leaves a torn file is still to come back to it, or has stopped.

`MediaProofs`: uploads of one content that all found no file cut it to nothing under each other's
hands. The last of them to open it (`LastOpener`) has everything before its next piece in the
file, whatever the others write; while it is at work somebody is writing, and if it is cut off the id is spoilt.

`NotifyProofs`: nothing drafted or sent is of a version still to come; what a socket drafted is of the
version of now as long as it has something to send, for it holds the guard; and a task has no list to
send behind content it has still to fetch. From the first two follows the order of what sockets send, from
the last `ListsAreSent`.

`LinkAllProofs`: the frames are a path of parents (`Path`), so a walk that meets its root again, or is deeper
than there are chunks (the pigeonhole principle), has found a circle. That no circle is missed needs `Done`: there is a set, closed under parents and
without a circle, of the chunks that the walk has been through. `StartLinks` is the refinement, as
`Spec => LInit /\ [][LNext]_lvars` of `Linking` under the mapping of `Implements`; the fairness
that `Implements` promises besides is left to the run.

`ChunkLocksProofs`: a frame which can still move leads to a child of its chunk, and then none of the frames
under it is deeper, or to a parent, and then none of them is higher (`Heads`). Depth is a number that
every graph without a cycle has. So nobody waits for a chunk of their own; in a circle of waiting, if all went down,
each would wait for a deeper chunk than the one before (`SomeClimb`), and likewise upwards (`SomeSink`).
With the guards of each kind of request (`GuardsOf`) and the exclusion of the DB's lock, the writers drop out of every circle
(`WaitersRead`).

Each `Inv` was checked by TLC on the instances of the runs before it was proved.

Assumptions: `ChunkDB`: finitely many ids, "public" is no user's name (the blacklist of
`utils.rs` refuses it), texts are records of the kind above, a bound on the clock. `LinkAll`: finitely many ids and more frames on the
thread's stack than there are chunks. `ChunkLocks`: a finite graph of chunks without a cycle, said by a depth for each; that the store's graph is one is `LinksNeverCircular`.
`Notify`: the owner and the sockets' users are users, a socket is no request, the channel has a place. `Persistence`: finitely many edits, a day that is not empty, and a period of at least two hours, so that the marks of `at` are no hours.
`Media`: a file has a piece. `Auth`: "public" is no user's name. Bounds on clocks and versions are any natural numbers.

| Module | Theorem | States |
| --- | --- | --- |
| `ChunkDBProofs` | `TypeCorrect` | `Spec => []TypeOK` |
| | `LinksAgree` | `Spec => []LinksMirror` |
| | `LinksFollowText` | `Spec => []LinksDeclared` |
| | `LinksNeverCircular` | `Spec => []LinksAcyclic` |
| | `WellIsComplete` | `Spec => []WellReachesAll` |
| | `CachesCoverEdits` | `Spec => []CacheCoversEdits` |
| `ChunkAccessProofs` | `RestartGrantsNoMore` | `Spec => []TextGrantsNoMore` |
| | `UpdateNeverHides` | `Spec => []UpdateKeepsSight` |
| | `ChangesAreAuthorised` | `Spec => OnlyAuthorised` |
| | `SightChangesAreTold` | `Spec => SightChangeTold` |
| | `RestartsKeepGrants` | `Spec => RestartKeepsGrants` |
| `LinkAllProofs` | `TypeCorrect` | `Spec => []TypeOK` |
| | `ParentsListedTwice` | `Spec => []ListedTwice` |
| | `StartLinks` | `Implements` without its fairness |
| `NotifyProofs` | `TypeCorrect` | `Spec => []TypeOK` |
| | `SocketsInOrder` | `Spec => []SocketsSendInOrder` |
| | `ListsGoOut` | `Spec => ListsAreSent` |
| `ChunkLocksProofs` | `TypeCorrect` | `Spec => []TypeOK` |
| | `ViewsCross` | `Spec => []OnlyViewsCross` |
| | `PanicsAreNotes` | `Spec => OnlyNotesPoison` |
| `PersistenceProofs` | `TypeCorrect` | `Spec => []TypeOK` |
| | `StopsKeepAll` | `Spec => []StopKeepsAll` |
| | `CrashLossIsBounded` | `Spec => []CrashLossBounded` |
| | `DiskIsKept` | `Spec => KeptUntilHeld` |
| `AuthProofs` | `TypeCorrect` | `Spec => []TypeOK` |
| | `RevokedTokensFail` | `Spec => []RevokedStayOut` |
| | `FreshTokensSucceed` | `Spec => []FreshTokensPass` |
| | `LogoutMissesLateOnly` | `Spec => []SurvivorsCameLate` |
| | `LogoutFindsAccount` | `Spec => LogoutUnwrapSafe` |
| `MediaProofs` | `TypeCorrect` | `Spec => []TypeOK` |
| | `AnsweredHasFile` | `Spec => []AnsweredIsThere` |

Only model-checked: liveness, which is out of the prover's reach, that is, that `Implements` comes to an end,
`LogoutCloses`, `RequestsEnd`, `SignalEnds`, `LogoutReaches` and `AnsweredSettles`. Every invariant and
every action property of the passing runs is a theorem.

## Not modelled

* Libraries: the signature of tokens and their validity (pasetors), password hashes, axum and
  tokio beyond what their calls promise. The file system: a crash is that of the process,
  not of the machine, so what was written is not lost.
* Parsing and formatting: how a text's title, parents and shares are read, html and JSON of
  views, cookies, types of media, the rules for user names and the blacklist's data. `diff_calc`, the line
  difference that an update carries, is a pure function whose other half is the client, and the client is not
  in this repository (`web/` is a submodule).
* Reads that change nothing: `media_get`, pages and their sorting. Their locks are in `ChunkLocks`.
* A start that mirrors another server (`DB_INIT`): one read over HTTP in place of the file.
* Dead code: `v1/db/db.rs`, `js_deno.rs`, `js_quick.rs`, `bin/auth.rs`; scripts.
* Of locks: writes that move a note, and one deletion of several ids. Whoever looks at a note's
  relatives holds the guard of the DB, so a move is over before or begins after; only a
  list of notes runs beside it, and that looks at no relatives.

## Plan

What is left, the most important first:

1. That a restart in `ChunkDB` and the end of `LinkAll` agree, stated of both modules at once.
2. `ChunkLocks` with writes that move a chunk, and the theorems for it.
3. The safety half of the liveness properties: that a socket which closes for a logout had its message,
   that a write which ends leaves a whole file.
