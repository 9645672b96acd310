------------------------------- MODULE Media --------------------------------
(***************************************************************************)
(* Uploads of media: media_post (src/src/v1/ends.rs), the files it writes  *)
(* under the hash of their content, and the entries it keeps in the Cache  *)
(* (src/src/lib.rs, src/src/cache.rs), which is read at the start and      *)
(* saved at a graceful stop.                                               *)
(*                                                                         *)
(* An id stands for the content that has this hash.  tokio::fs::write runs *)
(* on a thread of its own: it goes on when the request it was made for is  *)
(* given up.  The conversion of images is commented out in the code; its   *)
(* MediaEntry::Ref entries may still come from an older cache file.        *)
(***************************************************************************)
EXTENDS Naturals

CONSTANTS Ids,
          Uploads,    \* bound: requests at a time
          Blocks      \* pieces in which the content of a file is written

ASSUME MediaAssumption == Blocks \in Nat \ {0}

VARIABLES
  up,       \* is the server up?
  folder,   \* does MEDIA_FOLDER exist?
  file,     \* id -> is the file there, and the pieces written of it
  entry,    \* id -> {} none, {id} an Entry, {other} a Ref, in the Cache
  saved,    \* entry in the cache file
  job,      \* upload -> the next step of media_post, and the id
  write,    \* upload -> the write made for it: the id, and the next piece
  answered, \* ids that an upload was answered with, history
  spoilt    \* ids of which a write was cut off half way, history

disk == <<folder, file, saved>>
past == <<answered, spoilt>>
vars == <<up, disk, entry, job, write, past>>

Pieces  == 1..Blocks
NoFile  == [there |-> FALSE, has |-> {}]
Whole   == [there |-> TRUE, has |-> Pieces]
NoWrite == [id |-> {}, next |-> 0]
Idle    == [at |-> "idle", id |-> {}]

Open  == 0            \* the next piece of a write that still has to open
Close == Blocks + 1   \* ... and of one that has written all

TypeOK ==
  /\ up \in BOOLEAN /\ folder \in BOOLEAN
  /\ file \in [Ids -> [there : BOOLEAN, has : SUBSET Pieces]]
  /\ \A i \in Ids : file[i].there => folder
  /\ {entry, saved} \subseteq [Ids -> {{}} \union {{i} : i \in Ids}]
  /\ job \in [Uploads -> {Idle} \union
       [at : {"mkdir", "body", "look", "check", "write", "enter"}, id : {{i} : i \in Ids}]]
  /\ write \in [Uploads -> {NoWrite} \union [id : {{i} : i \in Ids}, next : Open..Close]]
  /\ \A u \in Uploads : job[u].at = "write" => write[u].id = job[u].id
  /\ answered \subseteq Ids /\ spoilt \subseteq Ids

\* What an earlier version of the program may have left: an Entry has a file, a
\* Ref leads to an Entry, or to nothing if the write failed.
Left(e, f) ==
  \A i \in Ids :
    /\ f[i] \in {NoFile, Whole}
    /\ e[i] = {i} => f[i] = Whole
    /\ \A j \in e[i] \ {i} : e[j] \in {{}, {j}}

Init ==
  /\ up = FALSE
  /\ saved \in [Ids -> {{}} \union {{i} : i \in Ids}]
  /\ file \in [Ids -> {NoFile, Whole}]
  /\ Left(saved, file)
  /\ folder \in {b \in BOOLEAN : \A i \in Ids : file[i].there => b}
  /\ entry = [i \in Ids |-> {}]
  /\ job = [u \in Uploads |-> Idle]
  /\ write = [u \in Uploads |-> NoWrite]
  /\ answered = {} /\ spoilt = {}

-----------------------------------------------------------------------------
(* media_post *)

Goes(u, at) == job' = [job EXCEPT ![u].at = at]
Ends(u)     == job' = [job EXCEPT ![u] = Idle]

\* Mutant of Arrive: the folder is taken for granted.
ArriveNoFolder(u, i) ==
  /\ up /\ job[u] = Idle /\ write[u] = NoWrite
  /\ job' = [job EXCEPT ![u] = [at |-> "body", id |-> {i}]]
  /\ UNCHANGED <<up, disk, entry, write, past>>

\* A request with content i begins, and looks for the folder.
Arrive(u, i) ==
  /\ up /\ job[u] = Idle /\ write[u] = NoWrite
  /\ job' = [job EXCEPT ![u] = [at |-> IF folder THEN "body" ELSE "mkdir", id |-> {i}]]
  /\ UNCHANGED <<up, disk, entry, write, past>>

MakeFolder(u) ==
  /\ job[u].at = "mkdir"
  /\ ~folder
  /\ folder' = TRUE
  /\ Goes(u, "body")
  /\ UNCHANGED <<up, file, saved, entry, write, past>>

\* create_dir(..).await.unwrap(): another upload has made it meanwhile.
FolderPanics(u) ==
  /\ job[u].at = "mkdir"
  /\ folder
  /\ Ends(u)
  /\ UNCHANGED <<up, disk, entry, write, past>>

\* The body has come, and is hashed.
Body(u) ==
  /\ job[u].at = "body"
  /\ Goes(u, "look")
  /\ UNCHANGED <<up, disk, entry, write, past>>

\* The id that the Cache has for the content, if any: that of its Entry, or of
\* the Entry its Ref leads to.
Known(i) == {j \in entry[i] : entry[j] # {}}

\* The look into the Cache: a known content is answered at once.
Look(u) ==
  /\ job[u].at = "look"
  /\ LET known == UNION {Known(i) : i \in job[u].id} IN
     IF known = {} THEN Goes(u, "check") /\ UNCHANGED answered
     ELSE Ends(u) /\ answered' = answered \union known
  /\ UNCHANGED <<up, disk, entry, write, spoilt>>

\* !path.exists(), and fs::write.
Check(u) ==
  /\ job[u].at = "check"
  /\ IF \A i \in job[u].id : file[i].there
     THEN Goes(u, "enter") /\ UNCHANGED write
     ELSE /\ Goes(u, "write")
          /\ write' = [write EXCEPT ![u] = [id |-> job[u].id, next |-> Open]]
  /\ UNCHANGED <<up, disk, entry, past>>

\* The Entry, and the answer.
Enter(u) ==
  /\ job[u].at = "enter"
  /\ entry' = [i \in Ids |-> IF i \in job[u].id THEN {i} ELSE entry[i]]
  /\ answered' = answered \union job[u].id
  /\ Ends(u)
  /\ UNCHANGED <<up, disk, write, spoilt>>

\* Mutant of Cancel: the write ends with the request.
CancelStopsWrite(u) ==
  /\ job[u].at \in {"mkdir", "body", "write"}
  /\ Ends(u)
  /\ write' = [write EXCEPT ![u] = NoWrite]
  /\ UNCHANGED <<up, disk, entry, past>>

\* The request is dropped at an await: by its client, by TimeoutLayer after 30
\* seconds, or by the panic over a body that did not come whole.
Cancel(u) ==
  /\ job[u].at \in {"mkdir", "body", "write"}
  /\ Ends(u)
  /\ UNCHANGED <<up, disk, entry, write, past>>

-----------------------------------------------------------------------------
(* fs::write *)

Writing(u, i) == write[u].id = {i}
Writes(u, i, new) ==
  /\ file' = [file EXCEPT ![i] = new]
  /\ write' = [write EXCEPT ![u].next = @ + 1]
  /\ UNCHANGED <<up, folder, saved, entry, job, past>>

\* The file is made, or cut to nothing if another upload has made it.
WriteOpens(u, i) ==
  Writing(u, i) /\ write[u].next = Open /\ Writes(u, i, [there |-> TRUE, has |-> {}])

WriteFills(u, i) ==
  /\ Writing(u, i) /\ write[u].next \in Pieces
  /\ Writes(u, i, [there |-> TRUE, has |-> file[i].has \union {write[u].next}])

WriteEnds(u, i) ==
  /\ Writing(u, i) /\ write[u].next = Close
  /\ write' = [write EXCEPT ![u] = NoWrite]
  /\ IF job[u].at = "write" THEN Goes(u, "enter") ELSE UNCHANGED job
  /\ UNCHANGED <<up, disk, entry, past>>

\* Mutant of WriteFails: the error is not looked at.
WriteFailsUnseen(u, i) ==
  /\ Writing(u, i) /\ write[u].next # Close
  /\ write' = [write EXCEPT ![u] = NoWrite]
  /\ IF job[u].at = "write" THEN Goes(u, "enter") ELSE UNCHANGED job
  /\ spoilt' = IF write[u].next = Open THEN spoilt ELSE spoilt \union {i}
  /\ UNCHANGED <<up, disk, entry, answered>>

\* An error: the answer is "internal server error", what was written stays.
WriteFails(u, i) ==
  /\ Writing(u, i) /\ write[u].next # Close
  /\ write' = [write EXCEPT ![u] = NoWrite]
  /\ IF job[u].at = "write" THEN Ends(u) ELSE UNCHANGED job
  /\ spoilt' = IF write[u].next = Open THEN spoilt ELSE spoilt \union {i}
  /\ UNCHANGED <<up, disk, entry, answered>>

WriteStep(u) == \E i \in Ids : \/ WriteOpens(u, i) \/ WriteFills(u, i)
                               \/ WriteEnds(u, i) \/ WriteFails(u, i)

-----------------------------------------------------------------------------
(* The process *)

\* Cache::init; the process before has ended, with all of its threads.
Start ==
  /\ ~up
  /\ \A u \in Uploads : write[u] = NoWrite
  /\ up' = TRUE
  /\ entry' \in {saved, [i \in Ids |-> {}]}
  /\ UNCHANGED <<disk, job, write, past>>

\* The server has served its requests, and Cache::save succeeds or not.  A write
\* that nobody waits for is ended before the process is.
Stop ==
  /\ up
  /\ \A u \in Uploads : job[u] = Idle
  /\ up' = FALSE
  /\ saved' \in {entry, saved}
  /\ entry' = [i \in Ids |-> {}]
  /\ UNCHANGED <<folder, file, job, write, past>>

CutOff == {i \in Ids : \E u \in Uploads : Writing(u, i) /\ write[u].next \in Pieces}

Crash ==
  /\ up \/ \E u \in Uploads : write[u] # NoWrite
  /\ up' = FALSE
  /\ entry' = [i \in Ids |-> {}]
  /\ job' = [u \in Uploads |-> Idle]
  /\ write' = [u \in Uploads |-> NoWrite]
  /\ spoilt' = spoilt \union CutOff
  /\ UNCHANGED <<disk, answered>>

Next ==
  \/ \E u \in Uploads :
       \/ \E i \in Ids : \/ Arrive(u, i)
                         \/ WriteOpens(u, i) \/ WriteFills(u, i)
                         \/ WriteEnds(u, i) \/ WriteFails(u, i)
       \/ MakeFolder(u) \/ FolderPanics(u) \/ Body(u) \/ Look(u)
       \/ Check(u) \/ Enter(u) \/ Cancel(u)
  \/ Start \/ Stop \/ Crash

\* A write that was begun goes on, whatever becomes of its request.
Spec == Init /\ [][Next]_vars /\ \A u \in Uploads : WF_vars(WriteStep(u))

-----------------------------------------------------------------------------
(* Properties *)

\* What clients were told of, or the Cache has, has a file; and that is whole,
\* or another upload of the same content is just writing it again, or a write of
\* it was cut off by an error or a crash, which no later upload repairs.
AnsweredIsThere ==
  \A i \in Ids : i \in answered \/ entry[i] = {i} =>
    /\ file[i].there
    /\ file[i] = Whole \/ i \in spoilt \/ \E u \in Uploads : Writing(u, i)

\* Uploads of the same content that all found no file cut off each other's work
\* for a while only: from some time on the file is whole, for good.
AnsweredSettles ==
  \A i \in Ids : i \in answered ~> [](file[i] = Whole \/ i \in spoilt)

=============================================================================
