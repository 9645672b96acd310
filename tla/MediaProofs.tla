----------------------------- MODULE MediaProofs -----------------------------
(***************************************************************************)
(* That what media_post answers is there, for every set of ids and uploads *)
(* and every number of pieces.                                             *)
(*                                                                         *)
(* The inductive invariant Inv says why: uploads of one content that all   *)
(* found no file cut it to nothing under each other's hands, but the last  *)
(* of them to do so (LastOpener) then writes all of it; until it ends,     *)
(* somebody is writing, and if it fails, the content is spoilt.            *)
(***************************************************************************)
EXTENDS Media, TLAPS

\* The folder is there for whoever is past looking for it.
FolderMade ==
  \A u \in Uploads : job[u].at \notin {"idle", "mkdir"} \/ write[u] # NoWrite => folder

\* An upload has one write at a time: only one that was given up goes on with
\* nobody waiting for it, and the next upload in its place comes after it.
OneWrite == \A u \in Uploads : job[u].at \notin {"idle", "write"} => write[u] = NoWrite

\* A Ref leads to an Entry, or to nothing.
RefsLead(e) == \A i \in Ids : \A j \in e[i] \ {i} : e[j] \in {{}, {j}}

\* The contents that somebody counts on: answered, entered, about to be, or
\* under way and past the opening of the file.
Counted(i) ==
  \/ i \in answered \/ entry[i] = {i} \/ saved[i] = {i}
  \/ \E u \in Uploads : job[u].at = "enter" /\ job[u].id = {i}
  \/ \E u \in Uploads : Writing(u, i) /\ write[u].next # Open

CountedIsThere == \A i \in Ids : Counted(i) => file[i].there

\* The last upload that has cut the file to nothing has written all before its
\* next piece, whatever the others write between.
LastOpener(i) ==
  \E u \in Uploads : /\ Writing(u, i) /\ write[u].next # Open
                     /\ \A p \in Pieces : p < write[u].next => p \in file[i].has

Filled ==
  \A i \in Ids : file[i].there => file[i] = Whole \/ i \in spoilt \/ LastOpener(i)

Inv == /\ TypeOK /\ FolderMade /\ OneWrite /\ RefsLead(entry) /\ RefsLead(saved)
       /\ CountedIsThere /\ Filled

-----------------------------------------------------------------------------
(* Jobs, writes and files *)

Ats     == {"mkdir", "body", "look", "check", "write", "enter"}
Jobs    == {Idle} \union [at : Ats, id : {{i} : i \in Ids}]
Threads == {NoWrite} \union [id : {{i} : i \in Ids}, next : Open..Close]
Files   == [there : BOOLEAN, has : SUBSET Pieces]

LEMMA Steps ==
  /\ Open \in Nat /\ Close \in Nat /\ Open < Close
  /\ \A n \in Open..Close : n \in Pieces \/ n = Open \/ n = Close
  /\ \A n \in Pieces : n \in Open..Close /\ n # Open /\ n # Close
  /\ \A n \in Open..Close : n # Close => n + 1 \in Open..Close /\ n + 1 # Open
  /\ \A p \in Pieces : p < Close /\ \A n \in Open..Close : p < n + 1 => p < n \/ p = n
  BY MediaAssumption DEF Open, Close, Pieces

LEMMA JobFacts ==
  ASSUME TypeOK, NEW u \in Uploads
  PROVE  /\ job[u].at \in Ats \union {"idle"}
         /\ job[u].at = "idle" => job[u] = Idle
         /\ job[u].at # "idle" => \E i \in Ids : job[u].id = {i}
<1>1. job[u] \in Jobs
  BY DEF TypeOK, Jobs, Ats
<1>2. Idle.at = "idle"
  BY DEF Idle
<1>3. \A j \in [at : Ats, id : {{i} : i \in Ids}] : j.at \in Ats /\ \E i \in Ids : j.id = {i}
  OBVIOUS
<1>4. "idle" \notin Ats
  BY DEF Ats
<1> QED
  BY <1>1, <1>2, <1>3, <1>4 DEF Jobs

LEMMA GoesFacts ==
  ASSUME TypeOK, NEW u \in Uploads, NEW at \in Ats, job[u].at # "idle", Goes(u, at)
  PROVE  /\ job' \in [Uploads -> Jobs]
         /\ job'[u].at = at /\ job'[u].id = job[u].id
         /\ \A w \in Uploads \ {u} : job'[w] = job[w]
<1>1. job \in [Uploads -> Jobs] /\ job' = [job EXCEPT ![u].at = at]
  BY DEF TypeOK, Jobs, Ats, Goes
<1>2. Idle.at = "idle"
  BY DEF Idle
<1>3. job[u] \in [at : Ats, id : {{i} : i \in Ids}]
  BY <1>1, <1>2 DEF Jobs
<1>4. /\ [job[u] EXCEPT !.at = at] \in [at : Ats, id : {{i} : i \in Ids}]
      /\ [job[u] EXCEPT !.at = at].at = at
      /\ [job[u] EXCEPT !.at = at].id = job[u].id
  BY <1>3
<1>5. job'[u] = [job[u] EXCEPT !.at = at] /\ \A w \in Uploads \ {u} : job'[w] = job[w]
  BY <1>1
<1>6. job' \in [Uploads -> Jobs]
  BY <1>1, <1>4, <1>5 DEF Jobs
<1> QED
  BY <1>4, <1>5, <1>6

LEMMA EndsFacts ==
  ASSUME TypeOK, NEW u \in Uploads, Ends(u)
  PROVE  /\ job' \in [Uploads -> Jobs]
         /\ job'[u].at = "idle"
         /\ \A w \in Uploads \ {u} : job'[w] = job[w]
  BY DEF TypeOK, Jobs, Ats, Ends, Idle

LEMMA WriteFacts ==
  ASSUME TypeOK, NEW u \in Uploads
  PROVE  /\ write[u] # NoWrite => \E i \in Ids : Writing(u, i)
         /\ \A i \in Ids : Writing(u, i) =>
              /\ write[u] # NoWrite
              /\ write[u] \in [id : {{j} : j \in Ids}, next : Open..Close]
              /\ write[u].next \in Open..Close
              /\ \A j \in Ids : Writing(u, j) => i = j
<1>1. write[u] \in Threads
  BY DEF TypeOK, Threads
<1>2. NoWrite.id = {}
  BY DEF NoWrite
<1> QED
  BY <1>1, <1>2 DEF Threads, Writing

LEMMA WritesFacts ==
  ASSUME TypeOK, NEW u \in Uploads, NEW i \in Ids, Writing(u, i), write[u].next # Close,
         NEW new \in Files, Writes(u, i, new)
  PROVE  /\ file' \in [Ids -> Files] /\ file'[i] = new
         /\ \A j \in Ids \ {i} : file'[j] = file[j]
         /\ write' \in [Uploads -> Threads]
         /\ write'[u].id = {i} /\ write'[u].next = write[u].next + 1
         /\ \A w \in Uploads \ {u} : write'[w] = write[w]
         /\ UNCHANGED <<up, folder, saved, entry, job, answered, spoilt>>
<1>1. file' = [file EXCEPT ![i] = new] /\ file \in [Ids -> Files]
  BY DEF Writes, TypeOK, Files
<1>2. write' = [write EXCEPT ![u].next = @ + 1] /\ write \in [Uploads -> Threads]
  BY DEF Writes, TypeOK, Threads
<1>3. /\ write[u] \in [id : {{j} : j \in Ids}, next : Open..Close]
      /\ write[u].next + 1 \in Open..Close
      /\ write[u].id = {i}
  BY WriteFacts, Steps DEF Writing
<1> DEFINE goesOn == [write[u] EXCEPT !.next = write[u].next + 1]
<1>4. /\ goesOn \in [id : {{j} : j \in Ids}, next : Open..Close]
      /\ goesOn.id = {i} /\ goesOn.next = write[u].next + 1
  BY <1>3
<1>5. write'[u] = goesOn /\ \A w \in Uploads \ {u} : write'[w] = write[w]
  BY <1>2
<1>6. write' \in [Uploads -> Threads]
  BY <1>2, <1>4, <1>5 DEF Threads
<1> QED
  BY <1>1, <1>4, <1>5, <1>6 DEF Writes, past

LEMMA WriteOverFacts ==
  ASSUME TypeOK, NEW u \in Uploads, write' = [write EXCEPT ![u] = NoWrite]
  PROVE  /\ write' \in [Uploads -> Threads]
         /\ write'[u] = NoWrite
         /\ \A w \in Uploads \ {u} : write'[w] = write[w]
  BY DEF TypeOK, Threads

\* What the two write steps that touch the file leave in it.
LEMMA FilledFiles ==
  ASSUME TypeOK, NEW u \in Uploads, NEW i \in Ids, WriteOpens(u, i) \/ WriteFills(u, i)
  PROVE  \E new \in Files :
           /\ new.there = TRUE
           /\ Writes(u, i, new) /\ Writing(u, i) /\ write[u].next # Close
           /\ \/ write[u].next = Open /\ new.has = {}
              \/ /\ write[u].next \in Pieces
                 /\ new.has = file[i].has \union {write[u].next}
<1>1. CASE WriteOpens(u, i)
  <2>1. [there |-> TRUE, has |-> {}] \in Files
    BY DEF Files
  <2> QED
    BY <1>1, <2>1, Steps DEF WriteOpens
<1>2. CASE WriteFills(u, i)
  <2> DEFINE new == [there |-> TRUE, has |-> file[i].has \union {write[u].next}]
  <2>1. file[i] \in Files /\ write[u].next \in Pieces
    BY <1>2 DEF WriteFills, TypeOK, Files
  <2>2. new \in Files
    BY <2>1 DEF Files
  <2> QED
    BY <1>2, <2>1, <2>2, Steps DEF WriteFills
<1> QED
  BY <1>1, <1>2

-----------------------------------------------------------------------------
(* Type correctness *)

LEMMA JobStepType ==
  ASSUME TypeOK, job' \in [Uploads -> Jobs],
         UNCHANGED <<up, disk, entry, write, spoilt>>, answered' \subseteq Ids,
         \A u \in Uploads : job'[u].at = "write" => write[u].id = job'[u].id
  PROVE  TypeOK'
  BY DEF TypeOK, disk, Jobs, Ats

LEMMA TypeStep ==
  ASSUME TypeOK, FolderMade, [Next]_vars
  PROVE  TypeOK'
<1>1. ASSUME NEW u \in Uploads, NEW i \in Ids, Arrive(u, i)
      PROVE  TypeOK'
  <2>1. job' \in [Uploads -> Jobs]
    BY <1>1 DEF Arrive, TypeOK, Jobs, Ats
  <2>2. job'[u].at # "write" /\ \A w \in Uploads \ {u} : job'[w] = job[w]
    BY <1>1 DEF Arrive, TypeOK
  <2>3. \A w \in Uploads : job'[w].at = "write" => write[w].id = job'[w].id
    BY <2>2 DEF TypeOK
  <2> QED
    BY <1>1, <2>1, <2>3, JobStepType DEF Arrive, past, TypeOK
<1>2. ASSUME NEW u \in Uploads, MakeFolder(u)
      PROVE  TypeOK'
  <2>1. job' \in [Uploads -> Jobs] /\ job'[u].at = "body"
        /\ \A w \in Uploads \ {u} : job'[w] = job[w]
    BY <1>2, GoesFacts DEF MakeFolder, Ats
  <2>2. folder' = TRUE /\ UNCHANGED <<up, file, saved, entry, write, answered, spoilt>>
    BY <1>2 DEF MakeFolder, past
  <2> QED
    BY <2>1, <2>2 DEF TypeOK, Jobs, Ats
<1>3. ASSUME NEW u \in Uploads, FolderPanics(u) \/ Cancel(u)
      PROVE  TypeOK'
  <2>1. Ends(u) /\ UNCHANGED <<up, disk, entry, write, answered, spoilt>>
    BY <1>3 DEF FolderPanics, Cancel, past
  <2>2. \A w \in Uploads : job'[w].at = "write" => write[w].id = job'[w].id
    BY <2>1, EndsFacts DEF TypeOK
  <2> QED
    BY <2>1, <2>2, EndsFacts, JobStepType DEF TypeOK
<1>4. ASSUME NEW u \in Uploads, Body(u) \/ Look(u) \/ Enter(u)
      PROVE  TypeOK'
  <2>1. job' \in [Uploads -> Jobs] /\ job'[u].at # "write"
        /\ \A w \in Uploads \ {u} : job'[w] = job[w]
    BY <1>4, GoesFacts, EndsFacts DEF Body, Look, Enter, Ats
  <2>2. \A w \in Uploads : job'[w].at = "write" => write[w].id = job'[w].id
    BY <2>1 DEF TypeOK
  <2>3. \E i \in Ids : job[u].id = {i}
    BY <1>4, JobFacts DEF Body, Look, Enter
  <2>4. CASE Body(u)
    BY <2>1, <2>2, <2>4, JobStepType DEF Body, past, TypeOK
  <2>5. CASE Look(u)
    <3>1. \A i \in Ids : Known(i) \subseteq Ids
      BY DEF Known, TypeOK
    <3>2. answered' \subseteq Ids
      BY <2>3, <2>5, <3>1 DEF Look, TypeOK
    <3> QED
      BY <2>1, <2>2, <2>5, <3>2, JobStepType DEF Look
  <2>6. CASE Enter(u)
    <3>1. entry' \in [Ids -> {{}} \union {{i} : i \in Ids}]
      BY <2>6 DEF Enter, TypeOK
    <3>2. answered' \subseteq Ids /\ UNCHANGED <<up, folder, file, saved, write, spoilt>>
      BY <2>3, <2>6 DEF Enter, disk, TypeOK
    <3> QED
      BY <2>1, <2>2, <3>1, <3>2 DEF TypeOK, Jobs, Ats
  <2> QED
    BY <1>4, <2>4, <2>5, <2>6
<1>5. ASSUME NEW u \in Uploads, Check(u)
      PROVE  TypeOK'
  <2>1. job' \in [Uploads -> Jobs] /\ job'[u].id = job[u].id
        /\ \A w \in Uploads \ {u} : job'[w] = job[w]
        /\ job'[u].at \in {"enter", "write"}
    BY <1>5, GoesFacts DEF Check, Ats
  <2>2. \E i \in Ids : job[u].id = {i}
    BY <1>5, JobFacts DEF Check
  <2>3. UNCHANGED <<up, folder, file, saved, entry, answered, spoilt>>
    BY <1>5 DEF Check, disk, past
  <2>4. CASE \A i \in job[u].id : file[i].there
    <3>1. job'[u].at = "enter" /\ UNCHANGED write
      BY <1>5, <2>4, GoesFacts DEF Check, Ats
    <3> QED
      BY <2>1, <2>3, <3>1 DEF TypeOK, Jobs, Ats
  <2>5. CASE ~\A i \in job[u].id : file[i].there
    <3>1. write' = [write EXCEPT ![u] = [id |-> job[u].id, next |-> Open]]
      BY <1>5, <2>5 DEF Check
    <3>2. [id |-> job[u].id, next |-> Open] \in [id : {{i} : i \in Ids}, next : Open..Close]
      BY <2>2, Steps
    <3>3. write' \in [Uploads -> Threads] /\ write'[u].id = job[u].id
          /\ \A w \in Uploads \ {u} : write'[w] = write[w]
      BY <3>1, <3>2 DEF TypeOK, Threads
    <3>4. \A w \in Uploads : job'[w].at = "write" => write'[w].id = job'[w].id
      BY <2>1, <3>3 DEF TypeOK
    <3> QED
      BY <2>1, <2>3, <3>3, <3>4 DEF TypeOK, Jobs, Ats, Threads
  <2> QED
    BY <2>4, <2>5
<1>6. ASSUME NEW u \in Uploads, NEW i \in Ids, WriteOpens(u, i) \/ WriteFills(u, i)
      PROVE  TypeOK'
  <2>1. PICK new \in Files : Writes(u, i, new) /\ Writing(u, i) /\ write[u].next # Close
    BY <1>6, FilledFiles
  <2>2. folder = TRUE
    BY <2>1, WriteFacts DEF FolderMade, TypeOK
  <2>3. \A w \in Uploads : job'[w].at = "write" => write'[w].id = job'[w].id
    BY <2>1, WritesFacts DEF TypeOK, Writing
  <2>4. /\ file' \in [Ids -> Files] /\ write' \in [Uploads -> Threads]
        /\ UNCHANGED <<up, folder, saved, entry, job, answered, spoilt>>
    BY <2>1, WritesFacts
  <2> QED
    BY <2>2, <2>3, <2>4 DEF TypeOK, Files, Threads
<1>7. ASSUME NEW u \in Uploads, NEW i \in Ids, WriteEnds(u, i) \/ WriteFails(u, i)
      PROVE  TypeOK'
  <2>1. write' = [write EXCEPT ![u] = NoWrite] /\ spoilt' \subseteq Ids
        /\ UNCHANGED <<up, disk, entry, answered>>
    BY <1>7 DEF WriteEnds, WriteFails, past, TypeOK
  <2>2. /\ job' \in [Uploads -> Jobs]
        /\ job'[u].at # "write"
        /\ \A w \in Uploads \ {u} : job'[w] = job[w]
    <3>1. CASE job[u].at = "write"
      BY <1>7, <3>1, GoesFacts, EndsFacts DEF WriteEnds, WriteFails, Ats
    <3>2. CASE job[u].at # "write"
      BY <1>7, <3>2 DEF WriteEnds, WriteFails, TypeOK, Jobs, Ats
    <3> QED
      BY <3>1, <3>2
  <2>3. \A w \in Uploads : job'[w].at = "write" => write'[w].id = job'[w].id
    BY <2>1, <2>2, WriteOverFacts DEF TypeOK
  <2> QED
    BY <2>1, <2>2, <2>3, WriteOverFacts DEF TypeOK, disk, Jobs, Ats, Threads
<1>8. CASE Start \/ Stop \/ UNCHANGED vars
  BY <1>8 DEF Start, Stop, vars, disk, past, TypeOK
<1>9. CASE Crash
  <2>1. /\ job' \in [Uploads -> Jobs] /\ write' \in [Uploads -> Threads]
        /\ \A u \in Uploads : job'[u].at = "idle"
    BY <1>9 DEF Crash, Jobs, Threads, Idle
  <2>2. entry' \in [Ids -> {{}} \union {{i} : i \in Ids}] /\ spoilt' \subseteq Ids
    BY <1>9 DEF Crash, CutOff, TypeOK
  <2> QED
    BY <1>9, <2>1, <2>2 DEF Crash, disk, TypeOK, Jobs, Ats, Threads
<1> QED
  BY <1>1, <1>2, <1>3, <1>4, <1>5, <1>6, <1>7, <1>8, <1>9 DEF Next

-----------------------------------------------------------------------------
(* The uploads *)

\* The steps that touch neither a file nor a write.
RequestStep(u) ==
  \/ \E i \in Ids : Arrive(u, i)
  \/ MakeFolder(u) \/ FolderPanics(u) \/ Body(u) \/ Look(u) \/ Enter(u) \/ Cancel(u)

Requests == FolderMade /\ OneWrite

LEMMA RequestsStep ==
  ASSUME TypeOK, Requests, [Next]_vars
  PROVE  Requests'
<1> USE DEF Requests, FolderMade, OneWrite
<1>1. ASSUME NEW u \in Uploads, RequestStep(u)
      PROVE  Requests'
  <2>1. write' = write /\ \A w \in Uploads \ {u} : job'[w] = job[w]
    BY <1>1, GoesFacts, EndsFacts
       DEF RequestStep, Arrive, MakeFolder, FolderPanics, Body, Look, Enter, Cancel,
           Ats, TypeOK
  <2>2. folder => folder'
    BY <1>1 DEF RequestStep, Arrive, MakeFolder, FolderPanics, Body, Look, Enter, Cancel, disk
  <2>3. job'[u].at \notin {"idle", "mkdir"} => folder'
    <3>1. CASE \E i \in Ids : Arrive(u, i)
      <4>1. job'[u].at = IF folder THEN "body" ELSE "mkdir"
        BY <3>1 DEF Arrive, TypeOK
      <4> QED
        BY <2>2, <4>1
    <3>2. CASE MakeFolder(u)
      BY <3>2 DEF MakeFolder
    <3>3. CASE Body(u) \/ Look(u)
      BY <2>2, <3>3 DEF Body, Look
    <3>4. CASE FolderPanics(u) \/ Enter(u) \/ Cancel(u)
      BY <3>4, EndsFacts DEF FolderPanics, Enter, Cancel
    <3> QED
      BY <1>1, <3>1, <3>2, <3>3, <3>4 DEF RequestStep
  <2>4. job'[u].at \notin {"idle", "write"} => write[u] = NoWrite
    BY <1>1, EndsFacts
       DEF RequestStep, Arrive, MakeFolder, FolderPanics, Body, Look, Enter, Cancel
  <2> QED
    BY <2>1, <2>2, <2>3, <2>4
<1>2. ASSUME NEW u \in Uploads, Check(u)
      PROVE  Requests'
  <2>1. \A w \in Uploads \ {u} : job'[w] = job[w] /\ write'[w] = write[w]
    BY <1>2, GoesFacts DEF Check, Ats, TypeOK
  <2>2. folder /\ folder' = folder /\ write[u] = NoWrite
    BY <1>2 DEF Check, disk
  <2>3. job'[u].at = "write" \/ write' = write
    BY <1>2, GoesFacts DEF Check, Ats
  <2> QED
    BY <2>1, <2>2, <2>3
<1>3. ASSUME NEW u \in Uploads, NEW i \in Ids, WriteOpens(u, i) \/ WriteFills(u, i)
      PROVE  Requests'
  <2>1. PICK new \in Files : Writes(u, i, new) /\ Writing(u, i) /\ write[u].next # Close
    BY <1>3, FilledFiles
  <2>2. write[u] # NoWrite
    BY <2>1, WriteFacts
  <2>3. job' = job /\ folder' = folder /\ \A w \in Uploads \ {u} : write'[w] = write[w]
    BY <2>1, WritesFacts
  <2> QED
    BY <2>2, <2>3
<1>4. ASSUME NEW u \in Uploads, NEW i \in Ids, WriteEnds(u, i) \/ WriteFails(u, i)
      PROVE  Requests'
  <2>1. folder' = folder /\ write'[u] = NoWrite /\ write[u] # NoWrite
        /\ \A w \in Uploads \ {u} : write'[w] = write[w]
    BY <1>4, WriteOverFacts, WriteFacts DEF WriteEnds, WriteFails, disk
  <2>2. \A w \in Uploads \ {u} : job'[w] = job[w]
    <3>1. CASE job[u].at = "write"
      BY <1>4, <3>1, GoesFacts, EndsFacts DEF WriteEnds, WriteFails, Ats
    <3>2. CASE job[u].at # "write"
      BY <1>4, <3>2 DEF WriteEnds, WriteFails
    <3> QED
      BY <3>1, <3>2
  <2> QED
    BY <2>1, <2>2
<1>5. CASE Start \/ Stop \/ UNCHANGED vars
  BY <1>5 DEF Start, Stop, vars, disk
<1>6. CASE Crash
  <2>1. \A u \in Uploads : job'[u].at = "idle" /\ write'[u] = NoWrite
    BY <1>6 DEF Crash, Idle
  <2> QED
    BY <2>1
<1> QED
  BY <1>1, <1>2, <1>3, <1>4, <1>5, <1>6 DEF Next, RequestStep

-----------------------------------------------------------------------------
(* The Cache *)

LEMMA RefsStep ==
  ASSUME TypeOK, RefsLead(entry), RefsLead(saved), [Next]_vars
  PROVE  RefsLead(entry)' /\ RefsLead(saved)'
<1> USE DEF RefsLead
<1>1. ASSUME NEW u \in Uploads, Enter(u)
      PROVE  RefsLead(entry)' /\ RefsLead(saved)'
  <2>1. entry' = [i \in Ids |-> IF i \in job[u].id THEN {i} ELSE entry[i]] /\ saved' = saved
    BY <1>1 DEF Enter, disk
  <2>2. ASSUME NEW i \in Ids, NEW j \in entry'[i] \ {i}
        PROVE  entry'[j] \in {{}, {j}}
    BY <2>1, <2>2 DEF TypeOK
  <2> QED
    BY <2>1, <2>2
<1>2. CASE Start \/ Stop \/ Crash
  BY <1>2 DEF Start, Stop, Crash, disk
<1>3. CASE UNCHANGED <<entry, saved>>
  BY <1>3
<1>4. ASSUME NEW u \in Uploads,
             \/ RequestStep(u) /\ ~Enter(u)
             \/ Check(u) \/ WriteStep(u)
      PROVE  UNCHANGED <<entry, saved>>
  BY <1>4 DEF RequestStep, Arrive, MakeFolder, FolderPanics, Body, Look, Cancel, Check,
              WriteStep, WriteOpens, WriteFills, WriteEnds, WriteFails, Writes, disk
<1>5. CASE UNCHANGED vars
  BY <1>5 DEF vars, disk
<1> QED
  BY <1>1, <1>2, <1>3, <1>4, <1>5 DEF Next, RequestStep, WriteStep

\* What the Cache finds for a content is an Entry.
LEMMA KnownIsEntered ==
  ASSUME TypeOK, RefsLead(entry), NEW i \in Ids, NEW j \in Known(i)
  PROVE  j \in Ids /\ entry[j] = {j}
<1>1. j \in entry[i] /\ entry[j] # {} /\ entry[i] \in {{}} \union {{k} : k \in Ids}
  BY DEF Known, TypeOK
<1> QED
  BY <1>1 DEF RefsLead

-----------------------------------------------------------------------------
(* The files *)

\* A file that is there stays.
LEMMA FilesStay ==
  ASSUME TypeOK, [Next]_vars
  PROVE  \A i \in Ids : file[i].there => file'[i].there
<1>1. ASSUME NEW u \in Uploads, NEW i \in Ids, WriteOpens(u, i) \/ WriteFills(u, i)
      PROVE  \A j \in Ids : file[j].there => file'[j].there
  <2>1. PICK new \in Files : /\ Writes(u, i, new) /\ Writing(u, i) /\ write[u].next # Close
                             /\ new.there = TRUE
    BY <1>1, FilledFiles
  <2>2. file'[i].there /\ \A j \in Ids \ {i} : file'[j] = file[j]
    BY <2>1, WritesFacts
  <2> QED
    BY <2>2
<1>2. ASSUME NEW u \in Uploads, NEW i \in Ids, WriteEnds(u, i) \/ WriteFails(u, i)
      PROVE  file' = file
  BY <1>2 DEF WriteEnds, WriteFails, disk
<1>3. ASSUME NEW u \in Uploads, RequestStep(u) \/ Check(u)
      PROVE  file' = file
  BY <1>3 DEF RequestStep, Arrive, MakeFolder, FolderPanics, Body, Look, Enter, Cancel,
              Check, disk
<1>4. CASE Start \/ Stop \/ Crash \/ UNCHANGED vars
  BY <1>4 DEF Start, Stop, Crash, vars, disk
<1> QED
  BY <1>1, <1>2, <1>3, <1>4 DEF Next, RequestStep

\* Nothing comes to be counted on without a file.
LEMMA CountedStep ==
  ASSUME TypeOK, RefsLead(entry), CountedIsThere, [Next]_vars
  PROVE  CountedIsThere'
<1> SUFFICES ASSUME NEW j \in Ids, Counted(j)', ~Counted(j)
             PROVE  file'[j].there
  BY FilesStay DEF CountedIsThere
<1>1. ASSUME NEW u \in Uploads,
             \/ \E i \in Ids : Arrive(u, i)
             \/ MakeFolder(u) \/ FolderPanics(u) \/ Body(u) \/ Cancel(u)
      PROVE  FALSE
  <2>1. /\ UNCHANGED <<entry, saved, answered, write>>
        /\ job'[u].at # "enter" /\ \A w \in Uploads \ {u} : job'[w] = job[w]
    <3>1. CASE \E i \in Ids : Arrive(u, i)
      BY <3>1 DEF Arrive, TypeOK, disk, past
    <3>2. CASE MakeFolder(u) \/ Body(u)
      BY <3>2, GoesFacts DEF MakeFolder, Body, Ats, disk, past
    <3>3. CASE FolderPanics(u) \/ Cancel(u)
      BY <3>3, EndsFacts DEF FolderPanics, Cancel, disk, past
    <3> QED
      BY <1>1, <3>1, <3>2, <3>3
  <2> QED
    BY <2>1 DEF Counted, Writing
<1>2. ASSUME NEW u \in Uploads, Look(u)
      PROVE  FALSE
  <2>1. UNCHANGED <<entry, saved, write>>
    BY <1>2 DEF Look, disk
  <2>2. job'[u].at # "enter" /\ \A w \in Uploads \ {u} : job'[w] = job[w]
    BY <1>2, GoesFacts, EndsFacts DEF Look, Ats
  <2>3. PICK i \in Ids : job[u].id = {i}
    BY <1>2, JobFacts DEF Look
  <2>4. answered' \subseteq answered \union Known(i)
    BY <1>2, <2>3 DEF Look
  <2>5. j \in Known(i)
    BY <2>1, <2>2, <2>4 DEF Counted, Writing
  <2> QED
    BY <2>3, <2>5, KnownIsEntered DEF Counted
<1>3. ASSUME NEW u \in Uploads, Check(u)
      PROVE  file'[j].there
  <2>1. UNCHANGED <<file, entry, saved, answered>>
    BY <1>3 DEF Check, disk, past
  <2>2. /\ job'[u].id = job[u].id
        /\ job'[u].at = "enter" => \A i \in job[u].id : file[i].there
        /\ \A w \in Uploads \ {u} : job'[w] = job[w]
    BY <1>3, GoesFacts DEF Check, Ats
  <2>3. \A w \in Uploads : write'[w] = write[w] \/ write'[w].next = Open
    BY <1>3 DEF Check, TypeOK
  <2>4. PICK w \in Uploads : job'[w].at = "enter" /\ job'[w].id = {j}
    BY <2>1, <2>3 DEF Counted, Writing
  <2>5. w = u
    BY <2>2, <2>4 DEF Counted
  <2> QED
    BY <2>1, <2>2, <2>4, <2>5
<1>4. ASSUME NEW u \in Uploads, Enter(u)
      PROVE  FALSE
  <2>1. \A w \in Uploads : job'[w].at = "enter" => job'[w] = job[w]
    BY <1>4, EndsFacts DEF Enter
  <2>2. PICK i \in Ids : job[u].id = {i}
    BY <1>4, JobFacts DEF Enter
  <2>3. UNCHANGED <<saved, write>> /\ answered' = answered \union {i}
        /\ \A k \in Ids : entry'[k] = entry[k] \/ k = i
    BY <1>4, <2>2 DEF Enter, disk
  <2>4. Counted(i)
    BY <1>4, <2>2 DEF Enter, Counted
  <2> QED
    BY <2>1, <2>3, <2>4 DEF Counted, Writing
<1>5. ASSUME NEW u \in Uploads, NEW i \in Ids, WriteOpens(u, i) \/ WriteFills(u, i)
      PROVE  file'[j].there
  <2>1. PICK new \in Files : /\ Writes(u, i, new) /\ Writing(u, i) /\ write[u].next # Close
                             /\ new.there = TRUE
    BY <1>5, FilledFiles
  <2>2. /\ UNCHANGED <<entry, saved, answered, job>>
        /\ file'[i].there /\ write'[u].id = {i}
        /\ \A w \in Uploads \ {u} : write'[w] = write[w]
    BY <2>1, WritesFacts
  <2>3. j = i
    BY <2>2 DEF Counted, Writing
  <2> QED
    BY <2>2, <2>3
<1>6. ASSUME NEW u \in Uploads, NEW i \in Ids, WriteEnds(u, i) \/ WriteFails(u, i)
      PROVE  FALSE
  <2>1. UNCHANGED <<entry, saved, answered>> /\ write'[u] = NoWrite
        /\ \A w \in Uploads \ {u} : write'[w] = write[w]
    BY <1>6, WriteOverFacts DEF WriteEnds, WriteFails, disk, past
  <2>2. NoWrite.id # {j}
    BY DEF NoWrite
  <2>3. PICK w \in Uploads : job'[w].at = "enter" /\ job'[w].id = {j}
    BY <2>1, <2>2 DEF Counted, Writing
  <2>4. job'[w] # job[w]
    BY <2>3 DEF Counted
  <2>5. CASE WriteEnds(u, i)
    <3>1. w = u /\ job[u].at = "write" /\ job'[u].id = job[u].id
      BY <2>4, <2>5, GoesFacts DEF WriteEnds, Ats
    <3>2. Writing(u, j) /\ write[u].next = Close
      BY <2>3, <2>5, <3>1 DEF WriteEnds, Writing, TypeOK
    <3> QED
      BY <3>2, Steps DEF Counted
  <2>6. CASE WriteFails(u, i)
    BY <2>3, <2>4, <2>6, EndsFacts DEF WriteFails
  <2> QED
    BY <1>6, <2>5, <2>6
<1>7. CASE Start \/ Stop
  BY <1>7 DEF Start, Stop, disk, past, Counted, Writing
<1>8. CASE UNCHANGED vars
  BY <1>8 DEF vars, disk, past, Counted, Writing
<1>9. CASE Crash
  <2>1. \A u \in Uploads : job'[u].at # "enter" /\ write'[u].id # {j}
    BY <1>9 DEF Crash, Idle, NoWrite
  <2> QED
    BY <1>9, <2>1 DEF Crash, disk, Counted, Writing
<1> QED
  BY <1>1, <1>2, <1>3, <1>4, <1>5, <1>6, <1>7, <1>8, <1>9 DEF Next

LEMMA WholeIs ==
  \A f \in Files : f.there => ((\A p \in Pieces : p \in f.has) <=> f = Whole)
<1>1. Whole.has = Pieces /\ \A f \in Files : f.there /\ f.has = Pieces => f = Whole
  BY DEF Files, Whole
<1> QED
  BY <1>1 DEF Files

\* Upload u is the last that has opened the file of i, or one that goes on.
Fills(u, i) == /\ Writing(u, i) /\ write[u].next # Open
               /\ \A p \in Pieces : p < write[u].next => p \in file[i].has

\* The last upload that has opened the file goes on, has written all, or spoils
\* it: what the others write between changes none of that.
LEMMA FilledStep ==
  ASSUME TypeOK, TypeOK', OneWrite, CountedIsThere, Filled, [Next]_vars
  PROVE  Filled'
<1> SUFFICES ASSUME NEW j \in Ids, file'[j].there, file'[j] # Whole, j \notin spoilt'
             PROVE  \E u \in Uploads : Fills(u, j)'
  BY DEF Filled, LastOpener, Fills
<1>1. ASSUME file[j].there, file[j] # Whole, j \notin spoilt
      PROVE  \E u \in Uploads : Fills(u, j)
  BY <1>1 DEF Filled, LastOpener, Fills
<1>2. ASSUME NEW u \in Uploads, Fills(u, j), file[j].there, write[u].next = Close
      PROVE  file[j] = Whole
  <2>1. \A p \in Pieces : p \in file[j].has
    BY <1>2, Steps DEF Fills
  <2> QED
    BY <1>2, <2>1, WholeIs DEF TypeOK, Files
<1>3. ASSUME NEW u \in Uploads, Fills(u, j), file'[j] = file[j], write'[u] = write[u]
      PROVE  Fills(u, j)'
  BY <1>3 DEF Fills, Writing
<1>4. ASSUME UNCHANGED <<file, write, spoilt>>
      PROVE  \E u \in Uploads : Fills(u, j)'
  BY <1>1, <1>3, <1>4
<1>5. ASSUME NEW u \in Uploads, RequestStep(u)
      PROVE  UNCHANGED <<file, write, spoilt>>
  BY <1>5 DEF RequestStep, Arrive, MakeFolder, FolderPanics, Body, Look, Enter, Cancel,
              disk, past
<1>6. ASSUME NEW u \in Uploads, Check(u)
      PROVE  \E w \in Uploads : Fills(w, j)'
  <2>1. write[u] = NoWrite /\ UNCHANGED <<file, spoilt>>
        /\ \A w \in Uploads \ {u} : write'[w] = write[w]
    BY <1>6 DEF Check, OneWrite, TypeOK, disk, past
  <2>2. PICK w \in Uploads : Fills(w, j)
    BY <1>1, <2>1
  <2>3. w # u
    BY <2>1, <2>2, WriteFacts DEF Fills
  <2> QED
    BY <1>3, <2>1, <2>2, <2>3
<1>7. ASSUME NEW u \in Uploads, NEW i \in Ids, WriteOpens(u, i) \/ WriteFills(u, i)
      PROVE  \E w \in Uploads : Fills(w, j)'
  <2>1. PICK new \in Files :
          /\ Writes(u, i, new) /\ Writing(u, i) /\ write[u].next # Close
          /\ \/ write[u].next = Open /\ new.has = {}
             \/ write[u].next \in Pieces /\ new.has = file[i].has \union {write[u].next}
    BY <1>7, FilledFiles
  <2>2. /\ file'[i] = new /\ \A k \in Ids \ {i} : file'[k] = file[k]
        /\ write'[u].id = {i} /\ write'[u].next = write[u].next + 1
        /\ \A w \in Uploads \ {u} : write'[w] = write[w]
        /\ spoilt' = spoilt
    BY <2>1, WritesFacts
  <2>3. write[u].next \in Open..Close /\ write'[u].next # Open
    BY <2>1, <2>2, WriteFacts, Steps
  <2>4. CASE i = j /\ write[u].next = Open
    <3>1. \A p \in Pieces : ~(p < write'[u].next)
      BY <2>2, <2>4 DEF Open, Pieces
    <3> QED
      BY <2>2, <2>3, <2>4, <3>1 DEF Fills, Writing
  <2>5. CASE i = j /\ write[u].next \in Pieces
    <3>1. file[j].has \subseteq file'[j].has /\ write[u].next \in file'[j].has
      BY <2>1, <2>2, <2>5, Steps
    <3>2. file[j].there
      BY <2>1, <2>5, Steps DEF CountedIsThere, Counted
    <3>3. file[j] # Whole
      <4>1. file[j] \in Files /\ file'[j] \in Files
        BY DEF TypeOK, Files
      <4> QED
        BY <3>1, <3>2, <4>1, WholeIs
    <3>4. PICK w \in Uploads : Fills(w, j)
      BY <1>1, <2>2, <3>2, <3>3
    <3>5. CASE w # u
      BY <2>2, <3>1, <3>4, <3>5 DEF Fills, Writing
    <3>6. CASE w = u
      <4>1. \A p \in Pieces : p < write[u].next + 1 => p < write[u].next \/ p = write[u].next
        BY <2>3, Steps
      <4> QED
        BY <2>2, <2>3, <2>5, <3>1, <3>4, <3>6, <4>1 DEF Fills, Writing
    <3> QED
      BY <3>5, <3>6
  <2>6. CASE i # j
    <3>1. PICK w \in Uploads : Fills(w, j)
      BY <1>1, <2>2, <2>6
    <3>2. w # u
      BY <2>1, <2>6, <3>1, WriteFacts DEF Fills
    <3> QED
      BY <1>3, <2>2, <2>6, <3>1, <3>2
  <2> QED
    BY <2>1, <2>4, <2>5, <2>6
<1>8. ASSUME NEW u \in Uploads, NEW i \in Ids, WriteEnds(u, i) \/ WriteFails(u, i)
      PROVE  \E w \in Uploads : Fills(w, j)'
  <2>1. /\ file' = file /\ \A w \in Uploads \ {u} : write'[w] = write[w]
        /\ spoilt \subseteq spoilt'
    BY <1>8, WriteOverFacts DEF WriteEnds, WriteFails, disk, past
  <2>2. PICK w \in Uploads : Fills(w, j)
    BY <1>1, <2>1
  <2>3. w # u
    <3>1. SUFFICES ASSUME w = u PROVE FALSE
      OBVIOUS
    <3>2. i = j
      BY <1>8, <2>2, <3>1, WriteFacts DEF Fills, WriteEnds, WriteFails
    <3>3. write[u].next # Close
      BY <1>2, <2>1, <2>2, <3>1
    <3> QED
      BY <1>8, <2>2, <3>1, <3>2, <3>3 DEF Fills, WriteEnds, WriteFails
  <2> QED
    BY <1>3, <2>1, <2>2, <2>3
<1>9. CASE Start \/ Stop \/ UNCHANGED vars
  BY <1>4, <1>9 DEF Start, Stop, vars, disk, past
<1>10. CASE Crash
  <2>1. file' = file /\ spoilt' = spoilt \union CutOff
    BY <1>10 DEF Crash, disk
  <2>2. PICK w \in Uploads : Fills(w, j)
    BY <1>1, <2>1
  <2>3. write[w].next \in Pieces
    BY <1>2, <2>1, <2>2, WriteFacts, Steps DEF Fills
  <2>4. j \in CutOff
    BY <2>2, <2>3 DEF CutOff, Fills
  <2> QED
    BY <2>1, <2>4
<1> QED
  BY <1>4, <1>5, <1>6, <1>7, <1>8, <1>9, <1>10 DEF Next, RequestStep

-----------------------------------------------------------------------------
(* The theorems *)

LEMMA Invariance == Spec => []Inv
<1>1. Init => Inv
  <2> SUFFICES ASSUME Init PROVE Inv
    OBVIOUS
  <2>1. TypeOK
    <3>1. {NoFile, Whole} \subseteq [there : BOOLEAN, has : SUBSET Pieces]
      BY DEF NoFile, Whole
    <3>2. job \in [Uploads -> {Idle}] /\ \A u \in Uploads : job[u].at = "idle"
      BY DEF Init, Idle
    <3> QED
      BY <3>1, <3>2 DEF Init, TypeOK
  <2>2. \A u \in Uploads : /\ job[u].at = "idle" /\ write[u] = NoWrite
                           /\ \A i \in Ids : ~Writing(u, i)
    BY DEF Init, Idle, NoWrite, Writing
  <2>3. RefsLead(entry) /\ RefsLead(saved)
    BY DEF Init, Left, RefsLead
  <2>4. \A i \in Ids : (file[i].there => file[i] = Whole) /\ (saved[i] = {i} => file[i].there)
    <3>1. ~NoFile.there /\ Whole.there
      BY DEF NoFile, Whole
    <3> QED
      BY <3>1 DEF Init, Left
  <2>5. CountedIsThere /\ Filled
    BY <2>2, <2>4 DEF Init, CountedIsThere, Counted, Filled
  <2> QED
    BY <2>1, <2>2, <2>3, <2>5 DEF Inv, FolderMade, OneWrite
<1>2. Inv /\ [Next]_vars => Inv'
  <2> SUFFICES ASSUME Inv, [Next]_vars PROVE Inv'
    OBVIOUS
  <2>1. TypeOK'
    BY TypeStep DEF Inv
  <2> QED
    BY <2>1, RequestsStep, RefsStep, CountedStep, FilledStep DEF Inv, Requests
<1> QED
  BY <1>1, <1>2, PTL DEF Spec

\* media_post and its writes keep the data of the model well-formed.
THEOREM TypeCorrect == Spec => []TypeOK
<1>1. Inv => TypeOK
  BY DEF Inv
<1> QED
  BY <1>1, Invariance, PTL

\* What an upload was answered with, or the Cache has, has a whole file, or one
\* that is being written, or one of which a write was cut off.
THEOREM AnsweredHasFile == Spec => []AnsweredIsThere
<1>1. Inv => AnsweredIsThere
  BY DEF Inv, CountedIsThere, Counted, Filled, LastOpener, AnsweredIsThere
<1> QED
  BY <1>1, Invariance, PTL
=============================================================================
