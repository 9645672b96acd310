---------------------------- MODULE Persistence ----------------------------
(***************************************************************************)
(* What of the store is on disk, and when: the load at the start and the   *)
(* save at shutdown (src/src/v1/mod.rs, src/src/main.rs), the backup       *)
(* service (src/src/backup.rs) and the cache file that remembers when it   *)
(* last ran (src/src/cache.rs), under crashes, failing writes and reads,   *)
(* and a DB poisoned by a panic.                                           *)
(*                                                                         *)
(* A store, in memory or in a file, is the set of edits that made it: an   *)
(* edit is any accepted change of chunks or users.  Time goes by hours.    *)
(* The configuration is the container's: DB_PATH is set, DB_INIT is not.   *)
(***************************************************************************)
EXTENDS Naturals, FiniteSets

CONSTANTS Edits,
          Period,   \* hours from backup to backup
          Day,      \* hours in a day: the backups of one day share a file
          MaxHour   \* bound on the clock

ASSUME PersistenceAssumption ==
  /\ IsFiniteSet(Edits)
  /\ Period \in Nat \ {0, 1}
  /\ Day \in Nat \ {0}
  /\ MaxHour \in Nat /\ Period <= MaxHour

VARIABLES
  now,       \* hours since a time at which no backup had been made
  phase,     \* what main does: see TypeOK
  mem,       \* the DB
  poisoned,  \* did a request panic under the write guard?
  server,    \* does the HTTP server still serve?
  task,      \* the backup service: at the loop's "check", in its "wait" or
             \* "write", or "over"
  snap,      \* what the backup service writes
  last,      \* last_backup of the Cache in memory
  file, spare, backups,  \* DB_PATH, chunks.backup.json, day -> its backup
  cacheFile, \* CACHE_PATH: the last_backup in it
  at,        \* edit -> the hour in which this run accepted it, history
  stuck,     \* does a task wait for what never comes?
  faults,    \* what went wrong in this run, history
  late       \* edits that a socket made after the save, history

disk  == <<file, spare, backups, cacheFile>>
times == <<now, at>>
vars  == <<disk, times, phase, mem, poisoned, server, stuck, task, snap, last, faults, late>>

Hours == Period..MaxHour
Never   == 0                              \* the edit is still to be made
Earlier == 1                              \* it was made in a run that has ended
DayOf(h) == h \div Day
Today == DayOf(now)

\* A file is missing, cut off by a write that did not end, or a whole store.
Missing  == [state |-> "none", has |-> {}]
Torn     == [state |-> "torn", has |-> {}]
Whole(S) == [state |-> "whole", has |-> S]
Copies   == {Missing, Torn} \union {Whole(S) : S \in SUBSET Edits}

TypeOK ==
  /\ now \in Hours
  /\ phase \in {"off", "up", "stopping", "file", "spare", "saved", "cache"}
  /\ mem \subseteq Edits /\ snap \subseteq Edits /\ late \subseteq mem
  /\ poisoned \in BOOLEAN /\ server \in BOOLEAN /\ stuck \in BOOLEAN
  /\ task \in {"check", "wait", "write", "over"}
  /\ last \in 0..now
  /\ {file, spare} \subseteq Copies
  /\ backups \in [{DayOf(h) : h \in Hours} -> Copies]
  /\ cacheFile.state \in {"none", "torn", "whole"} /\ cacheFile.last \in 0..now
  /\ at \in [Edits -> {Never, Earlier} \union Hours]
  /\ faults \subseteq {"read", "backup", "file", "spare"}

Init ==
  /\ now = Period
  /\ phase = "off"
  /\ mem = {} /\ snap = {} /\ late = {} /\ faults = {}
  /\ poisoned = FALSE /\ server = FALSE /\ stuck = FALSE
  /\ task = "over"
  /\ last = 0
  /\ file = Missing /\ spare = Missing
  /\ backups = [d \in {DayOf(h) : h \in Hours} |-> Missing]
  /\ cacheFile = [state |-> "none", last |-> 0]
  /\ at = [e \in Edits |-> Never]

-----------------------------------------------------------------------------
(* The run of the process *)

\* Cache::init and v1::init.  A file that is cut off makes them panic.  One
\* that is missing, or whose reading fails, makes an empty cache or DB; the
\* backup service gives up at once if it cannot make its folder.
Start ==
  /\ phase = "off"
  /\ file.state # "torn" /\ cacheFile.state # "torn"
  /\ phase' = "up"
  /\ server' = TRUE
  /\ last' \in {cacheFile.last, 0}
  /\ \E readFails, folderFails \in BOOLEAN :
       /\ folderFails => \A d \in DOMAIN backups : backups[d] = Missing
       /\ mem' = IF readFails THEN {} ELSE file.has
       /\ task' = IF folderFails THEN "over" ELSE "check"
       /\ faults' = {f \in {"read", "backup"} :
                       IF f = "read" THEN readFails ELSE folderFails}
  /\ UNCHANGED <<disk, times, poisoned, stuck, snap, late>>

\* The end of the process, in whatever way: only the files are left.
Ends ==
  /\ phase' = "off"
  /\ mem' = {} /\ snap' = {} /\ late' = {} /\ faults' = {}
  /\ poisoned' = FALSE /\ server' = FALSE /\ stuck' = FALSE
  /\ task' = "over"
  /\ last' = 0
  /\ at' = [e \in Edits |-> IF at[e] = Never THEN Never ELSE Earlier]
  /\ now' = now

Crash == phase # "off" /\ Ends /\ UNCHANGED disk

Due == last + Period <= now

\* An hour passes.  The sleep of a waiting backup service ends when a backup is
\* due, and a write ends before the next one is; unless it cannot get the guard.
Tick ==
  /\ now < MaxHour
  /\ phase = "up" /\ task # "over" /\ ~stuck => ~Due
  /\ now' = now + 1
  /\ UNCHANGED <<disk, at, phase, mem, poisoned, server, stuck, task, snap, last, faults, late>>

-----------------------------------------------------------------------------
(* Requests *)

Accept(e) ==
  /\ ~poisoned
  /\ at[e] = Never
  /\ at' = [at EXCEPT ![e] = now]
  /\ mem' = mem \union {e}

\* By a handler: the server waits for it, main for the server.
Edit(e) ==
  /\ server
  /\ Accept(e)
  /\ UNCHANGED <<disk, now, phase, poisoned, server, stuck, task, snap, last, faults, late>>

\* By a web socket, for whose task nobody waits: kept out by the guard while
\* the store is saved, not afterwards.
SocketEdit(e) ==
  /\ phase \notin {"off", "file", "spare"}
  /\ Accept(e)
  /\ late' = IF phase \in {"saved", "cache"} THEN late \union {e} ELSE late
  /\ UNCHANGED <<disk, now, phase, poisoned, server, stuck, task, snap, last, faults>>

\* A request panics under the write guard (see ChunkDB, ChunkLocks).
Panic ==
  /\ phase \notin {"off", "file", "spare"} /\ ~poisoned
  /\ poisoned' = TRUE
  /\ UNCHANGED <<disk, times, phase, mem, server, stuck, task, snap, last, faults, late>>

\* A task waits for ever: two views wait for each other (see ChunkLocks), with a
\* guard each that keeps the next writer, and so everyone, from the DB; or what
\* is sent is not taken.  The time limit ends no handler that waits for a lock,
\* and no answer that is being sent.
Blocks ==
  /\ phase # "off" /\ ~stuck
  /\ stuck' = TRUE
  /\ UNCHANGED <<disk, times, phase, mem, poisoned, server, task, snap, last, faults, late>>

-----------------------------------------------------------------------------
(* The backup service *)

Stopping == phase # "up"
InTask   == UNCHANGED <<times, phase, mem, poisoned, server, stuck, late>>

BackupRests ==
  /\ task = "check" /\ ~Due
  /\ task' = "wait"
  /\ InTask /\ UNCHANGED <<disk, snap, last, faults>>

BackupWakes ==
  /\ task = "wait" /\ Due
  /\ task' = "check"
  /\ InTask /\ UNCHANGED <<disk, snap, last, faults>>

\* Mutant of BackupStarts: last_backup says when the next one is due.
BackupStartsAhead ==
  /\ task = "check" /\ Due /\ ~poisoned
  /\ last' = now + Period
  /\ snap' = mem
  /\ task' = "write"
  /\ backups' = [backups EXCEPT ![Today] = Torn]
  /\ InTask /\ UNCHANGED <<file, spare, cacheFile, faults>>

\* Mutant of BackupStarts: the file is named after the backup before.
BackupStartsBefore ==
  /\ task = "check" /\ Due /\ ~poisoned
  /\ last' = now
  /\ snap' = mem
  /\ task' = "write"
  /\ backups' = [backups EXCEPT ![DayOf(last)] = Torn]
  /\ InTask /\ UNCHANGED <<file, spare, cacheFile, faults>>

\* Mutant of BackupStarts: the file is copied, not the store in memory.
BackupStartsCopy ==
  /\ task = "check" /\ Due /\ ~poisoned
  /\ last' = now
  /\ snap' = file.has
  /\ task' = "write"
  /\ backups' = [backups EXCEPT ![Today] = Torn]
  /\ InTask /\ UNCHANGED <<file, spare, cacheFile, faults>>

\* last_backup is set before the store is read, and fs::write empties the file
\* of the day before it fills it.
BackupStarts ==
  /\ task = "check" /\ Due /\ ~poisoned
  /\ last' = now
  /\ snap' = mem
  /\ task' = "write"
  /\ backups' = [backups EXCEPT ![Today] = Torn]
  /\ InTask /\ UNCHANGED <<file, spare, cacheFile, faults>>

\* The file of the day in which the backup began, for which it is Torn.
BackupEnds ==
  /\ task = "write"
  /\ task' = "check" /\ snap' = {}
  /\ backups' = [backups EXCEPT ![DayOf(last)] = Whole(snap)]
  /\ InTask /\ UNCHANGED <<file, spare, cacheFile, last, faults>>

\* The write is cut off, or the file cannot be opened: next try in two hours.
BackupFails ==
  /\ \/ task = "write" /\ UNCHANGED last
     \/ task = "check" /\ Due /\ ~poisoned /\ last' = now
  /\ task' = "check" /\ snap' = {}
  /\ faults' = faults \union {"backup"}
  /\ InTask /\ UNCHANGED disk

\* Mutant of BackupPanics: a poisoned lock is tried again at once.
BackupRetries ==
  /\ task = "check" /\ Due /\ poisoned
  /\ InTask /\ UNCHANGED <<disk, snap, last, task, faults>>

\* The unwrap of the poisoned lock ends the task, unseen until main joins it.
BackupPanics ==
  /\ task = "check" /\ Due /\ poisoned
  /\ last' = now
  /\ task' = "over"
  /\ InTask /\ UNCHANGED <<disk, snap, faults>>

BackupStops ==
  /\ task = "wait" /\ Stopping
  /\ task' = "over"
  /\ InTask /\ UNCHANGED <<disk, snap, last, faults>>

BackupStep == \/ BackupRests \/ BackupWakes \/ BackupStarts \/ BackupEnds
              \/ BackupFails \/ BackupPanics \/ BackupStops

-----------------------------------------------------------------------------
(* Shutdown *)

InMain == UNCHANGED <<times, mem, poisoned, server, stuck, task, snap, last, late>>

Signal ==
  /\ phase = "up"
  /\ phase' = "stopping"
  /\ InMain /\ UNCHANGED <<disk, faults>>

\* The handlers are done, and what they answer is sent.
ServerEnds ==
  /\ Stopping /\ server
  /\ server' = FALSE
  /\ UNCHANGED <<disk, times, phase, mem, poisoned, stuck, task, snap, last, faults, late>>

\* Mutant of Joined: main waits for the backup service only.
JoinedBackup == phase = "stopping" /\ task = "over"

Joined == phase = "stopping" /\ ~server /\ task = "over"

\* main's unwrap of a poisoned lock: neither the store nor the cache is saved.
SavePanics == Joined /\ poisoned /\ Ends /\ UNCHANGED disk

SaveStarts ==
  /\ Joined /\ ~poisoned
  /\ phase' = "file"
  /\ file' = Torn
  /\ InMain /\ UNCHANGED <<spare, backups, cacheFile, faults>>

\* The file cannot be opened, or its writing fails half way: there is another,
\* which may not be opened either.
SaveFails ==
  /\ phase = "file" \/ (Joined /\ ~poisoned)
  /\ phase' = "spare"
  /\ spare' \in {spare, Torn}
  /\ faults' = faults \union {"file"}
  /\ InMain /\ UNCHANGED <<file, backups, cacheFile>>

SaveEnds ==
  /\ phase = "file"
  /\ phase' = "saved"
  /\ file' = Whole(mem)
  /\ InMain /\ UNCHANGED <<spare, backups, cacheFile, faults>>

SpareEnds ==
  /\ phase = "spare"
  /\ phase' = "saved"
  /\ \/ spare' = Whole(mem) /\ UNCHANGED faults
     \/ faults' = faults \union {"spare"} /\ UNCHANGED spare
  /\ InMain /\ UNCHANGED <<file, backups, cacheFile>>

CacheStarts ==
  /\ phase = "saved"
  /\ phase' = "cache"
  /\ cacheFile' = [state |-> "torn", last |-> 0]
  /\ InMain /\ UNCHANGED <<file, spare, backups, faults>>

\* Written whole; or not, or not even opened, which is logged and no more.
CacheEnds ==
  /\ \/ phase = "cache" /\ cacheFile' = [state |-> "whole", last |-> last]
     \/ phase \in {"saved", "cache"} /\ UNCHANGED cacheFile
  /\ Ends
  /\ UNCHANGED <<file, spare, backups>>

MainStep == \/ SavePanics \/ SaveStarts \/ SaveFails \/ SaveEnds
            \/ SpareEnds \/ CacheStarts \/ CacheEnds

Next ==
  \/ Start \/ Crash \/ Tick \/ Panic \/ Blocks
  \/ \E e \in Edits : Edit(e) \/ SocketEdit(e)
  \/ BackupRests \/ BackupWakes \/ BackupStarts \/ BackupEnds
  \/ BackupFails \/ BackupPanics \/ BackupStops
  \/ Signal \/ ServerEnds
  \/ SavePanics \/ SaveStarts \/ SaveFails \/ SaveEnds
  \/ SpareEnds \/ CacheStarts \/ CacheEnds

\* The tasks run on: main, the backup service, and the handlers until they end;
\* but if one waits for ever, the others may too, for the DB or for it.
Spec == /\ Init /\ [][Next]_vars
        /\ WF_vars(~stuck /\ ServerEnds)
        /\ WF_vars(~stuck /\ BackupStep)
        /\ WF_vars(~stuck /\ MainStep)

-----------------------------------------------------------------------------
(* Properties *)

OnDisk == file.has \union spare.has \union UNION {backups[d].has : d \in DOMAIN backups}

\* At a graceful stop all that the store has is saved, whatever the requests
\* and the backup did meanwhile: in the file, or else in the spare one, unless
\* both fail.  Only what a socket, which nobody waits for, changes after the
\* save is lost.
StopKeepsAll ==
  phase \in {"saved", "cache"} =>
    mem \ late \subseteq file.has \union spare.has \/ {"file", "spare"} \subseteq faults

\* What a crash can cost at most, as long as nothing else has failed since the
\* start (the start itself may have failed to read) and no task waits for ever.
\* It costs the edits made since the last backup, which on a server that is up
\* are a period old at most.  A crash that cuts off a backup costs more, for the
\* file of the day is emptied before it is filled: what earlier backups of that
\* day held, that is edits of that day or of the period before it.  A crash that
\* cuts off the save may cost what was loaded at the start.
CrashLossBounded ==
  ~poisoned /\ ~stuck /\ faults \subseteq {"read"} =>
    \A e \in mem \ OnDisk :
      \/ /\ at[e] \in Hours /\ last <= at[e]
         /\ phase = "up" => now - at[e] <= Period
      \/ /\ at[e] \in Hours /\ task = "write"
         /\ phase = "up" => DayOf(last) <= DayOf(at[e] + Period)
      \/ at[e] = Earlier /\ phase = "file"

\* What is in the store's file, or in the backup of an earlier day, stays on
\* disk until the server that overwrites it has it too.  (The backup of the
\* day is no such place: after a crash it is overwritten with a store that
\* lacks what was lost, and nor is a file that could not be read.)
Kept == file.has \union UNION {backups[d].has : d \in DOMAIN backups \ {Today}}

KeptUntilHeld ==
  [][\A e \in Kept : e \in OnDisk' \/ e \in mem \/ "read" \in faults]_vars

\* A signal ends the process, whatever has failed before, unless a task waits for
\* ever: main waits for the backup service, which may be asleep or dead.
SignalEnds == phase = "stopping" ~> phase = "off" \/ stuck

=============================================================================
