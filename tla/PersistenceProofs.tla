-------------------------- MODULE PersistenceProofs --------------------------
(***************************************************************************)
(* What a stop and a crash cost, for every set of edits, every period of   *)
(* the backup service and every bound on the clock.                        *)
(*                                                                         *)
(* The inductive invariant Inv adds to the properties what ties the files  *)
(* to the phase of main and to the backup service.  Its heart is Covered:  *)
(* an edit of a healthy run was loaded from the store's file, is in the    *)
(* backup of a day or in one under way, or was made since the last backup, *)
(* which was a period ago at most, or the next one starts before the clock *)
(* goes on; and that backup overwrites the file of a day which is no later *)
(* than a period after the edit, if it has that edit at all.               *)
(***************************************************************************)
EXTENDS Persistence, TLAPS

Days == {DayOf(h) : h \in Hours}

\* The first fact is about a process that does not run, the next three about its
\* shutdown, the fifth about the file that a backup is being written to.
NothingRuns == phase = "off" => ~server /\ late = {} /\ mem = {}

Quiescent == phase \in {"file", "spare", "saved", "cache"} => ~server /\ task = "over"

FileTorn == phase = "file" => file = Torn

SpareWhy == phase = "spare" => "file" \in faults

Writing == task = "write" => last \in Hours /\ backups[DayOf(last)] = Torn

\* Until the save the store has all that it was loaded from.
Loaded == phase \in {"up", "stopping"} /\ "read" \notin faults => file.has \subseteq mem

\* What the store and its file hold was made, and when nothing runs, earlier.
Made == /\ \A e \in mem \union file.has : at[e] # Never
        /\ phase = "off" => \A e \in Edits : at[e] \notin Hours

\* What CrashLossBounded assumes, of a process that runs.
Healthy == phase # "off" /\ ~poisoned /\ ~stuck /\ faults \subseteq {"read"}

\* Where an edit of a healthy run can be: it was loaded from the file, or
FromFile(e) == at[e] = Earlier /\ (e \in file.has \/ phase = "file")

\* it was made since the last backup, which is no longer ago than a period, or
\* else one is due, and then no hour passes before it begins; or
Recent(e) == /\ at[e] \in Hours /\ last <= at[e] /\ at[e] <= now
             /\ phase = "up" => now <= last + Period \/ at[e] = now

\* it is in the backup of a day, or
InDay(e, d) == /\ at[e] \in Hours /\ e \in backups[d].has
               /\ phase = "up" => d <= DayOf(at[e] + Period)
InDays(e) == \E d \in Days : InDay(e, d)

\* in the backup that is being written, or
InSnap(e) == /\ at[e] \in Hours /\ task = "write" /\ e \in snap
             /\ phase = "up" => DayOf(last) <= DayOf(at[e] + Period)

\* in the file that was saved.
Saved(e) == phase \in {"saved", "cache"} /\ e \in file.has

Place(e) == FromFile(e) \/ Recent(e) \/ InDays(e) \/ InSnap(e) \/ Saved(e)

\* The backup service of a healthy server is alive.
Covered == Healthy => /\ phase = "up" => task # "over"
                      /\ \A e \in mem : Place(e)

Inv == /\ TypeOK /\ NothingRuns /\ Quiescent /\ FileTorn /\ SpareWhy
       /\ Writing /\ Made /\ Loaded /\ StopKeepsAll /\ Covered

-----------------------------------------------------------------------------
(* Files *)

LEMMA CopyFacts ==
  /\ Missing \in Copies /\ Torn \in Copies
  /\ \A S \in SUBSET Edits : Whole(S) \in Copies
  /\ \A c \in Copies : c.has \in SUBSET Edits
  /\ Missing.has = {} /\ Torn.has = {}
  /\ \A S : Whole(S).has = S
<1>1. Missing \in Copies /\ Torn \in Copies /\ \A S \in SUBSET Edits : Whole(S) \in Copies
  BY DEF Copies
<1>2. Missing.has = {} /\ Torn.has = {} /\ \A S : Whole(S).has = S
  BY DEF Missing, Torn, Whole
<1>3. \A c \in Copies : c.has \in SUBSET Edits
  BY <1>2 DEF Copies
<1> QED
  BY <1>1, <1>2, <1>3

\* What is on disk is what is in one of the files.
LEMMA OnDiskIs ==
  /\ file.has \subseteq OnDisk /\ spare.has \subseteq OnDisk
  /\ \A d \in DOMAIN backups : backups[d].has \subseteq OnDisk
  BY DEF OnDisk

LEMMA HoursAreNat ==
  /\ Hours \subseteq Nat /\ Period \in Hours
  /\ \A h \in Hours : DayOf(h) \in Days
  /\ Never \notin Hours /\ Earlier \notin Hours /\ Never # Earlier
  BY PersistenceAssumption DEF Hours, Days, Never, Earlier

\* Days come in the order of their hours.
LEMMA DaysInOrder ==
  ASSUME NEW g \in Nat, NEW h \in Nat, g <= h
  PROVE  DayOf(g) \in Nat /\ DayOf(g) <= DayOf(h)
  BY PersistenceAssumption, SMTT(30) DEF DayOf

LEMMA TimesAreNat ==
  ASSUME TypeOK
  PROVE  now \in Nat /\ last \in Nat /\ Period \in Nat /\ \A e \in mem : at[e] \in Nat
<1>1. {Never, Earlier} \union Hours \subseteq Nat
  BY HoursAreNat DEF Never, Earlier
<1>2. at \in [Edits -> {Never, Earlier} \union Hours] /\ mem \subseteq Edits
  BY DEF TypeOK
<1>3. \A e \in mem : at[e] \in Nat
  BY <1>1, <1>2
<1> QED
  BY <1>3, HoursAreNat DEF TypeOK

-----------------------------------------------------------------------------
(* Type correctness *)

LEMMA EndsType ==
  ASSUME TypeOK, Ends, UNCHANGED <<file, spare, backups>>,
         cacheFile'.state \in {"none", "torn", "whole"}, cacheFile'.last \in 0..now
  PROVE  TypeOK'
<1>1. at' \in [Edits -> {Never, Earlier} \union Hours]
  BY DEF Ends, TypeOK
<1>2. 0 \in 0..now' /\ now' = now
  BY HoursAreNat DEF Ends, TypeOK
<1> QED
  BY <1>1, <1>2 DEF Ends, TypeOK

LEMMA AcceptType ==
  ASSUME TypeOK, NEW e \in Edits, Edit(e) \/ SocketEdit(e)
  PROVE  TypeOK'
<1>1. /\ mem' = mem \union {e} /\ at' = [at EXCEPT ![e] = now]
      /\ late' \in {late, late \union {e}}
      /\ UNCHANGED <<disk, now, phase, poisoned, server, stuck, task, snap, last, faults>>
  BY DEF Edit, SocketEdit, Accept
<1> QED
  BY <1>1 DEF TypeOK, disk

LEMMA BackupType ==
  ASSUME TypeOK, BackupStep
  PROVE  TypeOK'
<1>1. now \in Hours /\ now \in Nat /\ DayOf(now) \in Days
  BY HoursAreNat DEF TypeOK
<1>2. now \in 0..now
  BY <1>1
<1>3. backups \in [Days -> Copies]
  BY DEF TypeOK, Days
<1>4. CASE BackupRests \/ BackupWakes \/ BackupStops
  BY <1>4 DEF BackupRests, BackupWakes, BackupStops, InTask, disk, times, TypeOK
<1>5. CASE BackupStarts
  <2>1. backups' \in [Days -> Copies]
    BY <1>3, <1>5, CopyFacts DEF BackupStarts
  <2> QED
    BY <1>2, <1>5, <2>1 DEF BackupStarts, InTask, times, TypeOK, Days
<1>6. CASE BackupEnds
  <2>1. backups' \in [Days -> Copies]
    BY <1>3, <1>6, CopyFacts DEF BackupEnds, TypeOK
  <2> QED
    BY <1>6, <2>1 DEF BackupEnds, InTask, times, TypeOK, Days
<1>7. CASE BackupFails
  BY <1>2, <1>7 DEF BackupFails, InTask, disk, times, TypeOK
<1>8. CASE BackupPanics
  BY <1>2, <1>8 DEF BackupPanics, InTask, disk, times, TypeOK
<1> QED
  BY <1>4, <1>5, <1>6, <1>7, <1>8 DEF BackupStep

LEMMA MainType ==
  ASSUME TypeOK, MainStep
  PROVE  TypeOK'
<1>1. CASE SavePanics
  BY <1>1, EndsType DEF SavePanics, disk, TypeOK
<1>2. CASE SaveStarts \/ SaveFails \/ SaveEnds \/ SpareEnds
  <2>1. file' \in Copies /\ spare' \in Copies
    BY <1>2, CopyFacts DEF SaveStarts, SaveFails, SaveEnds, SpareEnds, TypeOK
  <2>2. /\ phase' \in {"file", "spare", "saved"}
        /\ faults' \subseteq {"read", "backup", "file", "spare"}
        /\ UNCHANGED <<backups, cacheFile>>
        /\ InMain
    BY <1>2 DEF SaveStarts, SaveFails, SaveEnds, SpareEnds, TypeOK
  <2> QED
    BY <2>1, <2>2 DEF InMain, times, TypeOK
<1>3. CASE CacheStarts
  BY <1>3, HoursAreNat DEF CacheStarts, InMain, times, TypeOK
<1>4. CASE CacheEnds
  <2>1. cacheFile'.state \in {"none", "torn", "whole"} /\ cacheFile'.last \in 0..now
    BY <1>4 DEF CacheEnds, TypeOK
  <2> QED
    BY <1>4, <2>1, EndsType DEF CacheEnds
<1> QED
  BY <1>1, <1>2, <1>3, <1>4 DEF MainStep

LEMMA TypeStep ==
  ASSUME TypeOK, NothingRuns, [Next]_vars
  PROVE  TypeOK'
<1>1. CASE Start
  <2>1. late' = {} /\ mem' \in SUBSET Edits
    BY <1>1, CopyFacts DEF Start, NothingRuns, TypeOK
  <2>2. /\ phase' = "up" /\ server' = TRUE /\ last' \in 0..now
        /\ task' \in {"over", "check"} /\ faults' \subseteq {"read", "backup"}
        /\ UNCHANGED <<file, spare, backups, cacheFile, now, at, poisoned, stuck, snap>>
    BY <1>1, HoursAreNat DEF Start, TypeOK, disk, times
  <2> QED
    BY <2>1, <2>2 DEF TypeOK
<1>2. CASE Crash
  BY <1>2, EndsType DEF Crash, disk, TypeOK
<1>3. CASE Tick
  <2>1. now' \in Hours /\ 0..now \subseteq 0..now'
    BY <1>3, PersistenceAssumption DEF Tick, TypeOK, Hours
  <2> QED
    BY <1>3, <2>1 DEF Tick, TypeOK, disk
<1>4. CASE Panic \/ Blocks \/ Signal \/ ServerEnds
  BY <1>4 DEF Panic, Blocks, Signal, ServerEnds, InMain, disk, times, TypeOK
<1>5. ASSUME NEW e \in Edits, Edit(e) \/ SocketEdit(e)
      PROVE  TypeOK'
  BY <1>5, AcceptType
<1>6. CASE BackupStep \/ MainStep
  BY <1>6, BackupType, MainType
<1>7. CASE UNCHANGED vars
  BY <1>7 DEF vars, disk, times, TypeOK
<1> QED
  BY <1>1, <1>2, <1>3, <1>4, <1>5, <1>6, <1>7 DEF Next, BackupStep, MainStep

-----------------------------------------------------------------------------
(* The phases of main and the files it writes *)

\* What the steps of the backup service leave alone.
LEMMA BackupFrame ==
  ASSUME BackupStep
  PROVE  /\ UNCHANGED <<now, at, phase, mem, poisoned, server, stuck, late,
                        file, spare, cacheFile>>
         /\ task # "over"
         /\ faults' \in {faults, faults \union {"backup"}}
  BY DEF BackupStep, BackupRests, BackupWakes, BackupStarts, BackupEnds, BackupFails,
         BackupPanics, BackupStops, InTask, disk, times

\* What a request that is accepted changes.
LEMMA AcceptFrame ==
  ASSUME NEW e \in Edits, Edit(e) \/ SocketEdit(e)
  PROVE  /\ mem' = mem \union {e} /\ at' = [at EXCEPT ![e] = now]
         /\ phase \in {"saved", "cache"} => server \/ late' = late \union {e}
         /\ late' \in {late, late \union {e}}
         /\ server \/ phase \notin {"off", "file", "spare"}
         /\ UNCHANGED <<disk, now, phase, poisoned, server, stuck, task, snap, last, faults>>
  BY DEF Edit, SocketEdit, Accept

\* What main's own steps leave alone while the process runs.
MainSaves == SaveStarts \/ SaveFails \/ SaveEnds \/ SpareEnds \/ CacheStarts

LEMMA MainFrame ==
  ASSUME MainStep
  PROVE  \/ Ends /\ UNCHANGED <<file, spare, backups>>
         \/ MainSaves /\ InMain /\ phase' \in {"file", "spare", "saved", "cache"}
                      /\ backups' = backups
  BY DEF MainStep, MainSaves, SavePanics, SaveStarts, SaveFails, SaveEnds, SpareEnds,
         CacheStarts, CacheEnds, disk

\* A step of the process is one of these.
LEMMA StepKinds ==
  ASSUME [Next]_vars
  PROVE  \/ Start
         \/ Ends /\ UNCHANGED <<file, spare, backups>>
         \/ Tick \/ Panic \/ Blocks \/ Signal \/ ServerEnds \/ UNCHANGED vars
         \/ \E e \in Edits : Edit(e) \/ SocketEdit(e)
         \/ BackupStep
         \/ MainSaves /\ InMain /\ phase' \in {"file", "spare", "saved", "cache"}
                      /\ backups' = backups
<1>1. MainStep => \/ Ends /\ UNCHANGED <<file, spare, backups>>
                  \/ MainSaves /\ InMain /\ backups' = backups
                               /\ phase' \in {"file", "spare", "saved", "cache"}
  BY MainFrame
<1>2. Crash => Ends /\ UNCHANGED <<file, spare, backups>>
  BY DEF Crash, disk
<1> QED
  BY <1>1, <1>2 DEF Next, MainStep, BackupStep

Phases == NothingRuns /\ Quiescent /\ FileTorn /\ SpareWhy

LEMMA PhasesStep ==
  ASSUME Phases, [Next]_vars
  PROVE  Phases'
<1> USE DEF Phases, NothingRuns, Quiescent, FileTorn, SpareWhy
<1>1. CASE Start
  BY <1>1 DEF Start
<1>2. CASE Ends
  BY <1>2 DEF Ends
<1>3. CASE Tick \/ Panic \/ Blocks \/ Signal \/ ServerEnds \/ UNCHANGED vars
  BY <1>3 DEF Tick, Panic, Blocks, Signal, ServerEnds, InMain, Stopping, disk, vars
<1>4. ASSUME NEW e \in Edits, Edit(e) \/ SocketEdit(e)
      PROVE  Phases'
  <2>1. phase # "off"
    BY <1>4, AcceptFrame
  <2>2. UNCHANGED <<file, phase, server, task, faults>>
    BY <1>4, AcceptFrame DEF disk
  <2> QED
    BY <2>1, <2>2
<1>5. CASE BackupStep
  BY <1>5, BackupFrame
<1>6. CASE MainSaves /\ InMain
  BY <1>6 DEF MainSaves, SaveStarts, SaveFails, SaveEnds, SpareEnds, CacheStarts,
              Joined, InMain
<1> QED
  BY <1>1, <1>2, <1>3, <1>4, <1>5, <1>6, StepKinds

-----------------------------------------------------------------------------
(* What a backup under way writes to *)

LEMMA WritingStep ==
  ASSUME TypeOK, Writing, [Next]_vars
  PROVE  Writing'
<1> USE DEF Writing
<1>1. now \in Hours /\ DayOf(now) \in Days /\ backups \in [Days -> Copies]
  BY HoursAreNat DEF TypeOK, Days
<1>2. CASE Start \/ Ends
  BY <1>2 DEF Start, Ends
<1>3. CASE Tick \/ Panic \/ Blocks \/ Signal \/ ServerEnds \/ UNCHANGED vars
  BY <1>3 DEF Tick, Panic, Blocks, Signal, ServerEnds, InMain, disk, vars
<1>4. ASSUME NEW e \in Edits, Edit(e) \/ SocketEdit(e)
      PROVE  Writing'
  BY <1>4, AcceptFrame DEF disk
<1>5. CASE BackupStarts
  BY <1>1, <1>5 DEF BackupStarts, Today
<1>6. CASE BackupStep /\ ~BackupStarts
  <2>1. task' = "write" => UNCHANGED <<task, last, backups>>
    BY <1>6 DEF BackupStep, BackupRests, BackupWakes, BackupEnds, BackupFails,
                BackupPanics, BackupStops, disk
  <2> QED
    BY <2>1
<1>7. CASE InMain /\ backups' = backups
  BY <1>7 DEF InMain
<1> QED
  BY <1>2, <1>3, <1>4, <1>5, <1>6, <1>7, StepKinds

\* Nothing that is on disk goes by the steps of the backup service, but for the
\* backup of the day when the next one begins.
LEMMA BackupKeeps ==
  ASSUME TypeOK, Writing, BackupStep, ~BackupStarts
  PROVE  /\ OnDisk \subseteq OnDisk'
         /\ task = "write" => \/ snap \subseteq OnDisk'
                              \/ "backup" \in faults'
<1>1. backups \in [Days -> Copies]
  BY DEF TypeOK, Days
<1>2. CASE BackupEnds
  <2>1. backups[DayOf(last)].has = {} /\ DayOf(last) \in Days
    BY <1>2, CopyFacts, HoursAreNat DEF BackupEnds, Writing
  <2>2. backups' = [backups EXCEPT ![DayOf(last)] = Whole(snap)]
        /\ file' = file /\ spare' = spare
    BY <1>2 DEF BackupEnds
  <2>3. backups'[DayOf(last)].has = snap /\ DOMAIN backups' = DOMAIN backups
    BY <1>1, <2>1, <2>2, CopyFacts
  <2>4. snap \subseteq OnDisk'
    BY <1>1, <2>1, <2>3 DEF OnDisk
  <2>5. \A d \in Days : backups[d].has \subseteq backups'[d].has
    BY <1>1, <2>1, <2>2
  <2>6. OnDisk \subseteq OnDisk'
    BY <1>1, <2>2, <2>3, <2>5 DEF OnDisk
  <2> QED
    BY <2>4, <2>6
<1>3. CASE ~BackupEnds
  <2>1. UNCHANGED disk
    BY <1>3 DEF BackupStep, BackupRests, BackupWakes, BackupFails, BackupPanics, BackupStops
  <2>2. OnDisk' = OnDisk
    BY <2>1 DEF OnDisk, disk
  <2>3. task = "write" => "backup" \in faults'
    BY <1>3 DEF BackupStep, BackupRests, BackupWakes, BackupFails, BackupPanics, BackupStops
  <2> QED
    BY <2>2, <2>3
<1> QED
  BY <1>2, <1>3

-----------------------------------------------------------------------------
(* A stop *)

LEMMA LoadedStep ==
  ASSUME TypeOK, Loaded, [Next]_vars
  PROVE  Loaded'
<1> USE DEF Loaded
<1>1. CASE Start
  <2>1. file' = file /\ ("read" \notin faults' => mem' = file.has)
    BY <1>1 DEF Start, disk
  <2> QED
    BY <2>1
<1>2. CASE Ends
  BY <1>2 DEF Ends
<1>3. CASE Tick \/ Panic \/ Blocks \/ Signal \/ ServerEnds \/ UNCHANGED vars
  BY <1>3 DEF Tick, Panic, Blocks, Signal, ServerEnds, InMain, disk, vars
<1>4. ASSUME NEW e \in Edits, Edit(e) \/ SocketEdit(e)
      PROVE  Loaded'
  <2>1. mem' = mem \union {e} /\ UNCHANGED <<file, phase, faults>>
    BY <1>4, AcceptFrame DEF disk
  <2> QED
    BY <2>1
<1>5. CASE BackupStep
  BY <1>5, BackupFrame
<1>6. CASE phase' \in {"file", "spare", "saved", "cache"}
  BY <1>6
<1> QED
  BY <1>1, <1>2, <1>3, <1>4, <1>5, <1>6, StepKinds

LEMMA StopStep ==
  ASSUME TypeOK, Phases, StopKeepsAll, [Next]_vars
  PROVE  StopKeepsAll'
<1> USE DEF StopKeepsAll
<1>1. CASE Start \/ Ends
  BY <1>1 DEF Start, Ends
<1>2. CASE Tick \/ Panic \/ Blocks \/ Signal \/ ServerEnds \/ UNCHANGED vars
  BY <1>2 DEF Tick, Panic, Blocks, Signal, ServerEnds, InMain, disk, vars
<1>3. ASSUME NEW e \in Edits, Edit(e) \/ SocketEdit(e), phase \in {"saved", "cache"}
      PROVE  StopKeepsAll'
  \* No handler runs any more: it is a socket's edit, which is late.
  <2>1. late' = late \union {e}
    BY <1>3, AcceptFrame DEF Phases, Quiescent
  <2>2. mem' = mem \union {e} /\ UNCHANGED <<file, spare, faults>>
    BY <1>3, AcceptFrame DEF disk
  <2> QED
    BY <1>3, <2>1, <2>2
<1>4. ASSUME NEW e \in Edits, Edit(e) \/ SocketEdit(e), phase \notin {"saved", "cache"}
      PROVE  StopKeepsAll'
  BY <1>4, AcceptFrame
<1>5. CASE BackupStep
  BY <1>5, BackupFrame
<1>6. CASE MainSaves /\ InMain
  <2>1. CASE SaveStarts \/ SaveFails
    BY <2>1 DEF SaveStarts, SaveFails
  <2>2. CASE SaveEnds
    BY <1>6, <2>2, CopyFacts DEF SaveEnds, InMain
  <2>3. CASE SpareEnds
    BY <1>6, <2>3, CopyFacts DEF SpareEnds, InMain, Phases, SpareWhy
  <2>4. CASE CacheStarts
    BY <1>6, <2>4 DEF CacheStarts, InMain
  <2> QED
    BY <1>6, <2>1, <2>2, <2>3, <2>4 DEF MainSaves
<1> QED
  BY <1>1, <1>2, <1>3, <1>4, <1>5, <1>6, StepKinds

-----------------------------------------------------------------------------
(* A crash *)

LEMMA MadeStep ==
  ASSUME TypeOK, NothingRuns, Made, [Next]_vars
  PROVE  Made'
<1> USE DEF Made
<1>1. file.has \subseteq Edits /\ mem \subseteq Edits
  BY CopyFacts DEF TypeOK
<1>2. at \in [Edits -> {Never, Earlier} \union Hours]
  BY DEF TypeOK
<1>3. CASE Start
  <2>1. mem' \subseteq file.has /\ file' = file /\ at' = at /\ phase' = "up"
    BY <1>3 DEF Start, disk, times
  <2> QED
    BY <2>1
<1>4. CASE Ends /\ UNCHANGED <<file, spare, backups>>
  <2>1. /\ mem' = {} /\ file' = file
        /\ at' = [e \in Edits |-> IF at[e] = Never THEN Never ELSE Earlier]
    BY <1>4 DEF Ends
  <2> QED
    BY <1>1, <2>1, HoursAreNat
<1>5. CASE Tick \/ Panic \/ Blocks \/ Signal \/ ServerEnds \/ UNCHANGED vars
  <2>1. UNCHANGED <<mem, file, at>> /\ (phase' = "off" => phase = "off")
    BY <1>5 DEF Tick, Panic, Blocks, Signal, ServerEnds, InMain, disk, times, vars
  <2> QED
    BY <2>1
<1>6. ASSUME NEW e \in Edits, Edit(e) \/ SocketEdit(e)
      PROVE  Made'
  <2>1. /\ mem' = mem \union {e} /\ at' = [at EXCEPT ![e] = now]
        /\ file' = file /\ phase' = phase /\ phase # "off"
    BY <1>6, AcceptFrame DEF NothingRuns, disk
  <2>2. now # Never
    BY HoursAreNat DEF TypeOK
  <2> QED
    BY <1>1, <1>2, <2>1, <2>2
<1>7. CASE BackupStep
  <2>1. UNCHANGED <<mem, file, at, phase>>
    BY <1>7, BackupFrame
  <2> QED
    BY <2>1
<1>8. CASE MainSaves /\ InMain /\ phase' \in {"file", "spare", "saved", "cache"}
  <2>1. file' \in {file, Torn, Whole(mem)} /\ UNCHANGED <<mem, at>>
    BY <1>8 DEF MainSaves, InMain, times, SaveStarts, SaveFails, SaveEnds, SpareEnds,
                CacheStarts
  <2> QED
    BY <1>8, <2>1, CopyFacts
<1> QED
  BY <1>3, <1>4, <1>5, <1>6, <1>7, <1>8, StepKinds

\* A backup that begins holds all that the store has, and what it empties the
\* file of was in that file, or is due to be in it.
LEMMA BackupStartsCovers ==
  ASSUME TypeOK, Covered, BackupStarts, Healthy'
  PROVE  Covered'
<1>1. /\ UNCHANGED <<now, at, phase, mem, poisoned, stuck, file, faults>>
      /\ task = "check" /\ task' = "write" /\ snap' = mem /\ last' = now
      /\ backups' = [backups EXCEPT ![Today] = Torn] /\ Due
  BY DEF BackupStarts, InTask, times
<1>2. Healthy
  BY <1>1 DEF Healthy
<1>3. now \in Nat /\ last \in Nat /\ Period \in Nat /\ backups \in [Days -> Copies]
  BY HoursAreNat DEF TypeOK, Days
<1> SUFFICES ASSUME NEW e \in mem
             PROVE  Place(e)'
  BY <1>1 DEF Covered
<1>4. CASE FromFile(e) \/ Saved(e)
  BY <1>1, <1>4 DEF FromFile, Saved, Place
<1>5. CASE Recent(e)
  <2>1. at[e] \in Hours /\ at[e] \in Nat /\ last <= at[e]
    BY <1>5, HoursAreNat DEF Recent
  <2>2. phase = "up" => now <= at[e] + Period
    BY <1>3, <1>5, <2>1 DEF Recent
  <2>3. phase = "up" => DayOf(now) <= DayOf(at[e] + Period)
    BY <1>3, <2>1, <2>2, DaysInOrder
  <2>4. InSnap(e)'
    BY <1>1, <2>1, <2>3 DEF InSnap
  <2> QED
    BY <2>4 DEF Place
<1>6. CASE InDays(e)
  <2>1. PICK d \in Days : InDay(e, d)
    BY <1>6 DEF InDays
  <2>2. CASE d = Today
    <3>1. InSnap(e)'
      BY <1>1, <2>1, <2>2 DEF InDay, InSnap, Today
    <3> QED
      BY <3>1 DEF Place
  <2>3. CASE d # Today
    <3>1. backups'[d] = backups[d]
      BY <1>1, <1>3, <2>3
    <3>2. InDay(e, d)'
      BY <1>1, <2>1, <3>1 DEF InDay
    <3> QED
      BY <3>2 DEF Place, InDays, Days, Hours
  <2> QED
    BY <2>2, <2>3
<1>7. ~InSnap(e)
  BY <1>1 DEF InSnap
<1>8. Place(e)
  BY <1>2 DEF Covered
<1> QED
  BY <1>4, <1>5, <1>6, <1>7, <1>8 DEF Place

LEMMA BackupEndsCovers ==
  ASSUME TypeOK, Writing, Covered, BackupEnds, Healthy'
  PROVE  Covered'
<1>1. /\ UNCHANGED <<now, at, phase, mem, poisoned, stuck, file, faults, last>>
      /\ task = "write" /\ task' = "check"
      /\ backups' = [backups EXCEPT ![DayOf(last)] = Whole(snap)]
  BY DEF BackupEnds, InTask, times
<1>2. Healthy
  BY <1>1 DEF Healthy
<1>3. backups \in [Days -> Copies] /\ DayOf(last) \in Days
  BY <1>1, HoursAreNat DEF TypeOK, Days, Writing
<1>4. backups[DayOf(last)].has = {} /\ backups'[DayOf(last)].has = snap
  BY <1>1, <1>3, CopyFacts DEF Writing
<1> SUFFICES ASSUME NEW e \in mem
             PROVE  Place(e)'
  BY <1>1 DEF Covered
<1>5. CASE FromFile(e) \/ Saved(e) \/ Recent(e)
  BY <1>1, <1>5 DEF FromFile, Saved, Recent, Place
<1>6. CASE InDays(e)
  <2>1. PICK d \in Days : InDay(e, d)
    BY <1>6 DEF InDays
  <2>2. backups'[d] = backups[d]
    BY <1>1, <1>3, <1>4, <2>1 DEF InDay
  <2>3. InDay(e, d)'
    BY <1>1, <2>1, <2>2 DEF InDay
  <2> QED
    BY <2>3 DEF Place, InDays, Days, Hours
<1>7. CASE InSnap(e)
  <2>1. InDay(e, DayOf(last))'
    BY <1>1, <1>4, <1>7 DEF InSnap, InDay
  <2>2. InDays(e)'
    BY <1>1, <1>3, <2>1 DEF InDays, Days, Hours
  <2> QED
    BY <2>2 DEF Place
<1>8. Place(e)
  BY <1>2 DEF Covered
<1> QED
  BY <1>5, <1>6, <1>7, <1>8 DEF Place

LEMMA BackupStepCovers ==
  ASSUME TypeOK, Writing, Covered, BackupStep, Healthy'
  PROVE  Covered'
<1>1. CASE BackupStarts
  BY <1>1, BackupStartsCovers
<1>2. CASE BackupEnds
  BY <1>2, BackupEndsCovers
<1>3. CASE BackupRests \/ BackupWakes \/ BackupStops
  <2>1. /\ UNCHANGED <<disk, now, at, phase, mem, poisoned, stuck, faults, last>>
        /\ task # "write" /\ (phase = "up" => task' # "over")
    BY <1>3 DEF BackupRests, BackupWakes, BackupStops, InTask, times, Stopping
  <2>2. Healthy
    BY <2>1 DEF Healthy
  <2>3. ASSUME NEW e \in mem
        PROVE  Place(e)'
    <3>1. Place(e)
      BY <2>2 DEF Covered
    <3> QED
      BY <2>1, <3>1 DEF Place, FromFile, Recent, InDays, InDay, InSnap, Saved, disk, Days
  <2> QED
    BY <2>1, <2>3 DEF Covered
<1>4. CASE BackupFails \/ BackupPanics
  BY <1>4 DEF BackupFails, BackupPanics, InTask, Healthy
<1> QED
  BY <1>1, <1>2, <1>3, <1>4 DEF BackupStep

LEMMA AcceptCovers ==
  ASSUME TypeOK, Covered, NEW e \in Edits, Edit(e) \/ SocketEdit(e)
  PROVE  Covered'
<1>1. /\ mem' = mem \union {e} /\ at' = [at EXCEPT ![e] = now]
      /\ UNCHANGED <<disk, now, phase, poisoned, stuck, task, snap, last, faults>>
  BY AcceptFrame
<1>2. Healthy' = Healthy
  BY <1>1 DEF Healthy
<1>3. last <= now /\ now <= now /\ now \in Hours /\ mem \subseteq Edits
  BY HoursAreNat DEF TypeOK
<1>4. at'[e] = now /\ \A f \in mem \ {e} : at'[f] = at[f]
  BY <1>1, <1>3 DEF TypeOK
<1>5. Place(e)'
  BY <1>1, <1>3, <1>4 DEF Recent, Place
<1>6. ASSUME NEW f \in mem, f # e, Place(f)
      PROVE  Place(f)'
  <2>1. at'[f] = at[f]
    BY <1>4, <1>6
  <2> QED
    BY <1>1, <1>6, <2>1
    DEF Place, FromFile, Recent, InDays, InDay, InSnap, Saved, disk, Days
<1> QED
  BY <1>1, <1>2, <1>5, <1>6 DEF Covered

\* No hour passes while a backup is due.
LEMMA TickCovers ==
  ASSUME TypeOK, Covered, Tick
  PROVE  Covered'
<1>1. /\ UNCHANGED <<disk, at, phase, mem, poisoned, stuck, task, snap, last, faults>>
      /\ now' = now + 1
  BY DEF Tick
<1>2. Healthy' = Healthy
  BY <1>1 DEF Healthy
<1>3. ASSUME Healthy, NEW e \in mem, Recent(e)
      PROVE  Recent(e)'
  <2>1. now \in Nat /\ last \in Nat /\ at[e] \in Nat /\ Period \in Nat
    BY TimesAreNat
  <2>2. phase = "up" => now < last + Period
    BY <1>3, <2>1 DEF Covered, Healthy, Tick, Due
  <2> QED
    BY <1>1, <1>3, <2>1, <2>2 DEF Recent
<1>4. ASSUME NEW e \in mem, FromFile(e) \/ InDays(e) \/ InSnap(e) \/ Saved(e)
      PROVE  Place(e)'
  BY <1>1, <1>4 DEF Place, FromFile, InDays, InDay, InSnap, Saved, disk, Days
<1> QED
  BY <1>1, <1>2, <1>3, <1>4 DEF Covered, Place

\* The save empties the file, and then fills it with all that the store has.
LEMMA SaveCovers ==
  ASSUME TypeOK, Quiescent, SpareWhy, Covered, Healthy',
         MainSaves, InMain, backups' = backups
  PROVE  Covered'
<1>1. UNCHANGED <<now, at, mem, poisoned, stuck, task, snap, last, backups>>
  BY DEF InMain, times
<1>2. CASE SaveStarts
  <2>1. /\ phase = "stopping" /\ task = "over" /\ phase' = "file"
        /\ faults' = faults
    BY <1>2 DEF SaveStarts, Joined
  <2>2. Healthy
    BY <1>1, <2>1 DEF Healthy
  <2>3. ASSUME NEW e \in mem
        PROVE  Place(e)'
    <3>1. Place(e)
      BY <2>2 DEF Covered
    <3> QED
      BY <1>1, <2>1, <3>1 DEF Place, FromFile, Recent, InDays, InDay, InSnap, Saved, Days
  <2> QED
    BY <1>1, <2>1, <2>3 DEF Covered
<1>3. CASE SaveEnds
  <2>1. phase' = "saved" /\ \A e \in mem : e \in file'.has
    BY <1>3, CopyFacts DEF SaveEnds
  <2> QED
    BY <1>1, <2>1 DEF Covered, Place, Saved
<1>4. CASE SaveFails \/ SpareEnds
  <2>1. "file" \in faults'
    BY <1>4 DEF SaveFails, SpareEnds, SpareWhy
  <2> QED
    BY <2>1 DEF Healthy
<1>5. CASE CacheStarts
  <2>1. phase = "saved" /\ phase' = "cache" /\ UNCHANGED <<file, faults>>
    BY <1>5 DEF CacheStarts
  <2>2. Healthy
    BY <1>1, <2>1 DEF Healthy
  <2>3. ASSUME NEW e \in mem
        PROVE  Place(e)'
    <3>1. Place(e)
      BY <2>2 DEF Covered
    <3> QED
      BY <1>1, <2>1, <3>1 DEF Place, FromFile, Recent, InDays, InDay, InSnap, Saved, Days
  <2> QED
    BY <1>1, <2>1, <2>3 DEF Covered
<1> QED
  BY <1>2, <1>3, <1>4, <1>5 DEF MainSaves

LEMMA CoveredStep ==
  ASSUME TypeOK, NothingRuns, Quiescent, SpareWhy, Writing, Made, Covered, [Next]_vars
  PROVE  Covered'
<1> SUFFICES ASSUME Healthy'
             PROVE  Covered'
  BY DEF Covered
<1>1. CASE Start
  <2>1. /\ mem' \subseteq file.has /\ UNCHANGED <<file, at>> /\ phase = "off"
        /\ task' # "over" \/ "backup" \in faults'
    BY <1>1 DEF Start, disk, times
  <2>2. ASSUME NEW e \in mem'
        PROVE  Place(e)'
    <3>1. e \in file.has /\ e \in Edits
      BY <2>1, CopyFacts DEF TypeOK
    <3>2. at[e] = Earlier
      BY <2>1, <3>1 DEF Made, TypeOK
    <3> QED
      BY <2>1, <3>1, <3>2 DEF Place, FromFile
  <2> QED
    BY <2>1, <2>2 DEF Covered, Healthy
<1>2. CASE Ends \/ Panic \/ Blocks
  BY <1>2 DEF Ends, Panic, Blocks, Healthy
<1>3. CASE Signal \/ ServerEnds \/ UNCHANGED vars
  <2>1. /\ UNCHANGED <<disk, now, at, mem, poisoned, stuck, task, snap, last, faults>>
        /\ phase' = phase \/ (phase = "up" /\ phase' = "stopping")
    BY <1>3 DEF Signal, ServerEnds, InMain, times, vars
  <2>2. Healthy
    BY <2>1 DEF Healthy
  <2>3. ASSUME NEW e \in mem
        PROVE  Place(e)'
    <3>1. Place(e)
      BY <2>2 DEF Covered
    <3> QED
      BY <2>1, <3>1 DEF Place, FromFile, Recent, InDays, InDay, InSnap, Saved, disk, Days
  <2> QED
    BY <2>1, <2>2, <2>3 DEF Covered
<1>4. CASE BackupStep
  BY <1>4, BackupStepCovers
<1>5. CASE MainSaves /\ InMain /\ backups' = backups
  BY <1>5, SaveCovers
<1> QED
  BY <1>1, <1>2, <1>3, <1>4, <1>5, AcceptCovers, TickCovers, StepKinds

-----------------------------------------------------------------------------
(* The theorems *)

LEMMA Invariance == Spec => []Inv
<1>1. Init => Inv
  <2> SUFFICES ASSUME Init PROVE Inv
    OBVIOUS
  <2>1. TypeOK
    <3>1. now \in Hours /\ 0 \in 0..now
      BY HoursAreNat DEF Init
    <3>2. /\ file \in Copies /\ spare \in Copies
          /\ backups \in [{DayOf(h) : h \in Hours} -> Copies]
      BY CopyFacts DEF Init
    <3>3. at \in [Edits -> {Never, Earlier} \union Hours]
      BY DEF Init
    <3> QED
      BY <3>1, <3>2, <3>3 DEF Init, TypeOK
  <2>2. Made
    BY CopyFacts, HoursAreNat DEF Init, Made
  <2> QED
    BY <2>1, <2>2 DEF Init, Inv, NothingRuns, Quiescent, FileTorn, SpareWhy, Writing,
                      Loaded, StopKeepsAll, Covered, Healthy
<1>2. Inv /\ [Next]_vars => Inv'
  BY TypeStep, PhasesStep, WritingStep, MadeStep, LoadedStep, StopStep, CoveredStep
  DEF Inv, Phases
<1> QED
  BY <1>1, <1>2, PTL DEF Spec

\* Loading, saving and the backup service keep the store and the files
\* well-formed.
THEOREM TypeCorrect == Spec => []TypeOK
<1>1. Inv => TypeOK
  BY DEF Inv
<1> QED
  BY <1>1, Invariance, PTL

\* What the store has at a graceful stop is saved, in one file or the other,
\* unless both fail; but for what a socket changes after the save.
THEOREM StopsKeepAll == Spec => []StopKeepsAll
<1>1. Inv => StopKeepsAll
  BY DEF Inv
<1> QED
  BY <1>1, Invariance, PTL

\* What a crash costs at most while nothing else has failed: the edits since the
\* last backup, which on a server that is up are a period old at most; if it cuts
\* off a backup, those of that day and of the period before it, which is what
\* earlier backups of the day may have held; if it cuts off the save, what was
\* loaded at the start too.
THEOREM CrashLossIsBounded == Spec => []CrashLossBounded
<1>1. ASSUME Inv, ~poisoned, ~stuck, faults \subseteq {"read"}, NEW e \in mem \ OnDisk
      PROVE  \/ /\ at[e] \in Hours /\ last <= at[e]
                /\ phase = "up" => now - at[e] <= Period
             \/ /\ at[e] \in Hours /\ task = "write"
                /\ phase = "up" => DayOf(last) <= DayOf(at[e] + Period)
             \/ at[e] = Earlier /\ phase = "file"
  <2>1. Healthy /\ Place(e)
    BY <1>1 DEF Inv, NothingRuns, Covered, Healthy
  <2>2. ~Saved(e) /\ ~InDays(e)
    <3>1. backups \in [Days -> Copies]
      BY <1>1 DEF Inv, TypeOK, Days
    <3> QED
      BY <1>1, <3>1, OnDiskIs DEF Saved, InDays, InDay
  <2>3. CASE FromFile(e)
    BY <1>1, <2>3, OnDiskIs DEF FromFile
  <2>4. CASE InSnap(e)
    BY <2>4 DEF InSnap
  <2>5. CASE Recent(e)
    <3>1. now \in Nat /\ last \in Nat /\ at[e] \in Nat /\ Period \in Nat
      BY <1>1, TimesAreNat DEF Inv
    <3> QED
      BY <2>5, <3>1 DEF Recent
  <2> QED
    BY <2>1, <2>2, <2>3, <2>4, <2>5 DEF Place
<1>2. Inv => CrashLossBounded
  BY <1>1 DEF CrashLossBounded
<1> QED
  BY <1>2, Invariance, PTL

\* The steps that put another store in the place of one on disk: only the save,
\* of a store that has all of it, and the backup of the day.
LEMMA KeptStep ==
  ASSUME Inv, [Next]_vars, NEW e \in Kept, e \notin mem, "read" \notin faults
  PROVE  e \in OnDisk'
<1>1. backups \in [Days -> Copies]
  BY DEF Inv, TypeOK, Days
<1>2. e \in OnDisk
  BY <1>1 DEF Kept, OnDisk
<1>3. CASE UNCHANGED <<file, spare, backups>>
  BY <1>2, <1>3 DEF OnDisk
<1>4. CASE BackupStarts
  <2>1. file' = file /\ backups' = [backups EXCEPT ![Today] = Torn]
    BY <1>4 DEF BackupStarts
  <2>2. CASE e \in file.has
    BY <2>1, <2>2 DEF OnDisk
  <2>3. ASSUME NEW d \in Days \ {Today}, e \in backups[d].has
        PROVE  e \in OnDisk'
    BY <1>1, <2>1, <2>3 DEF OnDisk
  <2> QED
    BY <1>1, <2>2, <2>3 DEF Kept
<1>5. CASE BackupStep /\ ~BackupStarts
  BY <1>2, <1>5, BackupKeeps DEF Inv
<1>6. CASE MainSaves /\ InMain /\ backups' = backups
  <2>1. ASSUME NEW d \in Days, e \in backups[d].has
        PROVE  e \in OnDisk'
    BY <1>1, <1>6, <2>1 DEF OnDisk
  <2>2. CASE e \in file.has
    <3>1. phase \notin {"up", "stopping"}
      BY <2>2 DEF Inv, Loaded
    <3>2. phase # "file"
      BY <2>2, CopyFacts DEF Inv, FileTorn
    <3>3. file' = file
      BY <1>6, <3>1, <3>2 DEF MainSaves, SaveStarts, SaveFails, SaveEnds, SpareEnds,
                              CacheStarts, Joined
    <3> QED
      BY <2>2, <3>3 DEF OnDisk
  <2> QED
    BY <1>1, <2>1, <2>2 DEF Kept
<1>7. ASSUME NEW f \in Edits, Edit(f) \/ SocketEdit(f)
      PROVE  UNCHANGED <<file, spare, backups>>
  BY <1>7, AcceptFrame DEF disk
<1>8. CASE Start \/ Tick \/ Panic \/ Blocks \/ Signal \/ ServerEnds \/ UNCHANGED vars
  BY <1>3, <1>8 DEF Start, Tick, Panic, Blocks, Signal, ServerEnds, disk, vars
<1> QED
  BY <1>3, <1>4, <1>5, <1>6, <1>7, <1>8, StepKinds

\* What is in the store's file, or in the backup of an earlier day, stays on disk
\* until the server has it too.
THEOREM DiskIsKept == Spec => KeptUntilHeld
<1> DEFINE Keeps == \A e \in Kept : e \in OnDisk' \/ e \in mem \/ "read" \in faults
<1>1. Inv /\ [Next]_vars => [Keeps]_vars
  BY KeptStep
<1>2. KeptUntilHeld <=> [][Keeps]_vars
  BY DEF KeptUntilHeld
<1> QED
  BY <1>1, <1>2, Invariance, PTL DEF Spec
=============================================================================
