--------------------------- MODULE RecoveryProofs ---------------------------
(***************************************************************************)
(* What backup and restore promise, for any process ids and for any number *)
(* of commands, commits, days, crashes and failures: nothing of the prior  *)
(* state is lost, a restore does all or nothing, no log meets a database   *)
(* it does not extend, a backup is current, and retention keeps the newest *)
(* points.  Where a promise has an exception the property names it; there  *)
(* is no hypothesis on how commands are run.                               *)
(***************************************************************************)
EXTENDS Recovery, FiniteSetTheorems, TLAPS

Restoring == {"validate", "stage", "aside", "install", "check", "sync", "undo",
              "removeStage", "removeRollback"}

\* Files that are a database as it was closed, without log and cookie.
Archived(files) ==
  /\ files["db"] \in Logs /\ files["db"].base = files["db"].head
  /\ files["wal"] = None /\ files["cookie"] = None

\* Files whose log, if there is one, is that of the database.
Own(files) ==
  files["db"] # None /\ files["wal"] # None => files["wal"].base = files["db"].head

\* Files that hold the last acknowledged commit, with a log of their own or none.
Fits(files) ==
  files["db"] # None /\ Own(files) /\ Effective(files) = acknowledged

\* What is published, about to be published or restored is an archive, and a
\* stage holds nothing else.
Shaped ==
  /\ \A p \in daily \cup weekly : Archived(p.files)
  /\ pc = "publish" => /\ temporary[pid] # None /\ Archived(temporary[pid])
                       /\ intact => Effective(temporary[pid]) = acknowledged
  /\ IF pc \in Restoring THEN chosen \in Points /\ Archived(chosen.files)
                         ELSE chosen = None
  /\ pc \in Restoring \ {"validate"} => chosen.state = "sound"
  /\ \A p \in Pids : stage[p]["wal"] = None /\ stage[p]["cookie"] = None

\* What a restore finds in its directories is on record.
Recorded ==
  pc \in {"validate", "stage"} =>
    /\ "stage" \notin reused => stage[pid] = Nothing
    /\ "rollback" \notin reused => rollback[pid] = Nothing

\* Unless a restore stopped half way the files are those of the last commit:
\* those a restore found, until it succeeds.
Current ==
  /\ intact => IF pc \in Restoring /\ outcome # "ok" THEN Fits(before) ELSE Fits(live)
  /\ ~torn => IF pc \in Restoring /\ outcome # "ok" THEN Own(before) ELSE Own(live)
  /\ pc \in Restoring => live["wal"] \in {None, before["wal"]}

T(j) == Targets[j]

\* A stage that was empty gives what the point has, another one its sentinel.
Staged(j, content) == content = chosen.files[T(j)] \/ (j = 1 /\ "stage" \in reused)

\* The three states of a target while a restore goes through them,
Untouched(j) ==
  /\ live[T(j)] = before[T(j)]
  /\ Staged(j, stage[pid][T(j)])
  /\ j \notin moved /\ j \notin installed

Removed(j) ==
  /\ live[T(j)] = None
  /\ before[T(j)] # None => rollback[pid][T(j)] = before[T(j)]
  /\ Staged(j, stage[pid][T(j)])
  /\ j \in moved <=> before[T(j)] # None
  /\ j \notin installed

Exchanged(j) ==
  /\ Staged(j, live[T(j)])
  /\ before[T(j)] # None => rollback[pid][T(j)] = before[T(j)]
  /\ j \in moved <=> before[T(j)] # None
  /\ j \in installed <=> live[T(j)] # None

\* and while it undoes what it did: without an error each target is on its way
\* back, and whatever fails the file that was found is in one of two places.
Returning(j) ==
  /\ j \in moved => before[T(j)] # None /\ rollback[pid][T(j)] = before[T(j)]
  /\ ~errors /\ j \notin moved =>
       IF j \in installed THEN before[T(j)] = None ELSE live[T(j)] = before[T(j)]
  /\ before[T(j)] # None =>
       \/ rollback[pid][T(j)] = before[T(j)]
       \/ live[T(j)] = before[T(j)] /\ j \notin installed

Progress ==
  /\ pc \in {"validate", "stage", "aside", "install", "check", "sync"} =>
       ~errors /\ outcome = "none"
  /\ pc \in {"validate", "stage"} =>
       live = before /\ next = 1 /\ installed = {} /\ moved = {}
  /\ pc = "aside" =>
       \A j \in 1..4 : IF j < next THEN Exchanged(j) ELSE Untouched(j)
  /\ pc = "install" =>
       \A j \in 1..4 : /\ j < next => Exchanged(j)
                       /\ j = next => Removed(j)
                       /\ j > next => Untouched(j)
  /\ pc \in {"check", "sync"} => \A j \in 1..4 : Exchanged(j)
  /\ pc = "undo" => outcome = "failed" /\ \A j \in 1..4 : Returning(j)
  /\ pc \in {"removeStage", "removeRollback"} =>
       \/ outcome = "ok" /\ prior = {} /\ \A j \in 1..4 : Staged(j, live[T(j)])
       \/ /\ outcome = "failed" /\ installed = {} /\ moved = {}
          /\ \A j \in 1..4 : Returning(j)

\* The files that are owed are among those this restore found or in the
\* rollback directory of an earlier one.
Kept ==
  "rollback" \notin reused =>
    \A o \in prior :
      IF pc \in Restoring
      THEN \/ o.content = before[o.file]
           \/ \E p \in Pids \ {pid} : o.content = rollback[p][o.file]
      ELSE \E p \in Pids : o.content = rollback[p][o.file]

RInv == TypeOK /\ Shaped /\ Recorded /\ Current /\ Progress /\ Kept

USE BoundsAssumption, NamesAssumption
  DEF directories, points, command, attempt, budget, history

-----------------------------------------------------------------------------
(* Files *)

\* Each file is one target.
LEMMA TargetsAreFiles ==
  /\ \A j \in 1..4 : T(j) \in Files
  /\ \A i, j \in 1..4 : T(i) = T(j) => i = j
  /\ \A f \in Files : \E j \in 1..4 : f = T(j)
<1>1. T(1) = "sentinel" /\ T(2) = "db" /\ T(3) = "wal" /\ T(4) = "cookie"
  BY DEF T, Targets
<1>2. \A j \in 1..4 : j = 1 \/ j = 2 \/ j = 3 \/ j = 4
  OBVIOUS
<1> QED
  BY <1>1, <1>2 DEF Files

\* A content is none or the commits between two versions.
LEMMA ContentTypes ==
  /\ None \in Contents /\ None \notin Logs /\ None \notin Versions
  /\ \A files \in Directories, f \in Files :
       /\ files[f] # None => /\ files[f] \in Logs
                             /\ files[f].base \in Versions
                             /\ files[f].head \in Versions
  /\ \A base, head \in Versions : Log(base, head) \in Contents /\ Log(base, head) # None
  /\ Nothing \in Directories /\ None \notin Directories
<1>1. None \notin Logs /\ None \notin Directories
  BY NoneAssumption
<1>2. Nothing \in Directories /\ None \in Contents /\ None \notin Versions
  BY NamesAssumption DEF Nothing, Directories, Contents, Versions
<1>3. \A base, head \in Versions : Log(base, head) \in Logs
  BY DEF Log, Logs
<1>4. \A files \in Directories, f \in Files : files[f] # None => files[f] \in Logs
  BY DEF Directories, Contents
<1>5. \A c \in Logs : c.base \in Versions /\ c.head \in Versions
  BY DEF Logs
<1> QED
  BY <1>1, <1>2, <1>3, <1>4, <1>5 DEF Contents

\* A directory with one file replaced is a directory.
LEMMA FileReplaced ==
  ASSUME NEW files \in Directories, NEW f \in Files, NEW c \in Contents
  PROVE  /\ [files EXCEPT ![f] = c] \in Directories
         /\ [files EXCEPT ![f] = c][f] = c
         /\ \A g \in Files : g # f => [files EXCEPT ![f] = c][g] = files[g]
  BY DEF Directories

\* Two directories with the same files are equal.
LEMMA SameFiles ==
  ASSUME NEW a \in Directories, NEW b \in Directories,
         \A f \in Files : a[f] = b[f]
  PROVE  a = b
  BY DEF Directories

\* What a reader reconstructs is a version.
LEMMA EffectiveType ==
  ASSUME NEW files \in Directories, files["db"] # None
  PROVE  Effective(files) \in Versions
<1>1. "db" \in Files /\ "wal" \in Files /\ Mixed \in Versions
  BY DEF Files, Versions
<1>2. files["db"].head \in Versions
  BY <1>1, ContentTypes
<1>3. files["wal"] # None => files["wal"].head \in Versions
  BY <1>1, ContentTypes
<1> QED
  BY <1>1, <1>2, <1>3 DEF Effective

\* Writing the log back changes nothing for a reader.
LEMMA CheckpointedFiles ==
  ASSUME NEW files \in Directories, files["db"] # None
  PROVE  LET c == Checkpointed(files) IN
           /\ c \in Directories
           /\ c["db"] = Page(Effective(files)) /\ c["db"] # None
           /\ c["db"].base = Effective(files) /\ c["db"].head = Effective(files)
           /\ c["wal"] = None
           /\ \A f \in Files \ {"db", "wal"} : c[f] = files[f]
           /\ Effective(c) = Effective(files)
<1> DEFINE v == Effective(files)
           a == [files EXCEPT !["db"] = Page(v)]
           c == [a EXCEPT !["wal"] = None]
<1>1. v \in Versions
  BY EffectiveType
<1>2. Page(v) \in Contents /\ Page(v) # None /\ None \in Contents
  BY <1>1, ContentTypes DEF Page
<1>3. Page(v).base = v /\ Page(v).head = v
  BY DEF Page, Log
<1>4. "db" \in Files /\ "wal" \in Files /\ "db" # "wal"
  BY DEF Files
<1>5. /\ a \in Directories /\ a["db"] = Page(v)
      /\ \A g \in Files : g # "db" => a[g] = files[g]
  BY <1>2, <1>4, FileReplaced
<1> HIDE DEF v, a
<1>6. /\ c \in Directories /\ c["wal"] = None
      /\ \A g \in Files : g # "wal" => c[g] = a[g]
  BY <1>2, <1>4, <1>5, FileReplaced
<1>7. Checkpointed(files) = c
  BY DEF Checkpointed, a, v
<1> HIDE DEF c
<1>8. Effective(c) = v
  BY <1>3, <1>4, <1>5, <1>6 DEF Effective
<1> QED
  BY <1>2, <1>3, <1>4, <1>5, <1>6, <1>7, <1>8 DEF v

\* So does archiving them.
LEMMA ArchiveFiles ==
  ASSUME NEW files \in Directories, files["db"] # None
  PROVE  /\ Archive(files) \in Directories /\ Archived(Archive(files))
         /\ Effective(Archive(files)) = Effective(files)
<1> DEFINE c == Checkpointed(files)
           a == [c EXCEPT !["cookie"] = None]
<1>1. /\ "cookie" \in Files /\ "db" \in Files /\ "wal" \in Files
      /\ "cookie" # "db" /\ "cookie" # "wal"
  BY DEF Files
<1>2. /\ c \in Directories /\ c["db"] # None
      /\ c["db"].base = Effective(files) /\ c["db"].head = Effective(files)
      /\ c["wal"] = None
  BY CheckpointedFiles
<1> HIDE DEF c
<1>3. /\ a \in Directories /\ a["cookie"] = None
      /\ \A g \in Files : g # "cookie" => a[g] = c[g]
  BY <1>1, <1>2, ContentTypes, FileReplaced
<1>4. c["db"] \in Logs
  BY <1>1, <1>2, ContentTypes
<1>5. Archive(files) = a
  BY DEF Archive, c
<1> QED
  BY <1>1, <1>2, <1>3, <1>4, <1>5 DEF Archived, Effective

\* An archive has nothing to be written back.
LEMMA ArchiveClosed ==
  ASSUME NEW files \in Directories, Archived(files)
  PROVE  Checkpointed(files) = files /\ Effective(files) = files["db"].head
<1>1. files["db"] # None /\ Effective(files) = files["db"].head
  BY ContentTypes DEF Archived, Effective
<1>2. files["db"] = Page(files["db"].head)
  BY DEF Archived, Page, Log, Logs
<1> DEFINE c == Checkpointed(files)
<1>3. /\ c \in Directories /\ c["db"] = files["db"] /\ c["wal"] = files["wal"]
      /\ \A f \in Files \ {"db", "wal"} : c[f] = files[f]
  BY <1>1, <1>2, CheckpointedFiles DEF Archived
<1> HIDE DEF c
<1>4. \A f \in Files : c[f] = files[f]
  BY <1>3
<1>5. c = files
  BY <1>3, <1>4, SameFiles
<1> QED
  BY <1>1, <1>5 DEF c

-----------------------------------------------------------------------------
(* The types *)

\* The types of the control and those of the files.
TypeControl ==
  /\ pc \in Labels /\ pid \in Pids \cup {None}
  /\ next \in 1..4 /\ installed \in SUBSET (1..4) /\ moved \in SUBSET (1..4)
  /\ outcome \in {"none", "ok", "failed"}
  /\ runs \in 0..MaxRuns /\ day \in 1..MaxDays /\ commits \in 0..MaxCommits
  /\ crashes \in 0..MaxCrashes /\ faults \in 0..MaxFaults
  /\ pc \notin {"idle", "serving"} => pid # None

TypeFlags ==
  /\ errors \in BOOLEAN /\ intact \in BOOLEAN /\ torn \in BOOLEAN
  /\ reused \subseteq {"stage", "rollback"}

TypeFiles ==
  /\ live \in Directories
  /\ temporary \in [Pids -> Directories \cup {None}]
  /\ stage \in [Pids -> Directories] /\ rollback \in [Pids -> Directories]
  /\ daily \in SUBSET Points /\ weekly \in SUBSET Points
  /\ chosen \in Points \cup {None}
  /\ before \in Directories
  /\ acknowledged \in Versions
  /\ prior \subseteq [file : Files, content : Logs]
  /\ pc \in {"serving", "copy"} => live["db"] # None

LEMMA TypeParts == TypeOK <=> TypeControl /\ TypeFlags /\ TypeFiles
  BY DEF TypeOK, TypeControl, TypeFlags, TypeFiles

\* A command that runs has directories.
LEMMA PidTypes ==
  ASSUME TypeOK
  PROVE  pc \notin {"idle", "serving"} => pid \in Pids /\ pid # None
  BY DEF TypeOK

\* The target of the loop is a file.
LEMMA TargetIsFile ==
  ASSUME TypeOK
  PROVE  Target \in Files /\ Target = T(next) /\ next \in 1..4
  BY TargetsAreFiles DEF TypeOK, Target, T

\* A point that is emptied or damaged is still one.
LEMMA PointChanged ==
  ASSUME NEW p \in Points, NEW s \in PointStates
  PROVE  LET q == [p EXCEPT !.state = s] IN
           q \in Points /\ q.id = p.id /\ q.files = p.files /\ q.state = s
  BY DEF Points

\* Nor is there anything else in a set whose retention has begun.
LEMMA ShrunkPoints ==
  ASSUME NEW set \in SUBSET Points, NEW p \in set
  PROVE  Shrunk(set, p) \in SUBSET Points
<1>1. [p EXCEPT !.state = "torn"] \in Points
  BY PointChanged DEF PointStates
<1> QED
  BY <1>1 DEF Shrunk

\* The last of the targets is one of them.
LEMMA LastTypes ==
  ASSUME NEW set \in SUBSET (1..4), set # {}
  PROVE  Last(set) \in set
<1>1. \E i \in set : \A j \in set : j <= i
  <2>1. CASE 4 \in set
    BY <2>1
  <2>2. CASE 4 \notin set /\ 3 \in set
    BY <2>2
  <2>3. CASE 4 \notin set /\ 3 \notin set /\ 2 \in set
    BY <2>3
  <2>4. CASE 4 \notin set /\ 3 \notin set /\ 2 \notin set
    <3>1. ASSUME NEW i \in set PROVE i = 1
      <4>1. i \in 1..4
        OBVIOUS
      <4>2. i # 2 /\ i # 3 /\ i # 4
        BY <2>4
      <4> QED
        BY <4>1, <4>2
    <3>2. PICK k \in set : TRUE
      OBVIOUS
    <3>3. k = 1 /\ k <= 1 /\ \A j \in set : j <= k
      BY <3>1, <3>2
    <3> QED
      BY <3>2, <3>3
  <2> QED
    BY <2>1, <2>2, <2>3, <2>4
<1> QED
  BY <1>1 DEF Last

\* A restore is over when the live files are those of its point.
LEMMA ExchangedFiles ==
  ASSUME RInv, pc \in {"check", "sync"}
  PROVE  /\ Archived(live) /\ live["db"] # None /\ live["wal"] = None
         /\ Checkpointed(live) = live
<1>1. chosen.files \in Directories /\ live \in Directories /\ Archived(chosen.files)
  BY DEF RInv, TypeOK, Shaped, Restoring, Points
<1>2. ASSUME NEW j \in 1..4, j # 1 PROVE live[T(j)] = chosen.files[T(j)]
  BY <1>2 DEF RInv, Progress, Exchanged, Staged
<1>3. T(2) = "db" /\ T(3) = "wal" /\ T(4) = "cookie"
  BY DEF T, Targets
<1>4. /\ live["db"] = chosen.files["db"] /\ live["wal"] = chosen.files["wal"]
      /\ live["cookie"] = chosen.files["cookie"]
  BY <1>2, <1>3
<1>5. Archived(live)
  BY <1>1, <1>4 DEF Archived
<1>6. live["db"] # None /\ live["wal"] = None
  BY <1>5, ContentTypes DEF Archived
<1> QED
  BY <1>1, <1>5, <1>6, ArchiveClosed

\* The initial state.
LEMMA InitRInv == Init => RInv
<1> SUFFICES ASSUME Init PROVE RInv
  OBVIOUS
<1> DEFINE a == [Nothing EXCEPT !["sentinel"] = Page(0)]
           b == [a EXCEPT !["db"] = Page(0)]
<1>1. /\ Page(0) \in Contents /\ Page(0) # None
      /\ Page(0).base = 0 /\ Page(0).head = 0 /\ 0 \in Versions
  <2>1. 0 \in Versions
    BY DEF Versions
  <2> QED
    BY <2>1, ContentTypes DEF Page, Log
<1>2. /\ "sentinel" \in Files /\ "db" \in Files /\ "wal" \in Files /\ "cookie" \in Files
      /\ "sentinel" # "wal" /\ "db" # "wal"
  BY DEF Files
<1>3. /\ a \in Directories
      /\ \A g \in Files : g # "sentinel" => a[g] = Nothing[g]
  BY <1>1, <1>2, ContentTypes, FileReplaced
<1> HIDE DEF a
<1>4. /\ b \in Directories /\ b["db"] = Page(0)
      /\ \A g \in Files : g # "db" => b[g] = a[g]
  BY <1>1, <1>2, <1>3, FileReplaced
<1>5. live = b
  BY DEF Init, a
<1> HIDE DEF b
<1>6. live \in Directories /\ live["db"] = Page(0) /\ live["wal"] = None
  BY <1>2, <1>3, <1>4, <1>5 DEF Nothing
<1>7. Fits(live) /\ Own(live)
  BY <1>1, <1>6 DEF Fits, Own, Effective, Init
<1>8. TypeOK
  <2>1. TypeControl
    BY DEF Init, TypeControl, Labels
  <2>2. /\ temporary \in [Pids -> Directories \cup {None}]
        /\ stage \in [Pids -> Directories] /\ rollback \in [Pids -> Directories]
    BY ContentTypes DEF Init
  <2>3. TypeFiles
    BY <1>1, <1>6, <2>2, ContentTypes DEF Init, TypeFiles
  <2>4. TypeFlags
    BY DEF Init, TypeFlags
  <2> QED
    BY <2>1, <2>3, <2>4, TypeParts
<1>9. Shaped
  BY <1>2 DEF Init, Shaped, Restoring, Nothing
<1>10. Recorded /\ Current /\ Progress /\ Kept
  BY <1>7 DEF Init, Restoring, Recorded, Current, Progress, Kept
<1> QED
  BY <1>8, <1>9, <1>10 DEF RInv

\* Every step keeps the types of the control.
LEMMA ControlStep == TypeControl /\ [Next]_vars => TypeControl'
<1> SUFFICES ASSUME TypeControl, [Next]_vars PROVE TypeControl'
  OBVIOUS
<1> USE DEF TypeControl, Labels, Goto, Fault, Fail, End, Fresh, Begin
<1>1. CASE Start
  BY <1>1 DEF Start
<1>2. CASE Commit
  BY <1>2 DEF Commit
<1>3. CASE SaveCookies
  BY <1>3 DEF SaveCookies
<1>4. CASE Stop
  BY <1>4 DEF Stop
<1>5. CASE Create
  BY <1>5 DEF Create
<1>6. CASE Source
  BY <1>6 DEF Source
<1>7. CASE Copy
  BY <1>7 DEF Copy
<1>8. CASE Publish
  BY <1>8 DEF Publish
<1>9. CASE Week
  BY <1>9 DEF Week
<1>10. CASE RetainDaily
  BY <1>10 DEF RetainDaily
<1>11. CASE RetainWeekly
  BY <1>11 DEF RetainWeekly
<1>12. CASE CreateFails
  BY <1>12 DEF CreateFails
<1>13. CASE Discard
  BY <1>13 DEF Discard
<1>14. ASSUME NEW p \in daily \cup weekly, Restore(p) PROVE TypeControl'
  BY <1>14 DEF Restore
<1>15. CASE Validate
  <2>1. CASE chosen.state = "sound"
    BY <1>15, <2>1 DEF Validate
  <2>2. CASE chosen.state # "sound"
    BY <1>15, <2>2 DEF Validate
  <2> QED
    BY <2>1, <2>2
<1>16. CASE ValidateFails
  BY <1>16 DEF ValidateFails
<1>17. CASE Stage
  BY <1>17 DEF Stage
<1>18. CASE StageFails
  BY <1>18 DEF StageFails
<1>19. CASE Aside
  BY <1>19 DEF Aside
<1>20. CASE Install
  BY <1>20 DEF Install
<1>21. CASE Check
  BY <1>21 DEF Check
<1>22. CASE Sync
  BY <1>22 DEF Sync
<1>23. CASE InstallFails
  BY <1>23 DEF InstallFails
<1>24. CASE Uninstall
  BY <1>24 DEF Uninstall
<1>25. CASE MoveBack
  BY <1>25 DEF MoveBack
<1>26. CASE UndoFails
  <2>1. /\ UNCHANGED <<pid, next, outcome, runs, day, commits, crashes>>
        /\ pc' = pc /\ faults' = faults + 1 /\ faults < MaxFaults
        /\ installed' \subseteq installed /\ moved' \subseteq moved
    BY <1>26 DEF UndoFails
  <2> QED
    BY <2>1
<1>27. CASE Undone
  BY <1>27 DEF Undone
<1>28. CASE RemoveStage
  BY <1>28 DEF RemoveStage
<1>29. CASE RemoveRollback
  BY <1>29 DEF RemoveRollback
<1>30. CASE RemovalFails
  <2>1. CASE pc = "removeStage" /\ Goto("removeRollback") /\ UNCHANGED attempt
    BY <1>30, <2>1 DEF RemovalFails
  <2>2. CASE End
    BY <1>30, <2>2 DEF RemovalFails
  <2> QED
    BY <1>30, <2>1, <2>2 DEF RemovalFails
<1>31. CASE Crash
  BY <1>31 DEF Crash
<1>32. CASE Tick
  BY <1>32 DEF Tick
<1>33. ASSUME NEW p \in daily, Damage(p) PROVE TypeControl'
  BY <1>33 DEF Damage
<1>34. CASE UNCHANGED vars
  BY <1>34 DEF vars
<1> QED
  BY <1>1, <1>2, <1>3, <1>4, <1>5, <1>6, <1>7, <1>8, <1>9, <1>10, <1>11,
     <1>12, <1>13, <1>14, <1>15, <1>16, <1>17, <1>18, <1>19, <1>20, <1>21,
     <1>22, <1>23, <1>24, <1>25, <1>26, <1>27, <1>28, <1>29, <1>30, <1>31,
     <1>32, <1>33, <1>34
     DEF Next, Backup, Restoration

\* Only an end of a restore, its beginning and its success set the flags.
LEMMA FlagsStep == TypeFlags /\ [Next]_vars => TypeFlags'
<1> SUFFICES ASSUME TypeFlags, [Next]_vars PROVE TypeFlags'
  OBVIOUS
<1>a. ASSUME errors' \in BOOLEAN, UNCHANGED history PROVE TypeFlags'
  BY <1>a DEF TypeFlags
<1>b. ASSUME errors' \in BOOLEAN, Settle PROVE TypeFlags'
  BY <1>b DEF TypeFlags, Settle
<1>c. errors \in BOOLEAN /\ TRUE \in BOOLEAN /\ FALSE \in BOOLEAN
  BY DEF TypeFlags
<1>1. ASSUME NEW p \in daily \cup weekly, Restore(p) PROVE TypeFlags'
  BY <1>1 DEF Restore, Fresh, TypeFlags
<1>2. CASE Sync
  BY <1>2 DEF Sync, TypeFlags
<1>3. CASE Stage
  BY <1>3 DEF Stage, TypeFlags
<1>4. CASE Commit
  BY <1>4 DEF Commit, TypeFlags
<1>5. CASE Validate
  <2>1. CASE UNCHANGED <<attempt, history>>
    BY <1>a, <1>c, <2>1
  <2>2. CASE End /\ Settle
    BY <1>b, <1>c, <2>2 DEF End, Fresh
  <2> QED
    BY <1>5, <2>1, <2>2 DEF Validate
<1>6. CASE ValidateFails \/ RemoveRollback
  BY <1>b, <1>c, <1>6 DEF ValidateFails, RemoveRollback, End, Fresh
<1>7. CASE RemovalFails
  <2>1. CASE UNCHANGED <<attempt, history>>
    BY <1>a, <1>c, <2>1
  <2>2. CASE End /\ Settle
    BY <1>b, <1>c, <2>2 DEF End, Fresh
  <2>3. CASE End /\ UNCHANGED history
    BY <1>a, <1>c, <2>3 DEF End, Fresh
  <2> QED
    BY <1>7, <2>1, <2>2, <2>3 DEF RemovalFails
<1>8. CASE Crash
  <2>1. CASE chosen = None
    BY <1>a, <1>c, <1>8, <2>1 DEF Crash, End, Fresh
  <2>2. CASE chosen # None
    BY <1>b, <1>c, <1>8, <2>2 DEF Crash, End, Fresh
  <2> QED
    BY <2>1, <2>2
<1>9. CASE Stop \/ Discard
  BY <1>a, <1>c, <1>9 DEF Stop, Discard, End, Fresh
<1>10. CASE UndoFails
  BY <1>a, <1>c, <1>10 DEF UndoFails
<1>11. CASE StageFails \/ Aside \/ Install \/ Check \/ InstallFails \/ Uninstall
            \/ MoveBack \/ Undone \/ RemoveStage
  BY <1>a, <1>c, <1>11 DEF StageFails, Aside, Install, Check, InstallFails, Uninstall,
     MoveBack, Undone, RemoveStage
<1>12. CASE \/ Start \/ SaveCookies \/ Create \/ Source \/ Copy \/ Publish \/ Week
            \/ RetainDaily \/ RetainWeekly \/ CreateFails \/ Tick \/ UNCHANGED vars
            \/ \E p \in daily : Damage(p)
  BY <1>a, <1>c, <1>12 DEF Start, SaveCookies, Create, Source, Copy, Publish, Week,
     RetainDaily, RetainWeekly, CreateFails, Tick, Damage, vars
<1> QED
  BY <1>1, <1>2, <1>3, <1>4, <1>5, <1>6, <1>7, <1>8, <1>9, <1>10, <1>11, <1>12
     DEF Next, Backup, Restoration

\* Every step keeps the types of the files.
LEMMA FilesStep == RInv /\ [Next]_vars => TypeFiles'
<1> SUFFICES ASSUME RInv, [Next]_vars PROVE TypeFiles'
  OBVIOUS
<1>a. TypeOK /\ TypeControl /\ TypeFiles
  BY TypeParts DEF RInv
<1>b. pc \notin {"idle", "serving"} => pid \in Pids
  BY <1>a, PidTypes
<1>c. /\ "db" \in Files /\ "wal" \in Files /\ "cookie" \in Files /\ 0 \in Versions
      /\ "db" # "wal" /\ "db" # "cookie"
  BY DEF Files, Versions
<1>d. ASSUME Settle PROVE prior' \subseteq prior /\ acknowledged' = acknowledged
  BY <1>d DEF Settle
<1>e. ASSUME End PROVE /\ before' \in Directories /\ chosen' = None /\ pc' = "idle"
  BY <1>e, ContentTypes DEF End, Fresh
<1>f. ASSUME pc \in Restoring, NEW files \in SUBSET Files, Clone(files)
      PROVE  stage' \in [Pids -> Directories]
  <2>1. chosen.files \in Directories /\ pid \in Pids /\ stage[pid] \in Directories
    BY <1>a, <1>b, <1>f DEF Shaped, Restoring, Points, TypeFiles, RInv
  <2> DEFINE new == [f \in Files |-> IF f \in files THEN chosen.files[f] ELSE stage[pid][f]]
  <2>2. new \in Directories
    BY <2>1 DEF Directories
  <2>3. stage' = [stage EXCEPT ![pid] = new]
    BY <1>f DEF Clone
  <2> HIDE DEF new
  <2> QED
    BY <1>a, <2>2, <2>3 DEF TypeFiles
<1>g. /\ \A f \in Files : live[f] # None => live[f] \in Logs
      /\ Found(live) \subseteq [file : Files, content : Logs]
  <2>1. \A f \in Files : live[f] # None => live[f] \in Logs
    BY <1>a, ContentTypes DEF TypeFiles
  <2> QED
    BY <2>1 DEF Found
<1> USE <1>a DEF TypeFiles, Goto
<1>1. CASE Start
  BY <1>1 DEF Start
<1>2. CASE Commit
  <2> DEFINE base == IF live["wal"] = None THEN live["db"].head ELSE live["wal"].base
             log == Log(base, commits + 1)
  <2>1. /\ live' = [live EXCEPT !["wal"] = log]
        /\ UNCHANGED <<temporary, stage, rollback, daily, weekly, pc, chosen, before, prior>>
        /\ acknowledged' = commits + 1 /\ pc = "serving" /\ commits < MaxCommits
    BY <1>2 DEF Commit
  <2>2. base \in Versions /\ commits + 1 \in Versions
    BY <1>c, <2>1, ContentTypes DEF TypeControl, Versions
  <2>3. log \in Contents
    BY <2>2, ContentTypes
  <2> HIDE DEF log
  <2>4. LET f == [live EXCEPT !["wal"] = log] IN
          f \in Directories /\ f["db"] = live["db"]
    BY <1>c, <2>3, FileReplaced
  <2> QED
    BY <2>1, <2>2, <2>4
<1>3. CASE SaveCookies
  <2>1. Page(0) \in Contents
    BY <1>c, ContentTypes DEF Page
  <2>2. /\ live' = [live EXCEPT !["cookie"] = Page(0)]
        /\ UNCHANGED <<temporary, stage, rollback, daily, weekly, pc, chosen,
                       acknowledged, before, prior>>
    BY <1>3 DEF SaveCookies
  <2>3. LET f == [live EXCEPT !["cookie"] = Page(0)] IN
          f \in Directories /\ f["db"] = live["db"]
    BY <1>c, <2>1, FileReplaced
  <2> QED
    BY <2>2, <2>3
<1>4. CASE Stop
  <2>1. Checkpointed(live) \in Directories
    BY <1>4, CheckpointedFiles DEF Stop
  <2> QED
    BY <1>4, <1>e, <2>1 DEF Stop
<1>5. CASE Create
  BY <1>5 DEF Create, Begin
<1>6. CASE Source
  <2>1. live["db"] # None => /\ Checkpointed(live) \in Directories
                             /\ Checkpointed(live)["db"] # None
    BY CheckpointedFiles
  <2> QED
    BY <1>6, <2>1 DEF Source
<1>7. CASE Copy
  <2>1. Archive(live) \in Directories
    BY <1>7, ArchiveFiles DEF Copy
  <2>2. UNCHANGED <<live, stage, rollback, daily, weekly, chosen, acknowledged, before, prior>>
    BY <1>7 DEF Copy
  <2>3. temporary' \in [Pids -> Directories \cup {None}] /\ pc' \notin {"serving", "copy"}
    BY <1>7, <2>1 DEF Copy
  <2> QED
    BY <2>2, <2>3
<1>8. CASE Publish
  <2> DEFINE point == [id |-> day, files |-> temporary[pid], state |-> "sound"]
  <2>1. temporary[pid] \in Directories
    BY <1>8, <1>b DEF RInv, Shaped, Publish
  <2>2. point \in Points
    BY <2>1 DEF Points, PointStates, TypeControl
  <2> HIDE DEF point
  <2>3. daily' = daily \/ daily' = daily \cup {point}
    BY <1>8 DEF Publish, point
  <2>4. temporary' = temporary \/ temporary' = [temporary EXCEPT ![pid] = None]
    BY <1>8 DEF Publish
  <2>5. daily' \in SUBSET Points /\ temporary' \in [Pids -> Directories \cup {None}]
    BY <2>2, <2>3, <2>4
  <2>6. /\ UNCHANGED <<live, stage, rollback, weekly, chosen, acknowledged, before, prior>>
        /\ pc' \notin {"serving", "copy"}
    BY <1>8 DEF Publish
  <2> QED
    BY <2>5, <2>6
<1>9. CASE Week
  BY <1>9 DEF Week
<1>10. CASE RetainDaily
  <2>1. daily' = daily \/ \E p \in daily : daily' = Shrunk(daily, p)
    BY <1>10 DEF RetainDaily, Excess
  <2>2. daily' \in SUBSET Points
    BY <2>1, ShrunkPoints
  <2>3. /\ UNCHANGED <<live, temporary, stage, rollback, weekly, chosen,
                       acknowledged, before, prior>>
        /\ pc' \notin {"serving", "copy"}
    BY <1>10 DEF RetainDaily
  <2> QED
    BY <2>2, <2>3
<1>11. CASE RetainWeekly
  <2>1. weekly' = weekly \/ \E p \in weekly : weekly' = Shrunk(weekly, p)
    BY <1>11 DEF RetainWeekly, Excess
  <2>2. weekly' \in SUBSET Points
    BY <2>1, ShrunkPoints
  <2>3. /\ UNCHANGED <<live, temporary, stage, rollback, daily, chosen,
                       acknowledged, before, prior>>
        /\ pc' \notin {"serving", "copy"}
    BY <1>11 DEF RetainWeekly
  <2> QED
    BY <2>2, <2>3
<1>12. CASE CreateFails
  BY <1>12, <1>b, ContentTypes DEF CreateFails
<1>13. CASE Discard
  BY <1>13, <1>e DEF Discard
<1>14. ASSUME NEW p \in daily \cup weekly, Restore(p) PROVE TypeFiles'
  BY <1>14 DEF Restore, Begin, Fresh
<1>15. CASE Validate
  <2>1. CASE UNCHANGED <<attempt, history>> /\ Goto("stage")
    BY <1>15, <2>1 DEF Validate
  <2>2. CASE End /\ Settle
    BY <1>15, <1>d, <1>e, <2>2 DEF Validate
  <2> QED
    BY <1>15, <2>1, <2>2 DEF Validate
<1>16. CASE ValidateFails
  BY <1>16, <1>d, <1>e DEF ValidateFails
<1>17. CASE Stage
  <2>1. stage' \in [Pids -> Directories]
    BY <1>17, <1>f DEF Stage, Restoring, Wanted
  <2>2. prior' \subseteq [file : Files, content : Logs]
    BY <1>17, <1>g DEF Stage
  <2>3. /\ UNCHANGED <<live, temporary, rollback, daily, weekly, chosen, acknowledged, before>>
        /\ pc' \notin {"serving", "copy"}
    BY <1>17 DEF Stage
  <2> QED
    BY <2>1, <2>2, <2>3
<1>18. CASE StageFails
  <2>1. stage' \in [Pids -> Directories]
    BY <1>18, <1>f DEF StageFails, Restoring, Wanted
  <2>2. /\ UNCHANGED <<live, temporary, rollback, daily, weekly, chosen, acknowledged,
                       before, prior>>
        /\ pc' \notin {"serving", "copy"}
    BY <1>18 DEF StageFails, Fail
  <2> QED
    BY <2>1, <2>2
<1>19. CASE Aside
  <2>1. Target \in Files /\ pid \in Pids /\ live[Target] \in Contents
    BY <1>19, <1>b, TargetIsFile DEF Aside, Directories
  <2>2. /\ [live EXCEPT ![Target] = None] \in Directories
        /\ [rollback[pid] EXCEPT ![Target] = live[Target]] \in Directories
    BY <2>1, ContentTypes, FileReplaced
  <2>3. \/ UNCHANGED <<live, rollback>>
        \/ /\ live' = [live EXCEPT ![Target] = None]
           /\ rollback' = [rollback EXCEPT ![pid] = [rollback[pid] EXCEPT ![Target] = live[Target]]]
    BY <1>19 DEF Aside
  <2>4. live' \in Directories /\ rollback' \in [Pids -> Directories]
    BY <2>2, <2>3
  <2>5. /\ UNCHANGED <<temporary, stage, daily, weekly, chosen, acknowledged, before, prior>>
        /\ pc' \notin {"serving", "copy"}
    BY <1>19 DEF Aside
  <2> QED
    BY <2>4, <2>5
<1>20. CASE Install
  <2>1. Target \in Files /\ pid \in Pids /\ stage[pid][Target] \in Contents
    BY <1>20, <1>b, TargetIsFile DEF Install, Directories
  <2>2. /\ [live EXCEPT ![Target] = stage[pid][Target]] \in Directories
        /\ [stage[pid] EXCEPT ![Target] = None] \in Directories
    BY <2>1, ContentTypes, FileReplaced
  <2>3. \/ UNCHANGED <<live, stage>>
        \/ /\ live' = [live EXCEPT ![Target] = stage[pid][Target]]
           /\ stage' = [stage EXCEPT ![pid] = [stage[pid] EXCEPT ![Target] = None]]
    BY <1>20 DEF Install
  <2>4. live' \in Directories /\ stage' \in [Pids -> Directories]
    BY <2>2, <2>3
  <2>5. /\ UNCHANGED <<temporary, rollback, daily, weekly, chosen, acknowledged, before, prior>>
        /\ pc' \notin {"serving", "copy"}
    BY <1>20 DEF Install
  <2> QED
    BY <2>4, <2>5
<1>21. CASE Check
  <2>1. Checkpointed(live) = live
    BY <1>21, ExchangedFiles DEF Check
  <2> QED
    BY <1>21, <2>1 DEF Check, Fail
<1>22. CASE Sync
  <2>1. Effective(live) \in Versions
    BY <1>22, ExchangedFiles, EffectiveType DEF Sync
  <2> QED
    BY <1>22, <2>1 DEF Sync
<1>23. CASE InstallFails
  BY <1>23 DEF InstallFails, Fail
<1>24. CASE Uninstall
  <2> DEFINE f == Targets[Last(installed)]
  <2>1. f \in Files
    BY <1>24, LastTypes, TargetsAreFiles DEF Uninstall, TypeControl, T
  <2>2. [live EXCEPT ![f] = None] \in Directories
    BY <2>1, ContentTypes, FileReplaced
  <2> QED
    BY <1>24, <2>2 DEF Uninstall
<1>25. CASE MoveBack
  <2> DEFINE f == Targets[Last(moved)]
  <2>1. f \in Files /\ pid \in Pids /\ rollback[pid][f] \in Contents
    <3>1. f \in Files
      BY <1>25, LastTypes, TargetsAreFiles DEF MoveBack, TypeControl, T
    <3> QED
      BY <1>25, <1>b, <3>1 DEF MoveBack, Directories
  <2>2. /\ [live EXCEPT ![f] = rollback[pid][f]] \in Directories
        /\ [rollback[pid] EXCEPT ![f] = None] \in Directories
    BY <2>1, ContentTypes, FileReplaced
  <2>3. /\ live' = [live EXCEPT ![f] = rollback[pid][f]]
        /\ rollback' = [rollback EXCEPT ![pid] = [rollback[pid] EXCEPT ![f] = None]]
    BY <1>25 DEF MoveBack
  <2>4. live' \in Directories /\ rollback' \in [Pids -> Directories]
    BY <2>2, <2>3
  <2>5. /\ UNCHANGED <<temporary, stage, daily, weekly, chosen, acknowledged, before, prior>>
        /\ pc' \notin {"serving", "copy"}
    BY <1>25 DEF MoveBack
  <2> QED
    BY <2>4, <2>5
<1>26. CASE UndoFails
  BY <1>26 DEF UndoFails
<1>27. CASE Undone
  BY <1>27 DEF Undone
<1>28. CASE RemoveStage
  BY <1>28, ContentTypes DEF RemoveStage
<1>29. CASE RemoveRollback
  <2>1. rollback' \in [Pids -> Directories]
    BY <1>29, ContentTypes DEF RemoveRollback
  <2> QED
    BY <1>29, <1>d, <1>e, <2>1 DEF RemoveRollback
<1>30. CASE RemovalFails
  <2>1. CASE UNCHANGED <<attempt, history>> /\ Goto("removeRollback")
    BY <1>30, <2>1 DEF RemovalFails
  <2>2. CASE End /\ (Settle \/ UNCHANGED history)
    BY <1>30, <1>d, <1>e, <2>2 DEF RemovalFails
  <2> QED
    BY <1>30, <2>1, <2>2 DEF RemovalFails
<1>31. CASE Crash
  <2>1. temporary' \in [Pids -> Directories \cup {None}]
    BY <1>31, ContentTypes DEF Crash
  <2>2. stage' \in [Pids -> Directories]
    BY <1>31, <1>f DEF Crash, Restoring, Wanted
  <2>3. /\ UNCHANGED <<live, rollback, daily, weekly>>
        /\ End /\ (Settle \/ UNCHANGED history)
    BY <1>31 DEF Crash
  <2> QED
    BY <1>d, <1>e, <2>1, <2>2, <2>3
<1>32. CASE Tick
  BY <1>32 DEF Tick
<1>33. ASSUME NEW p \in daily, Damage(p) PROVE TypeFiles'
  <2>1. \A q \in daily : [q EXCEPT !.state = "damaged"] \in Points
    BY PointChanged DEF PointStates
  <2> QED
    BY <1>33, <2>1 DEF Damage
<1>34. CASE UNCHANGED vars
  BY <1>34 DEF vars
<1> QED
  BY <1>1, <1>2, <1>3, <1>4, <1>5, <1>6, <1>7, <1>8, <1>9, <1>10, <1>11,
     <1>12, <1>13, <1>14, <1>15, <1>16, <1>17, <1>18, <1>19, <1>20, <1>21,
     <1>22, <1>23, <1>24, <1>25, <1>26, <1>27, <1>28, <1>29, <1>30, <1>31,
     <1>32, <1>33, <1>34
     DEF Next, Backup, Restoration

\* Every step keeps the types.
LEMMA TypeStep == RInv /\ [Next]_vars => TypeOK'
<1> SUFFICES ASSUME RInv, [Next]_vars PROVE TypeOK'
  OBVIOUS
<1>1. TypeControl' /\ TypeFlags' /\ TypeFiles'
  BY ControlStep, FlagsStep, FilesStep, TypeParts DEF RInv
<1> QED
  BY <1>1 DEF TypeOK, TypeControl, TypeFlags, TypeFiles

-----------------------------------------------------------------------------
(* The steps of a restore and those outside one *)

\* The steps after which a restore is under way.
RestoreStep ==
  \/ \E p \in daily \cup weekly : Restore(p)
  \/ Validate \/ Stage \/ StageFails \/ Aside \/ Install \/ Check \/ Sync
  \/ InstallFails \/ Uninstall \/ MoveBack \/ UndoFails \/ Undone
  \/ RemoveStage \/ RemovalFails \/ UNCHANGED vars

LEMMA RestoreSteps ==
  ASSUME [Next]_vars, pc' \in Restoring
  PROVE  RestoreStep
<1> USE DEF Restoring, Goto, End, Begin
<1>1. ~(Start \/ Commit \/ SaveCookies \/ Stop)
  BY DEF Start, Commit, SaveCookies, Stop
<1>2. ~(Create \/ Source \/ Copy \/ Publish \/ Week)
  BY DEF Create, Source, Copy, Publish, Week
<1>3. ~(RetainDaily \/ RetainWeekly \/ CreateFails \/ Discard)
  BY DEF RetainDaily, RetainWeekly, CreateFails, Discard
<1>4. ~(ValidateFails \/ RemoveRollback \/ Crash \/ Tick)
  BY DEF ValidateFails, RemoveRollback, Crash, Tick
<1>5. ASSUME NEW p \in daily, Damage(p) PROVE FALSE
  BY <1>5 DEF Damage
<1> QED
  BY <1>1, <1>2, <1>3, <1>4, <1>5 DEF RestoreStep, Next, Backup, Restoration

\* A restore under way keeps its point and what it found.
LEMMA ChosenStands ==
  ASSUME [Next]_vars, pc' \in Restoring, ~\E p \in daily \cup weekly : Restore(p)
  PROVE  /\ RestoreStep /\ pc \in Restoring
         /\ UNCHANGED <<pid, chosen, before, daily, weekly, temporary, reused>>
         /\ pc' # "validate" => pc # "validate" \/ Validate
         /\ ~Sync => UNCHANGED <<intact, torn, acknowledged>>
         /\ ~Sync /\ ~Stage => UNCHANGED prior
<1> USE DEF Restoring, Goto, Fail
<1>a. RestoreStep
  BY RestoreSteps
<1>1. CASE Validate
  <2>1. Goto("stage") /\ UNCHANGED <<attempt, history, points, directories>>
    BY <1>1 DEF Validate, End
  <2> QED
    BY <1>a, <1>1, <2>1 DEF Validate
<1>2. CASE Stage
  BY <1>a, <1>2 DEF Stage
<1>3. CASE StageFails
  BY <1>a, <1>3 DEF StageFails
<1>4. CASE Aside
  BY <1>a, <1>4 DEF Aside
<1>5. CASE Install
  BY <1>a, <1>5 DEF Install
<1>6. CASE Check
  BY <1>a, <1>6 DEF Check
<1>7. CASE Sync
  BY <1>a, <1>7 DEF Sync
<1>8. CASE InstallFails
  BY <1>a, <1>8 DEF InstallFails
<1>9. CASE Uninstall
  BY <1>a, <1>9 DEF Uninstall
<1>10. CASE MoveBack
  BY <1>a, <1>10 DEF MoveBack
<1>11. CASE UndoFails
  BY <1>a, <1>11 DEF UndoFails
<1>12. CASE Undone
  BY <1>a, <1>12 DEF Undone
<1>13. CASE RemoveStage
  BY <1>a, <1>13 DEF RemoveStage
<1>14. CASE RemovalFails
  <2>1. pc = "removeStage" /\ Goto("removeRollback")
        /\ UNCHANGED <<attempt, history, points, directories>>
    BY <1>14 DEF RemovalFails, End
  <2> QED
    BY <1>a, <2>1
<1>15. CASE UNCHANGED vars
  BY <1>a, <1>15 DEF vars
<1> QED
  BY <1>a, <1>1, <1>2, <1>3, <1>4, <1>5, <1>6, <1>7, <1>8, <1>9, <1>10, <1>11, <1>12,
     <1>13, <1>14, <1>15 DEF RestoreStep

\* The steps that end a restore.
LEMMA EndSteps ==
  ASSUME TypeOK, Shaped, [Next]_vars, pc \in Restoring, pc' \notin Restoring
  PROVE  /\ End /\ Settle /\ UNCHANGED <<live, daily, weekly>>
         /\ \/ UNCHANGED rollback
            \/ /\ pc = "removeRollback" /\ ~errors
               /\ rollback' = [rollback EXCEPT ![pid] = Nothing]
<1> USE DEF Restoring, Goto, Fail
<1>a. chosen # None
  BY NoneAssumption DEF Shaped
<1>1. CASE Validate
  <2>1. End /\ Settle
    BY <1>1 DEF Validate
  <2> QED
    BY <1>1, <2>1 DEF Validate
<1>2. CASE ValidateFails
  BY <1>2 DEF ValidateFails
<1>3. CASE RemoveRollback
  <2>1. CASE errors
    BY <1>3, <2>1 DEF RemoveRollback
  <2>2. CASE ~errors
    BY <1>3, <2>2 DEF RemoveRollback
  <2> QED
    BY <2>1, <2>2
<1>4. CASE RemovalFails
  <2>1. End /\ Settle
    BY <1>4 DEF RemovalFails
  <2> QED
    BY <1>4, <2>1 DEF RemovalFails
<1>5. CASE Crash
  <2>1. End /\ Settle
    BY <1>a, <1>5 DEF Crash
  <2> QED
    BY <1>5, <2>1 DEF Crash
<1>6. ~(Start \/ Commit \/ SaveCookies \/ Stop \/ Tick)
  BY DEF Start, Commit, SaveCookies, Stop, Tick
<1>7. ~Backup
  BY DEF Backup, Create, Begin, Source, Copy, Publish, Week, RetainDaily,
         RetainWeekly, CreateFails, Discard
<1>8. ~(Stage \/ StageFails \/ Aside \/ Install \/ Check \/ Sync \/ InstallFails
        \/ Uninstall \/ MoveBack \/ UndoFails \/ Undone \/ RemoveStage)
  BY DEF Stage, StageFails, Aside, Install, Check, Sync, InstallFails, Uninstall,
         MoveBack, UndoFails, Undone, RemoveStage
<1>9. ASSUME NEW p \in daily \cup weekly, Restore(p) PROVE FALSE
  BY <1>9 DEF Restore, Begin
<1>10. ASSUME NEW p \in daily, Damage(p) PROVE FALSE
  BY <1>10 DEF Damage
<1>11. ~UNCHANGED vars
  BY DEF vars
<1> QED
  BY <1>1, <1>2, <1>3, <1>4, <1>5, <1>6, <1>7, <1>8, <1>9, <1>10, <1>11
     DEF Next, Restoration

\* Outside a restore its directories and what is owed stay as they are.
LEMMA OutsideSteps ==
  ASSUME Shaped, [Next]_vars, pc \notin Restoring
  PROVE  /\ UNCHANGED <<stage, rollback, prior, intact, torn>>
         /\ \/ \E p \in daily \cup weekly : Restore(p)
            \/ pc' \notin Restoring /\ chosen' = None /\ UNCHANGED reused
<1> USE DEF Restoring, Goto
<1>a. chosen = None
  BY DEF Shaped
<1>1. CASE Start \/ Commit \/ SaveCookies \/ Stop \/ Tick
  BY <1>a, <1>1 DEF Start, Commit, SaveCookies, Stop, Tick, End
<1>2. CASE Create \/ Source \/ Copy \/ Publish \/ Week \/ RetainDaily \/ RetainWeekly
  BY <1>a, <1>2 DEF Create, Begin, Source, Copy, Publish, Week, RetainDaily, RetainWeekly
<1>3. CASE CreateFails \/ Discard
  BY <1>a, <1>3 DEF CreateFails, Discard, End
<1>4. CASE RemovalFails
  <2>1. End /\ UNCHANGED history
    BY <1>4 DEF RemovalFails
  <2> QED
    BY <1>4, <2>1 DEF RemovalFails, End
<1>5. CASE Crash
  <2>1. End /\ UNCHANGED history /\ UNCHANGED <<stage, rollback>>
    BY <1>a, <1>5 DEF Crash
  <2> QED
    BY <2>1 DEF End
<1>6. ASSUME NEW p \in daily \cup weekly, Restore(p)
      PROVE  UNCHANGED <<stage, rollback, prior, intact, torn>>
  BY <1>6 DEF Restore
<1>7. ~(Validate \/ ValidateFails \/ Stage \/ StageFails \/ Aside \/ Install \/ Check
        \/ Sync \/ InstallFails)
  BY DEF Validate, ValidateFails, Stage, StageFails, Aside, Install, Check, Sync,
         InstallFails
<1>8. ~(Uninstall \/ MoveBack \/ UndoFails \/ Undone \/ RemoveStage \/ RemoveRollback)
  BY DEF Uninstall, MoveBack, UndoFails, Undone, RemoveStage, RemoveRollback
<1>9. ASSUME NEW p \in daily, Damage(p)
      PROVE  /\ UNCHANGED <<stage, rollback, prior, intact, torn>>
             /\ pc' \notin Restoring /\ chosen' = None /\ UNCHANGED reused
  BY <1>a, <1>9 DEF Damage
<1>10. CASE UNCHANGED vars
  BY <1>a, <1>10 DEF vars
<1> QED
  BY <1>1, <1>2, <1>3, <1>4, <1>5, <1>6, <1>7, <1>8, <1>9, <1>10
     DEF Next, Backup, Restoration

-----------------------------------------------------------------------------
(* What is archived *)

\* A point is published, copied, emptied or damaged, and the files it had when
\* it was published stay those it stands for.
LEMMA PointsSteps ==
  ASSUME [Next]_vars
  PROVE  \/ UNCHANGED <<daily, weekly>>
         \/ Publish \/ Week
         \/ RetainDaily /\ UNCHANGED weekly /\ \E p \in daily : daily' = Shrunk(daily, p)
         \/ RetainWeekly /\ UNCHANGED daily /\ \E p \in weekly : weekly' = Shrunk(weekly, p)
         \/ \E p \in daily : Damage(p)
<1>1. CASE RetainDaily
  BY <1>1 DEF RetainDaily, Excess
<1>2. CASE RetainWeekly
  BY <1>2 DEF RetainWeekly, Excess
<1>3. CASE /\ ~RetainDaily /\ ~RetainWeekly /\ ~Publish /\ ~Week
           /\ ~\E p \in daily : Damage(p)
  BY <1>3 DEF Next, Backup, Restoration, Start, Commit, SaveCookies, Stop,
    Create, Source, Copy, CreateFails, Discard, Restore, Validate, ValidateFails,
    Stage, StageFails, Aside, Install, Check, Sync, InstallFails, Uninstall,
    MoveBack, UndoFails, Undone, RemoveStage, RemoveRollback, RemovalFails,
    Crash, Tick, vars
<1> QED
  BY <1>1, <1>2, <1>3

\* Every step keeps what is archived.
LEMMA ShapedStep == RInv /\ [Next]_vars => Shaped'
<1> SUFFICES ASSUME RInv, [Next]_vars PROVE Shaped'
  OBVIOUS
<1>a. TypeOK /\ Shaped
  BY DEF RInv
<1>1. \A p \in daily' \cup weekly' : Archived(p.files)
  <2>1. \A p \in daily \cup weekly, s \in PointStates :
          [p EXCEPT !.state = s].files = p.files
    BY <1>a, PointChanged DEF TypeOK
  <2>2. "torn" \in PointStates /\ "damaged" \in PointStates
    BY DEF PointStates
  <2>3. CASE UNCHANGED <<daily, weekly>>
    BY <1>a, <2>3 DEF Shaped
  <2>4. CASE Publish
    <3> DEFINE point == [id |-> day, files |-> temporary[pid], state |-> "sound"]
    <3>1. Archived(temporary[pid])
      BY <1>a, <2>4 DEF Publish, Shaped
    <3>2. Archived(point.files)
      BY <3>1
    <3>3. daily' \subseteq daily \cup {point} /\ weekly' = weekly
      BY <2>4 DEF Publish
    <3> HIDE DEF point
    <3> QED
      BY <1>a, <3>2, <3>3 DEF Shaped
  <2>5. CASE Week
    BY <1>a, <2>5 DEF Week, Shaped
  <2>6. ASSUME NEW p \in daily, weekly' = weekly, daily' = Shrunk(daily, p)
        PROVE  \A q \in daily' \cup weekly' : Archived(q.files)
    <3>1. Archived([p EXCEPT !.state = "torn"].files)
      BY <1>a, <2>1, <2>2 DEF Shaped
    <3> QED
      BY <1>a, <2>6, <3>1 DEF Shrunk, Shaped
  <2>7. ASSUME NEW p \in weekly, daily' = daily, weekly' = Shrunk(weekly, p)
        PROVE  \A q \in daily' \cup weekly' : Archived(q.files)
    <3>1. Archived([p EXCEPT !.state = "torn"].files)
      BY <1>a, <2>1, <2>2 DEF Shaped
    <3> QED
      BY <1>a, <2>7, <3>1 DEF Shrunk, Shaped
  <2>8. ASSUME NEW p \in daily, Damage(p)
        PROVE  \A q \in daily' \cup weekly' : Archived(q.files)
    <3>1. \A q \in daily : Archived([q EXCEPT !.state = "damaged"].files)
      BY <1>a, <2>1, <2>2 DEF Shaped
    <3> QED
      BY <1>a, <2>8, <3>1 DEF Damage, Shaped
  <2> QED
    BY <2>3, <2>4, <2>5, <2>6, <2>7, <2>8, PointsSteps
<1>2. pc' = "publish" => /\ temporary'[pid'] # None /\ Archived(temporary'[pid'])
                         /\ intact' => Effective(temporary'[pid']) = acknowledged'
  <2>1. CASE Copy
    <3>1. /\ live["db"] # None /\ live \in Directories /\ pid \in Pids
          /\ intact => Fits(live)
      BY <1>a, <2>1, PidTypes DEF RInv, Current, Restoring, Copy, TypeOK
    <3>2. /\ Archive(live) \in Directories /\ Archived(Archive(live))
          /\ intact => Effective(Archive(live)) = acknowledged
      BY <3>1, ArchiveFiles DEF Fits
    <3>3. UNCHANGED <<pid, acknowledged, intact>>
      <4>1. UNCHANGED history
        BY <2>1 DEF Copy
      <4>2. UNCHANGED pid
        BY <2>1 DEF Copy, Goto
      <4> QED
        BY <4>1, <4>2
    <3>4. pc' = "publish" => temporary'[pid] = Archive(live)
      BY <1>a, <2>1, <3>1 DEF Copy, Goto, TypeOK
    <3> QED
      BY <3>2, <3>3, <3>4, ContentTypes
  <2>2. CASE UNCHANGED vars
    BY <1>a, <2>2 DEF vars, Shaped
  <2>3. CASE ~Copy /\ ~UNCHANGED vars
    <3> USE DEF Goto, End, Begin
    <3>1. Next
      BY <2>3
    <3>2. CASE Start \/ Commit \/ SaveCookies \/ Stop \/ Crash \/ Tick
      BY <3>2 DEF Start, Commit, SaveCookies, Stop, Crash, Tick
    <3>3. CASE Backup
      BY <2>3, <3>3 DEF Backup, Create, Source, Publish, Week, RetainDaily,
                        RetainWeekly, CreateFails, Discard
    <3>4. CASE Restoration
      BY <3>4 DEF Restoration, Restore, Validate, ValidateFails, Stage, StageFails,
                  Aside, Install, Check, Sync, InstallFails, Uninstall, MoveBack,
                  UndoFails, Undone, RemoveStage, RemoveRollback, RemovalFails, Fail
    <3>5. ASSUME NEW p \in daily, Damage(p) PROVE pc' # "publish"
      BY <3>5 DEF Damage
    <3> QED
      BY <3>1, <3>2, <3>3, <3>4, <3>5 DEF Next
  <2> QED
    BY <2>1, <2>2, <2>3
<1>b. ASSUME NEW p \in daily \cup weekly, Restore(p)
      PROVE  pc' = "validate" /\ p \in Points /\ Archived(p.files) /\ chosen' = p
  BY <1>a, <1>b DEF Shaped, Restore, Begin, TypeOK
<1>3. IF pc' \in Restoring THEN chosen' \in Points /\ Archived(chosen'.files)
                           ELSE chosen' = None
  <2>1. CASE \E p \in daily \cup weekly : Restore(p)
    BY <1>b, <2>1 DEF Restoring
  <2>2. CASE pc' \in Restoring /\ ~\E p \in daily \cup weekly : Restore(p)
    BY <1>a, <2>2, ChosenStands DEF Shaped
  <2>3. CASE pc' \notin Restoring /\ pc \in Restoring
    BY <1>a, <2>3, EndSteps DEF End
  <2>4. CASE pc' \notin Restoring /\ pc \notin Restoring
    BY <1>a, <1>b, <2>4, OutsideSteps DEF Restoring
  <2> QED
    BY <2>1, <2>2, <2>3, <2>4
<1>4. pc' \in Restoring \ {"validate"} => chosen'.state = "sound"
  <2>1. ASSUME NEW p \in daily \cup weekly, Restore(p) PROVE pc' = "validate"
    BY <1>b, <2>1
  <2>2. CASE Validate
    <3>1. CASE chosen.state = "sound"
      BY <2>2, <3>1 DEF Validate, Goto
    <3>2. CASE chosen.state # "sound"
      BY <2>2, <3>2 DEF Validate, End, Restoring
    <3> QED
      BY <3>1, <3>2
  <2>3. CASE /\ pc' \in Restoring \ {"validate"} /\ ~\E p \in daily \cup weekly : Restore(p)
             /\ ~Validate
    BY <1>a, <2>3, ChosenStands DEF Shaped
  <2> QED
    BY <2>1, <2>2, <2>3
<1>5. \A p \in Pids : stage'[p]["wal"] = None /\ stage'[p]["cookie"] = None
  <2>a. /\ \A p \in Pids : stage[p]["wal"] = None /\ stage[p]["cookie"] = None
        /\ stage \in [Pids -> Directories]
        /\ "wal" \in Files /\ "cookie" \in Files
    BY <1>a DEF Shaped, TypeOK, Files
  <2>1. ASSUME pc \in Restoring, NEW files \in SUBSET Files, Clone(files)
        PROVE  \A p \in Pids : stage'[p]["wal"] = None /\ stage'[p]["cookie"] = None
    <3> DEFINE new == [f \in Files |-> IF f \in files THEN chosen.files[f] ELSE stage[pid][f]]
    <3>1. chosen.files["wal"] = None /\ chosen.files["cookie"] = None /\ pid \in Pids
      BY <1>a, <2>1, PidTypes DEF Shaped, Archived, Restoring
    <3>2. new["wal"] = None /\ new["cookie"] = None
      BY <2>a, <3>1
    <3>3. stage' = [stage EXCEPT ![pid] = new]
      BY <2>1 DEF Clone
    <3> HIDE DEF new
    <3> QED
      BY <2>a, <3>2, <3>3
  <2>2. CASE Stage
    BY <2>1, <2>2 DEF Stage, Restoring, Wanted
  <2>3. CASE StageFails
    BY <2>1, <2>3 DEF StageFails, Restoring, Wanted
  <2>4. CASE Crash
    <3>1. CASE UNCHANGED stage
      BY <2>a, <3>1
    <3>2. CASE pc = "stage" /\ \E files \in SUBSET (Wanted \ Held) : Clone(files)
      BY <2>1, <3>2 DEF Restoring, Wanted
    <3> QED
      BY <2>4, <3>1, <3>2 DEF Crash
  <2>5. CASE Install
    <3>1. stage[pid] \in Directories /\ pid \in Pids /\ Target \in Files
      BY <1>a, <2>5, PidTypes, TargetIsFile DEF Install, TypeOK
    <3> DEFINE new == [stage[pid] EXCEPT ![Target] = None]
    <3>2. new["wal"] = None /\ new["cookie"] = None
      <4>1. \A g \in Files : new[g] = None \/ new[g] = stage[pid][g]
        BY <3>1, ContentTypes, FileReplaced
      <4> HIDE DEF new
      <4> QED
        BY <2>a, <3>1, <4>1
    <3>3. stage' = stage \/ stage' = [stage EXCEPT ![pid] = new]
      BY <2>5 DEF Install
    <3> HIDE DEF new
    <3> QED
      BY <2>a, <3>1, <3>2, <3>3
  <2>6. CASE RemoveStage
    <3>1. stage' = [stage EXCEPT ![pid] = Nothing]
      BY <2>6 DEF RemoveStage
    <3>2. Nothing["wal"] = None /\ Nothing["cookie"] = None
      BY <2>a DEF Nothing
    <3> QED
      BY <2>a, <3>1, <3>2
  <2>7. CASE ~Stage /\ ~StageFails /\ ~Crash /\ ~Install /\ ~RemoveStage
    <3>1. UNCHANGED stage
      BY <2>7 DEF Next, Backup, Restoration, Start, Commit, SaveCookies, Stop,
        Create, Source, Copy, Publish, Week, RetainDaily, RetainWeekly, CreateFails,
        Discard, Restore, Validate, ValidateFails, Aside, Check, Sync, InstallFails,
        Uninstall, MoveBack, UndoFails, Undone, RemoveRollback, RemovalFails, Tick,
        Damage, vars
    <3> QED
      BY <2>a, <3>1
  <2> QED
    BY <2>2, <2>3, <2>4, <2>5, <2>6, <2>7
<1> QED
  BY <1>1, <1>2, <1>3, <1>4, <1>5 DEF Shaped

\* Every step keeps the record of what a restore found in its directories.
LEMMA RecordedStep == RInv /\ [Next]_vars => Recorded'
<1> SUFFICES ASSUME RInv, [Next]_vars, pc' \in {"validate", "stage"}
             PROVE  /\ "stage" \notin reused' => stage'[pid'] = Nothing
                    /\ "rollback" \notin reused' => rollback'[pid'] = Nothing
  BY DEF Recorded
<1>1. ASSUME NEW p \in daily \cup weekly, Restore(p)
      PROVE  /\ "stage" \notin reused' => stage'[pid'] = Nothing
             /\ "rollback" \notin reused' => rollback'[pid'] = Nothing
  BY <1>1 DEF Restore
<1>2. CASE Validate \/ UNCHANGED vars
  <2>1. /\ UNCHANGED <<stage, rollback, reused>> /\ pid' = pid
        /\ pc \in {"validate", "stage"}
    <3>1. CASE Validate
      <4>1. Goto("stage") /\ UNCHANGED <<attempt, history>>
        BY <3>1 DEF Validate, End
      <4> QED
        BY <3>1, <4>1 DEF Validate, Goto
    <3>2. CASE UNCHANGED vars
      BY <3>2 DEF vars
    <3> QED
      BY <1>2, <3>1, <3>2
  <2> QED
    BY <2>1 DEF RInv, Recorded
<1>3. CASE ~Validate /\ ~UNCHANGED vars /\ ~\E p \in daily \cup weekly : Restore(p)
  <2> USE DEF Goto, Fail
  <2>1. RestoreStep
    BY RestoreSteps DEF Restoring
  <2>2. ~(Stage \/ StageFails \/ Aside \/ Install \/ Check \/ Sync \/ InstallFails)
    BY DEF Stage, StageFails, Aside, Install, Check, Sync, InstallFails
  <2>3. ~(Uninstall \/ MoveBack \/ UndoFails \/ Undone \/ RemoveStage \/ RemovalFails)
    BY DEF Uninstall, MoveBack, UndoFails, Undone, RemoveStage, RemovalFails, End
  <2> QED
    BY <1>3, <2>1, <2>2, <2>3 DEF RestoreStep
<1> QED
  BY <1>1, <1>2, <1>3

-----------------------------------------------------------------------------
(* The targets of a restore *)

\* A step that does not touch a target.
Same(j) ==
  /\ live'[T(j)] = live[T(j)]
  /\ rollback'[pid][T(j)] = rollback[pid][T(j)]
  /\ stage'[pid][T(j)] = stage[pid][T(j)]
  /\ j \in moved' <=> j \in moved
  /\ j \in installed' <=> j \in installed

\* Such a target stays what it was.
LEMMA SameTarget ==
  ASSUME NEW j \in 1..4, Same(j), UNCHANGED <<pid, chosen, before, reused>>
  PROVE  /\ Untouched(j) => Untouched(j)'
         /\ Removed(j) => Removed(j)'
         /\ Exchanged(j) => Exchanged(j)'
         /\ errors' = errors /\ Returning(j) => Returning(j)'
<1>1. T(j)' = T(j)
  BY DEF T
<1>2. /\ live'[T(j)] = live[T(j)] /\ before'[T(j)] = before[T(j)]
      /\ rollback'[pid'][T(j)] = rollback[pid][T(j)]
      /\ stage'[pid'][T(j)] = stage[pid][T(j)]
      /\ chosen'.files[T(j)] = chosen.files[T(j)] /\ reused' = reused
  BY DEF Same
<1>3. j \in moved' <=> j \in moved
  BY DEF Same
<1>4. j \in installed' <=> j \in installed
  BY DEF Same
<1> HIDE DEF T
<1>5. ASSUME Untouched(j) PROVE Untouched(j)'
  BY <1>1, <1>2, <1>3, <1>4, <1>5 DEF Untouched, Staged
<1>6. ASSUME Removed(j) PROVE Removed(j)'
  <2>1. (before[T(j)] # None => rollback[pid][T(j)] = before[T(j)])'
    BY <1>1, <1>2, <1>6 DEF Removed
  <2>2. (j \in moved <=> before[T(j)] # None)'
    BY <1>1, <1>2, <1>3, <1>6 DEF Removed
  <2> QED
    BY <1>1, <1>2, <1>4, <1>6, <2>1, <2>2 DEF Removed, Staged
<1>7. ASSUME Exchanged(j) PROVE Exchanged(j)'
  <2>1. (before[T(j)] # None => rollback[pid][T(j)] = before[T(j)])'
    BY <1>1, <1>2, <1>7 DEF Exchanged
  <2>2. (j \in moved <=> before[T(j)] # None)'
    BY <1>1, <1>2, <1>3, <1>7 DEF Exchanged
  <2>3. (j \in installed <=> live[T(j)] # None)'
    BY <1>1, <1>2, <1>4, <1>7 DEF Exchanged
  <2> QED
    BY <1>1, <1>2, <1>7, <2>1, <2>2, <2>3 DEF Exchanged, Staged
<1>8. ASSUME errors' = errors, Returning(j) PROVE Returning(j)'
  <2> DEFINE B == before[T(j)]
             L == live[T(j)]
             R == rollback[pid][T(j)]
  <2>1. /\ (live[T(j)])' = L /\ (rollback[pid][T(j)])' = R /\ (before[T(j)])' = B
    BY <1>1, <1>2
  <2> QED
    BY <1>3, <1>4, <1>8, <2>1 DEF Returning
<1> QED
  BY <1>5, <1>6, <1>7, <1>8

\* Wherever a restore stops, each target can go back.
LEMMA CanReturn ==
  ASSUME NEW j \in 1..4, ~errors, Untouched(j) \/ Removed(j) \/ Exchanged(j)
  PROVE  Returning(j)
  BY DEF Untouched, Removed, Exchanged, Returning

\* A file of a directory is replaced and no other.
LEMMA TargetReplaced ==
  ASSUME NEW files \in Directories, NEW i \in 1..4, NEW c \in Contents
  PROVE  /\ [files EXCEPT ![T(i)] = c][T(i)] = c
         /\ \A j \in 1..4 : j # i => [files EXCEPT ![T(i)] = c][T(j)] = files[T(j)]
<1>1. T(i) \in Files /\ \A j \in 1..4 : T(j) \in Files /\ (j # i => T(j) # T(i))
  BY TargetsAreFiles
<1>2. files \in [Files -> Contents]
  BY DEF Directories
<1> HIDE DEF T
<1> QED
  BY <1>1, <1>2

\* What Aside does to its target and to the others.
LEMMA AsideTargets ==
  ASSUME TypeOK, Aside
  PROVE  /\ \A j \in 1..4 : j # next => Same(j)
         /\ IF live[Target] = None
            THEN Same(next)
            ELSE /\ live'[Target] = None
                 /\ rollback'[pid][Target] = live[Target]
                 /\ next \in moved'
         /\ UNCHANGED <<stage, installed>>
<1>a. /\ Target = T(next) /\ next \in 1..4 /\ pid \in Pids
      /\ live \in Directories /\ live[Target] \in Contents
      /\ rollback \in [Pids -> Directories] /\ rollback[pid] \in Directories
  BY TargetIsFile, PidTypes DEF Aside, TypeOK, Directories
<1>1. CASE live[Target] = None
  BY <1>1 DEF Aside, Same
<1>2. CASE live[Target] # None
  <2> DEFINE a == [live EXCEPT ![T(next)] = None]
             b == [rollback[pid] EXCEPT ![T(next)] = live[T(next)]]
  <2>1. /\ live' = a /\ rollback' = [rollback EXCEPT ![pid] = b]
        /\ moved' = moved \cup {next} /\ UNCHANGED <<stage, installed>>
    BY <1>a, <1>2 DEF Aside
  <2>2. a[T(next)] = None /\ \A j \in 1..4 : j # next => a[T(j)] = live[T(j)]
    BY <1>a, ContentTypes, TargetReplaced
  <2>3. /\ b[T(next)] = live[T(next)]
        /\ \A j \in 1..4 : j # next => b[T(j)] = rollback[pid][T(j)]
    BY <1>a, TargetReplaced
  <2> HIDE DEF a, b
  <2>4. rollback'[pid] = b
    BY <1>a, <2>1
  <2> QED
    BY <1>a, <1>2, <2>1, <2>2, <2>3, <2>4 DEF Same
<1> QED
  BY <1>1, <1>2

\* What Install does to its target and to the others.
LEMMA InstallTargets ==
  ASSUME TypeOK, Install
  PROVE  /\ \A j \in 1..4 : j # next => Same(j)
         /\ IF stage[pid][Target] = None
            THEN Same(next)
            ELSE live'[Target] = stage[pid][Target] /\ next \in installed'
         /\ UNCHANGED <<rollback, moved>>
<1>a. /\ Target = T(next) /\ next \in 1..4 /\ pid \in Pids
      /\ live \in Directories /\ stage \in [Pids -> Directories]
      /\ stage[pid] \in Directories /\ stage[pid][Target] \in Contents
  BY TargetIsFile, PidTypes DEF Install, TypeOK, Directories
<1>1. CASE stage[pid][Target] = None
  BY <1>1 DEF Install, Same
<1>2. CASE stage[pid][Target] # None
  <2> DEFINE a == [live EXCEPT ![T(next)] = stage[pid][T(next)]]
             b == [stage[pid] EXCEPT ![T(next)] = None]
  <2>1. /\ live' = a /\ stage' = [stage EXCEPT ![pid] = b]
        /\ installed' = installed \cup {next} /\ UNCHANGED <<rollback, moved>>
    BY <1>a, <1>2 DEF Install
  <2>2. /\ a[T(next)] = stage[pid][T(next)]
        /\ \A j \in 1..4 : j # next => a[T(j)] = live[T(j)]
    BY <1>a, TargetReplaced
  <2>3. \A j \in 1..4 : j # next => b[T(j)] = stage[pid][T(j)]
    BY <1>a, ContentTypes, TargetReplaced
  <2> HIDE DEF a, b
  <2>4. stage'[pid] = b
    BY <1>a, <2>1
  <2> QED
    BY <1>a, <1>2, <2>1, <2>2, <2>3, <2>4 DEF Same
<1> QED
  BY <1>1, <1>2

\* What Uninstall does.
LEMMA UninstallTargets ==
  ASSUME TypeOK, Uninstall, NEW i, i = Last(installed)
  PROVE  /\ i \in 1..4 /\ i \in installed
         /\ \A j \in 1..4 : j # i => Same(j)
         /\ live'[T(i)] = None /\ i \notin installed' /\ UNCHANGED <<rollback, moved>>
<1>a. /\ i \in installed /\ i \in 1..4 /\ live \in Directories
  BY LastTypes DEF Uninstall, TypeOK
<1> DEFINE a == [live EXCEPT ![T(i)] = None]
<1>1. /\ live' = a /\ installed' = installed \ {i}
      /\ UNCHANGED <<rollback, stage, moved>>
  BY DEF Uninstall, T
<1>2. a[T(i)] = None /\ \A j \in 1..4 : j # i => a[T(j)] = live[T(j)]
  BY <1>a, ContentTypes, TargetReplaced
<1> HIDE DEF a
<1> QED
  BY <1>a, <1>1, <1>2 DEF Same

\* What MoveBack does.
LEMMA MoveBackTargets ==
  ASSUME TypeOK, MoveBack, NEW i, i = Last(moved)
  PROVE  /\ i \in 1..4 /\ i \in moved
         /\ \A j \in 1..4 : j # i => Same(j)
         /\ live'[T(i)] = rollback[pid][T(i)]
         /\ i \notin moved' /\ installed = {} /\ installed' = {}
<1>a. /\ i \in moved /\ i \in 1..4 /\ live \in Directories /\ pid \in Pids
      /\ rollback \in [Pids -> Directories] /\ rollback[pid] \in Directories
      /\ rollback[pid][T(i)] \in Contents
  <2>1. i \in moved /\ i \in 1..4 /\ live \in Directories
    BY LastTypes DEF MoveBack, TypeOK
  <2>2. pid \in Pids /\ rollback \in [Pids -> Directories] /\ rollback[pid] \in Directories
    BY PidTypes DEF MoveBack, TypeOK
  <2>3. T(i) \in Files
    BY <2>1, TargetsAreFiles
  <2> QED
    BY <2>1, <2>2, <2>3 DEF Directories
<1> DEFINE a == [live EXCEPT ![T(i)] = rollback[pid][T(i)]]
           b == [rollback[pid] EXCEPT ![T(i)] = None]
<1>1. /\ live' = a /\ rollback' = [rollback EXCEPT ![pid] = b]
      /\ moved' = moved \ {i} /\ installed = {} /\ UNCHANGED <<stage, installed>>
  BY DEF MoveBack, T
<1>2. /\ a[T(i)] = rollback[pid][T(i)]
      /\ \A j \in 1..4 : j # i => a[T(j)] = live[T(j)]
  BY <1>a, TargetReplaced
<1>3. \A j \in 1..4 : j # i => b[T(j)] = rollback[pid][T(j)]
  BY <1>a, ContentTypes, TargetReplaced
<1> HIDE DEF a, b
<1>4. rollback'[pid] = b
  BY <1>a, <1>1
<1> QED
  BY <1>a, <1>1, <1>2, <1>3, <1>4 DEF Same

\* Steps that touch no target.
LEMMA AllSame ==
  ASSUME UNCHANGED <<live, rollback, stage, moved, installed>>
  PROVE  \A j \in 1..4 : Same(j)
  BY DEF Same

\* Every step of a restore keeps where its targets are.
LEMMA ProgressStep == RInv /\ [Next]_vars => Progress'
<1> SUFFICES ASSUME RInv, [Next]_vars, pc' \in Restoring PROVE Progress'
  BY DEF Progress, Restoring
<1>a. TypeOK /\ Progress /\ next \in 1..4
  BY DEF RInv, TypeOK
<1>b. pc \notin {"idle", "serving"} => pid \in Pids
  BY <1>a, PidTypes
<1> USE DEF Goto, Fail
<1>1. ASSUME NEW p \in daily \cup weekly, Restore(p) PROVE Progress'
  BY <1>1 DEF Restore, Begin, Fresh, Progress
<1>2. CASE ~\E p \in daily \cup weekly : Restore(p)
  <2>a. RestoreStep /\ UNCHANGED <<pid, chosen, before, reused>> /\ pc \in Restoring
    BY <1>2, ChosenStands
  <2>b. pid' = pid
    BY <2>a
  <2>1. CASE Validate
    <3>1. Goto("stage") /\ UNCHANGED <<attempt, live>>
      BY <2>1 DEF Validate, End, Restoring
    <3> QED
      BY <1>a, <2>1, <3>1 DEF Validate, Progress
  <2>2. CASE Stage \/ StageFails
    <3>1. /\ pc = "stage" /\ ~errors /\ outcome = "none" /\ live = before /\ next = 1
          /\ installed = {} /\ moved = {}
      <4>1. pc = "stage"
        BY <2>2 DEF Stage, StageFails
      <4> QED
        BY <1>a, <4>1 DEF Progress
    <3>2. UNCHANGED <<live, rollback, next, installed, moved, errors>>
      BY <2>2 DEF Stage, StageFails
    <3>3. CASE StageFails
      <4>1. pc' = "undo" /\ outcome' = "failed"
        BY <3>3 DEF StageFails
      <4>2. ASSUME NEW j \in 1..4 PROVE Returning(j)'
        <5>1. live'[T(j)] = before'[T(j)] /\ j \notin moved' /\ j \notin installed'
          BY <2>a, <3>1, <3>2
        <5> QED
          BY <5>1 DEF Returning, T
      <4> QED
        BY <4>1, <4>2 DEF Progress
    <3>4. CASE Stage
      <4> DEFINE new == [f \in Files |->
                           IF f \in Wanted THEN chosen.files[f] ELSE stage[pid][f]]
      <4>1. stage' = [stage EXCEPT ![pid] = new] /\ pc' = "aside" /\ outcome' = outcome
        BY <3>4 DEF Stage, Clone
      <4>2. \A f \in Files :
              new[f] = chosen.files[f] \/ (chosen.files[f] = None /\ new[f] = stage[pid][f])
        BY DEF Wanted
      <4> HIDE DEF new
      <4>3. stage'[pid] = new
        BY <1>a, <1>b, <3>1, <4>1 DEF TypeOK
      <4>4. ASSUME NEW j \in 1..4 PROVE Untouched(j)'
        <5>1. T(j) \in Files /\ T(j)' = T(j)
          BY TargetsAreFiles DEF T
        <5>2. Staged(j, new[T(j)])
          <6>1. CASE new[T(j)] = chosen.files[T(j)]
            BY <6>1 DEF Staged
          <6>2. CASE chosen.files[T(j)] = None /\ new[T(j)] = stage[pid][T(j)]
            <7>1. CASE "stage" \notin reused
              <8>1. stage[pid] = Nothing
                BY <3>1, <7>1 DEF RInv, Recorded
              <8> QED
                BY <5>1, <6>2, <8>1 DEF Staged, Nothing
            <7>2. CASE "stage" \in reused /\ j = 1
              BY <7>2 DEF Staged
            <7>3. CASE j # 1
              <8>1. j = 2 \/ j = 3 \/ j = 4
                BY <7>3
              <8>2. T(2) = "db" /\ T(3) = "wal" /\ T(4) = "cookie"
                BY DEF T, Targets
              <8>3. chosen.files["db"] # None
                BY <3>1, ContentTypes DEF RInv, Shaped, Restoring, Archived
              <8>4. stage[pid]["wal"] = None /\ stage[pid]["cookie"] = None
                BY <1>b, <3>1 DEF RInv, Shaped
              <8> QED
                BY <6>2, <8>1, <8>2, <8>3, <8>4 DEF Staged
            <7> QED
              BY <7>1, <7>2, <7>3
          <6> QED
            BY <4>2, <5>1, <6>1, <6>2
        <5>3. Staged(j, stage[pid][T(j)])'
          BY <2>a, <2>b, <4>3, <5>1, <5>2 DEF Staged
        <5>4. /\ (live[T(j)] = before[T(j)])'
              /\ j \notin moved' /\ j \notin installed'
          BY <2>a, <3>1, <3>2, <5>1
        <5> QED
          BY <5>3, <5>4 DEF Untouched
      <4>5. next' = 1 /\ ~errors'
        BY <3>1, <3>2
      <4>6. \A j \in 1..4 : ~(j < next')
        BY <4>5
      <4> QED
        BY <3>1, <4>1, <4>4, <4>5, <4>6 DEF Progress
    <3> QED
      BY <2>2, <3>3, <3>4
  <2>3. CASE Aside
    <3>1. /\ ~errors /\ outcome = "none"
          /\ \A j \in 1..4 : IF j < next THEN Exchanged(j) ELSE Untouched(j)
      BY <1>a, <2>3 DEF Aside, Progress
    <3>2. pc' = "install" /\ UNCHANGED <<next, errors, outcome, stage, installed>>
      BY <2>3 DEF Aside
    <3>3. \A j \in 1..4 : j # next => Same(j)
      BY <1>a, <2>3, AsideTargets
    <3>4. ASSUME NEW j \in 1..4, j < next PROVE Exchanged(j)'
      BY <1>a, <2>a, <3>1, <3>3, <3>4, SameTarget
    <3>5. ASSUME NEW j \in 1..4, j > next PROVE Untouched(j)'
      <4>1. j # next /\ ~(j < next)
        BY <1>a, <3>5
      <4> QED
        BY <2>a, <3>1, <3>3, <4>1, SameTarget
    <3>6. Removed(next)'
      <4>1. Untouched(next)
        BY <1>a, <3>1
      <4>2. CASE live[Target] = None
        <5>1. Same(next)
          BY <1>a, <2>3, <4>2, AsideTargets
        <5>2. PICK n \in 1..4 : n = next
          BY <1>a
        <5>3. Target = T(n) /\ Untouched(n)
          BY <1>a, <4>1, <5>2, TargetIsFile
        <5>4. Removed(n)
          <6> HIDE DEF T
          <6> QED
            BY <4>2, <5>3 DEF Untouched, Removed
        <5>5. Removed(n)'
          BY <2>a, <5>1, <5>2, <5>4, SameTarget
        <5> QED
          BY <3>2, <5>2, <5>5
      <4>3. CASE live[Target] # None
        <5>1. /\ live'[Target] = None /\ rollback'[pid][Target] = live[Target]
              /\ next \in moved' /\ UNCHANGED <<stage, installed>>
          BY <1>a, <2>3, <4>3, AsideTargets
        <5>2. Target = T(next) /\ T(next)' = T(next)
          BY <1>a, <3>2, TargetIsFile DEF T
        <5>3. Staged(next, stage[pid][T(next)])'
          <6> HIDE DEF T
          <6> QED
            BY <2>a, <2>b, <3>2, <4>1, <5>1, <5>2 DEF Untouched, Staged
        <5>4. live'[T(next)] = None /\ rollback'[pid][T(next)] = before[T(next)]
              /\ before[T(next)] # None /\ next \in moved' /\ next \notin installed'
          <6> HIDE DEF T
          <6> QED
            BY <4>1, <4>3, <5>1, <5>2 DEF Untouched
        <5> HIDE DEF T
        <5> QED
          BY <2>a, <2>b, <3>2, <5>2, <5>3, <5>4 DEF Removed
      <4> QED
        BY <4>2, <4>3
    <3>7. /\ \A j \in 1..4 : j < next' => Exchanged(j)'
          /\ \A j \in 1..4 : j > next' => Untouched(j)'
          /\ \A j \in 1..4 : j = next' => Removed(j)'
      BY <3>2, <3>4, <3>5, <3>6
    <3> QED
      BY <3>1, <3>2, <3>7 DEF Progress
  <2>4. CASE Install
    <3>1. /\ ~errors /\ outcome = "none" /\ Removed(next)
          /\ \A j \in 1..4 : j < next => Exchanged(j)
          /\ \A j \in 1..4 : j > next => Untouched(j)
      BY <1>a, <2>4 DEF Install, Progress
    <3>2. /\ UNCHANGED <<errors, outcome, rollback, moved>>
          /\ IF next = 4 THEN next' = next /\ pc' = "check"
                         ELSE next' = next + 1 /\ pc' = "aside"
      BY <2>4 DEF Install
    <3>3. \A j \in 1..4 : j # next => Same(j)
      BY <1>a, <2>4, InstallTargets
    <3>4. ASSUME NEW j \in 1..4, j < next PROVE Exchanged(j)'
      BY <1>a, <2>a, <3>1, <3>3, <3>4, SameTarget
    <3>5. ASSUME NEW j \in 1..4, j > next PROVE Untouched(j)'
      <4>1. j # next
        BY <1>a, <3>5
      <4> QED
        BY <2>a, <3>1, <3>3, <3>5, <4>1, SameTarget
    <3>6. ASSUME NEW j \in 1..4, j = next PROVE Exchanged(j)'
      <4>1. Target = T(j) /\ T(j)' = T(j)
        BY <1>a, <3>6, TargetIsFile DEF T
      <4>2. Removed(j)
        BY <3>1, <3>6
      <4>3. CASE stage[pid][Target] = None
        <5>1. Same(j)
          BY <1>a, <2>4, <3>6, <4>3, InstallTargets
        <5> HIDE DEF T
        <5>2. Staged(j, live[T(j)])
          BY <4>1, <4>2, <4>3 DEF Removed, Staged
        <5>3. Exchanged(j)
          BY <4>2, <5>2 DEF Removed, Exchanged
        <5> QED
          BY <2>a, <5>1, <5>3, SameTarget
      <4>4. CASE stage[pid][Target] # None
        <5>1. live'[T(j)] = stage[pid][T(j)] /\ j \in installed'
          BY <1>a, <2>4, <3>6, <4>1, <4>4, InstallTargets
        <5> HIDE DEF T, Target
        <5>2. Staged(j, live[T(j)])'
          BY <2>a, <4>1, <4>2, <5>1 DEF Removed, Staged
        <5>3. /\ (before[T(j)] # None => rollback[pid][T(j)] = before[T(j)])'
              /\ (j \in moved <=> before[T(j)] # None)'
          BY <2>a, <2>b, <3>2, <4>1, <4>2 DEF Removed
        <5>4. (j \in installed <=> live[T(j)] # None)'
          BY <4>1, <4>4, <5>1
        <5> QED
          BY <5>2, <5>3, <5>4 DEF Exchanged
      <4> QED
        BY <4>3, <4>4
    <3>7. CASE next = 4
      <4>1. \A j \in 1..4 : j < next \/ j = next
        BY <3>7
      <4>2. \A j \in 1..4 : Exchanged(j)'
        BY <3>4, <3>6, <4>1
      <4> QED
        BY <3>1, <3>2, <3>7, <4>2 DEF Progress
    <3>8. CASE next # 4
      <4>1. \A j \in 1..4 : IF j < next' THEN j < next \/ j = next ELSE j > next
        BY <1>a, <3>2, <3>8
      <4>2. \A j \in 1..4 : IF j < next' THEN Exchanged(j)' ELSE Untouched(j)'
        BY <3>4, <3>5, <3>6, <4>1
      <4> QED
        BY <3>1, <3>2, <3>8, <4>2 DEF Progress
    <3> QED
      BY <3>7, <3>8
  <2>5. CASE Check
    <3>1. ~errors /\ outcome = "none" /\ \A j \in 1..4 : Exchanged(j) /\ Returning(j)
      BY <1>a, <2>5, CanReturn DEF Check, Progress
    <3>2. UNCHANGED <<live, rollback, stage, moved, installed, errors>>
      <4>1. live' = live
        BY <2>5, ExchangedFiles DEF Check
      <4> QED
        BY <2>5, <4>1 DEF Check
    <3>3. \A j \in 1..4 : Exchanged(j)' /\ Returning(j)'
      BY <2>a, <3>1, <3>2, AllSame, SameTarget
    <3>4. \/ pc' = "sync" /\ outcome' = outcome
          \/ pc' = "undo" /\ outcome' = "failed"
      BY <2>5 DEF Check
    <3> QED
      BY <3>1, <3>2, <3>3, <3>4 DEF Progress
  <2>6. CASE Sync
    <3>1. \A j \in 1..4 : Staged(j, live[T(j)])
      BY <1>a, <2>6 DEF Sync, Progress, Exchanged
    <3>2. /\ pc' = "removeStage" /\ outcome' = "ok" /\ prior' = {} /\ live' = live
      BY <2>6 DEF Sync
    <3>3. ASSUME NEW j \in 1..4 PROVE Staged(j, live[T(j)])'
      <4>1. Staged(j, live[T(j)]) /\ T(j)' = T(j)
        BY <3>1 DEF T
      <4> HIDE DEF T
      <4> QED
        BY <2>a, <3>2, <4>1 DEF Staged
    <3> QED
      BY <3>2, <3>3 DEF Progress
  <2>7. CASE InstallFails
    <3>1. pc \in {"aside", "install", "check", "sync"} /\ ~errors
      BY <1>a, <2>7 DEF InstallFails, Progress
    <3>2. ASSUME NEW j \in 1..4 PROVE Untouched(j) \/ Removed(j) \/ Exchanged(j)
      <4>1. j < next \/ j = next \/ j > next
        BY <1>a
      <4> QED
        BY <1>a, <3>1, <4>1 DEF Progress
    <3>3. \A j \in 1..4 : Returning(j)
      BY <3>1, <3>2, CanReturn
    <3>4. UNCHANGED <<live, rollback, stage, moved, installed, errors>>
      BY <2>7 DEF InstallFails
    <3>5. \A j \in 1..4 : Returning(j)'
      BY <2>a, <3>3, <3>4, AllSame, SameTarget
    <3> QED
      BY <2>7, <3>5 DEF InstallFails, Progress
  <2>8. CASE Uninstall \/ MoveBack \/ UndoFails \/ Undone
    <3>1. /\ outcome = "failed" /\ \A j \in 1..4 : Returning(j)
      BY <1>a, <2>8 DEF Uninstall, MoveBack, UndoFails, Undone, Progress
    <3>2. \A j \in 1..4 : Returning(j)'
      <4>1. CASE Uninstall
        <5>1. PICK i : i = Last(installed)
          OBVIOUS
        <5>2. errors' = errors
          BY <4>1 DEF Uninstall
        <5>3. ASSUME NEW j \in 1..4, j # i PROVE Returning(j)'
          BY <1>a, <2>a, <3>1, <4>1, <5>1, <5>2, <5>3, UninstallTargets, SameTarget
        <5>4. Returning(i)'
          <6>1. /\ i \in 1..4 /\ i \in installed /\ live'[T(i)] = None
                /\ i \notin installed' /\ UNCHANGED <<rollback, moved>>
            BY <1>a, <4>1, <5>1, UninstallTargets
          <6>2. Returning(i) /\ T(i)' = T(i)
            BY <3>1, <6>1 DEF T
          <6> HIDE DEF T
          <6> QED
            BY <2>a, <2>b, <5>2, <6>1, <6>2 DEF Returning
        <5> QED
          BY <5>3, <5>4
      <4>2. CASE MoveBack
        <5>1. PICK i : i = Last(moved)
          OBVIOUS
        <5>2. errors' = errors
          BY <4>2 DEF MoveBack
        <5>3. ASSUME NEW j \in 1..4, j # i PROVE Returning(j)'
          BY <1>a, <2>a, <3>1, <4>2, <5>1, <5>2, <5>3, MoveBackTargets, SameTarget
        <5>4. Returning(i)'
          <6>1. /\ i \in 1..4 /\ i \in moved /\ live'[T(i)] = rollback[pid][T(i)]
                /\ i \notin moved' /\ installed' = {}
            BY <1>a, <4>2, <5>1, MoveBackTargets
          <6>2. Returning(i) /\ T(i)' = T(i)
            BY <3>1, <6>1 DEF T
          <6>3. live'[T(i)] = before[T(i)]
            BY <6>1, <6>2 DEF Returning
          <6> HIDE DEF T
          <6> QED
            BY <2>a, <6>1, <6>2, <6>3 DEF Returning
        <5> QED
          BY <5>3, <5>4
      <4>3. CASE UndoFails
        <5>1. /\ UNCHANGED <<live, rollback>> /\ errors'
              /\ moved' \subseteq moved /\ installed' \subseteq installed
          BY <4>3 DEF UndoFails
        <5>2. ASSUME NEW j \in 1..4 PROVE Returning(j)'
          <6>1. Returning(j) /\ T(j)' = T(j)
            BY <3>1 DEF T
          <6> HIDE DEF T
          <6> QED
            BY <2>a, <2>b, <5>1, <6>1 DEF Returning
        <5> QED
          BY <5>2
      <4>4. CASE Undone
        <5>1. UNCHANGED <<live, rollback, stage, moved, installed, errors>>
          BY <4>4 DEF Undone
        <5> QED
          BY <2>a, <3>1, <5>1, AllSame, SameTarget
      <4> QED
        BY <2>8, <4>1, <4>2, <4>3, <4>4
    <3>3. CASE Undone
      <4>1. /\ pc' = "removeStage" /\ outcome' = outcome
            /\ installed' = {} /\ moved' = {}
        BY <3>3 DEF Undone
      <4> QED
        BY <3>1, <3>2, <4>1 DEF Progress
    <3>4. CASE ~Undone
      <4>1. pc' = "undo" /\ outcome' = outcome
        <5>1. CASE Uninstall
          BY <5>1 DEF Uninstall
        <5>2. CASE MoveBack
          BY <5>2 DEF MoveBack
        <5>3. CASE UndoFails
          BY <5>3 DEF UndoFails
        <5> QED
          BY <2>8, <3>4, <5>1, <5>2, <5>3
      <4> QED
        BY <3>1, <3>2, <4>1 DEF Progress
    <3> QED
      BY <3>3, <3>4
  <2>9. CASE RemoveStage \/ RemovalFails
    <3>1. /\ pc = "removeStage" /\ pc' = "removeRollback"
          /\ UNCHANGED <<live, rollback, moved, installed, errors, outcome, prior>>
      <4>1. CASE RemoveStage
        BY <4>1 DEF RemoveStage
      <4>2. CASE RemovalFails
        BY <4>2 DEF RemovalFails, Restoring, End
      <4> QED
        BY <2>9, <4>1, <4>2
    <3>2. ASSUME NEW j \in 1..4, Returning(j) PROVE Returning(j)'
      <4>1. T(j)' = T(j)
        BY DEF T
      <4> HIDE DEF T
      <4> QED
        BY <2>a, <2>b, <3>1, <3>2, <4>1 DEF Returning
    <3>3. ASSUME NEW j \in 1..4, Staged(j, live[T(j)]) PROVE Staged(j, live[T(j)])'
      <4>1. T(j)' = T(j)
        BY DEF T
      <4> HIDE DEF T
      <4> QED
        BY <2>a, <3>1, <3>3, <4>1 DEF Staged
    <3> QED
      BY <1>a, <3>1, <3>2, <3>3 DEF Progress
  <2>10. CASE UNCHANGED vars
    <3>1. UNCHANGED <<live, rollback, stage, moved, installed, errors, pc, next, outcome, prior>>
      BY <2>10 DEF vars
    <3>2. \A j \in 1..4 : Same(j)
      BY <3>1, AllSame
    <3>3. \A j \in 1..4 : /\ Untouched(j) => Untouched(j)'
                          /\ Removed(j) => Removed(j)'
                          /\ Exchanged(j) => Exchanged(j)'
                          /\ Returning(j) => Returning(j)'
      BY <2>a, <3>1, <3>2, SameTarget
    <3>4. ASSUME NEW j \in 1..4, Staged(j, live[T(j)]) PROVE Staged(j, live[T(j)])'
      BY <2>a, <3>1, <3>4 DEF Staged, T
    <3> QED
      BY <1>a, <2>a, <3>1, <3>3, <3>4 DEF Progress
  <2> QED
    BY <2>a, <1>2, <2>1, <2>2, <2>3, <2>4, <2>5, <2>6, <2>7, <2>8, <2>9, <2>10
       DEF RestoreStep
<1> QED
  BY <1>1, <1>2

-----------------------------------------------------------------------------
(* Which files are current *)

\* A restore that did not fail at its undoing found what it leaves, or leaves a
\* point; where it stopped, its log is the one it found.
LEMMA AllIsBack ==
  ASSUME RInv, pc \in {"removeStage", "removeRollback"}, outcome # "ok", ~errors
  PROVE  live = before
<1>1. \A j \in 1..4 : live[T(j)] = before[T(j)]
  BY DEF RInv, Progress, Returning
<1>2. \A f \in Files : live[f] = before[f]
  BY <1>1, TargetsAreFiles
<1> QED
  BY <1>2, SameFiles DEF RInv, TypeOK

\* No step of a restore brings a log but the one it found.
LEMMA LogStep ==
  ASSUME RInv, [Next]_vars, pc' \in Restoring
  PROVE  live'["wal"] \in {None, before'["wal"]}
<1>a. /\ TypeOK /\ live \in Directories /\ next \in 1..4
      /\ T(3) = "wal" /\ "wal" \in Files /\ None \in Contents
  BY ContentTypes DEF RInv, TypeOK, T, Targets, Files
<1>b. /\ \A i \in 1..4 : T(i) \in Files
      /\ \A files \in Directories, i \in 1..4, c \in Contents :
           [files EXCEPT ![T(i)] = c]["wal"] \in {c, files["wal"]}
  <2>1. \A i \in 1..4 : T(i) \in Files
    BY TargetsAreFiles
  <2> HIDE DEF T
  <2>2. ASSUME NEW files \in Directories, NEW i \in 1..4, NEW c \in Contents
        PROVE  [files EXCEPT ![T(i)] = c]["wal"] \in {c, files["wal"]}
    BY <1>a, <2>1, FileReplaced
  <2> QED
    BY <2>1, <2>2
<1>1. CASE \E p \in daily \cup weekly : Restore(p)
  BY <1>1 DEF Restore, Fresh
<1>2. CASE ~\E p \in daily \cup weekly : Restore(p)
  <2>a. /\ RestoreStep /\ before' = before /\ live["wal"] \in {None, before["wal"]}
        /\ pc \in Restoring /\ pid \in Pids
    BY <1>2, <1>a, ChosenStands, PidTypes DEF RInv, Current, Restoring
  <2>1. CASE Aside
    <3>1. live' = live \/ live' = [live EXCEPT ![T(next)] = None]
      BY <1>a, <2>1, TargetIsFile DEF Aside
    <3>2. [live EXCEPT ![T(next)] = None]["wal"] \in {None, live["wal"]}
      <4> HIDE DEF T
      <4> QED
        BY <1>a, <1>b
    <3>3. live'["wal"] \in {None, live["wal"]}
      BY <3>1, <3>2
    <3> QED
      BY <2>a, <3>3
  <2>2. CASE Install
    <3>1. /\ Target = T(next) /\ stage[pid] \in Directories
          /\ stage[pid]["wal"] = None
      BY <1>a, <2>a, TargetIsFile DEF RInv, TypeOK, Shaped
    <3>2. \/ live' = live
          \/ /\ stage[pid][T(next)] # None
             /\ live' = [live EXCEPT ![T(next)] = stage[pid][T(next)]]
      BY <2>2, <3>1 DEF Install
    <3>3. ASSUME stage[pid][T(next)] # None,
                 live' = [live EXCEPT ![T(next)] = stage[pid][T(next)]]
          PROVE  live'["wal"] = live["wal"]
      <4> HIDE DEF T
      <4>1. T(next) \in Files /\ T(next) # "wal"
        BY <1>a, <1>b, <3>1, <3>3
      <4>2. stage[pid][T(next)] \in Contents
        BY <3>1, <4>1 DEF Directories
      <4> QED
        BY <1>a, <3>3, <4>1, <4>2, FileReplaced
    <3> QED
      BY <2>a, <3>2, <3>3
  <2>3. CASE Check
    <3>1. live' = live
      BY <2>3, ExchangedFiles DEF Check
    <3> QED
      BY <2>a, <3>1
  <2>4. CASE Uninstall
    <3>1. Last(installed) \in 1..4
      BY <1>a, <2>4, LastTypes DEF Uninstall, TypeOK
    <3>2. live' = [live EXCEPT ![T(Last(installed))] = None]
      BY <2>4 DEF Uninstall, T
    <3> HIDE DEF T
    <3> QED
      BY <1>a, <1>b, <2>a, <3>1, <3>2
  <2>5. CASE MoveBack
    <3>1. Last(moved) \in 1..4 /\ Last(moved) \in moved
      BY <1>a, <2>5, LastTypes DEF MoveBack, TypeOK
    <3>2. Returning(Last(moved))
      BY <2>5, <3>1 DEF MoveBack, RInv, Progress
    <3> DEFINE c == rollback[pid][T(Last(moved))]
    <3>3. c = before[T(Last(moved))]
      BY <3>1, <3>2 DEF Returning
    <3>4. live' = [live EXCEPT ![T(Last(moved))] = c]
      BY <2>5 DEF MoveBack, T
    <3>5. T(Last(moved)) \in Files
      BY <1>b, <3>1
    <3> HIDE DEF T
    <3>6. c \in Contents
      BY <2>a, <3>5 DEF RInv, TypeOK, Directories
    <3>7. CASE T(Last(moved)) = "wal"
      <4>1. live'["wal"] = c
        BY <1>a, <3>4, <3>6, <3>7, FileReplaced
      <4> QED
        BY <2>a, <3>3, <3>7, <4>1
    <3>8. CASE T(Last(moved)) # "wal"
      <4>1. live'["wal"] = live["wal"]
        BY <1>a, <3>4, <3>5, <3>6, <3>8, FileReplaced
      <4> QED
        BY <2>a, <4>1
    <3> QED
      BY <3>7, <3>8
  <2>6. CASE ~Aside /\ ~Install /\ ~Check /\ ~Uninstall /\ ~MoveBack
    <3>1. live' = live
      BY <1>2, <2>a, <2>6 DEF RestoreStep, Validate, Stage, StageFails, Sync,
         InstallFails, UndoFails, Undone, RemoveStage, RemovalFails, vars
    <3> QED
      BY <2>a, <3>1
  <2> QED
    BY <2>1, <2>2, <2>3, <2>4, <2>5, <2>6
<1> QED
  BY <1>1, <1>2

\* Outside a restore the files stay current: a commit extends the log of the
\* database, and closing it writes the log back.
LEMMA OutsideCurrent ==
  ASSUME RInv, [Next]_vars, pc \notin Restoring, pc' \notin Restoring
  PROVE  /\ intact => Fits(live)'
         /\ ~torn => Own(live)'
<1>a. /\ live \in Directories
      /\ intact => Fits(live)
      /\ ~torn => Own(live)
  BY DEF RInv, Current, TypeOK
<1>b. /\ "wal" \in Files /\ "db" \in Files /\ "cookie" \in Files
      /\ "db" # "wal" /\ "db" # "cookie" /\ "wal" # "cookie"
  BY DEF Files
<1>1. CASE Commit
  <2> DEFINE base == IF live["wal"] = None THEN live["db"].head ELSE live["wal"].base
             log == Log(base, commits + 1)
             new == [live EXCEPT !["wal"] = log]
  <2>1. live' = new /\ acknowledged' = commits + 1 /\ live["db"] # None
    BY <1>1 DEF Commit, RInv, TypeOK
  <2>2. log # None /\ log \in Contents /\ log.base = base /\ log.head = commits + 1
    <3>1. base \in Versions
      BY <1>a, <1>b, <2>1, ContentTypes
    <3>2. commits + 1 \in Versions
      BY <1>1 DEF Commit, Versions, RInv, TypeOK
    <3> HIDE DEF base
    <3> QED
      BY <3>1, <3>2, ContentTypes DEF Log
  <2> HIDE DEF log
  <2>3. new["wal"] = log /\ new["db"] = live["db"]
    BY <1>a, <1>b, <2>2 DEF Directories
  <2> HIDE DEF new
  <2>4. Own(live) => base = live["db"].head
    BY <2>1 DEF Own
  <2> HIDE DEF base
  <2>5. Own(live) => Own(new)
    BY <2>2, <2>3, <2>4 DEF Own
  <2>6. Own(live) => new["db"] # None /\ Effective(new) = commits + 1
    BY <2>1, <2>2, <2>3, <2>4 DEF Effective
  <2> QED
    BY <1>a, <2>1, <2>5, <2>6 DEF Fits, Own, Effective
<1>2. CASE SaveCookies
  <2> DEFINE new == [live EXCEPT !["cookie"] = Page(0)]
  <2>1. live' = new /\ acknowledged' = acknowledged
    BY <1>2 DEF SaveCookies
  <2>2. Page(0) \in Contents
    <3>1. 0 \in Versions
      BY DEF Versions
    <3> QED
      BY <3>1, ContentTypes DEF Page
  <2>3. new["wal"] = live["wal"] /\ new["db"] = live["db"]
    BY <1>a, <1>b, <2>2, FileReplaced
  <2> HIDE DEF new
  <2> QED
    BY <1>a, <2>1, <2>3 DEF Fits, Own, Effective
<1>3. CASE UNCHANGED <<live, acknowledged>>
  BY <1>a, <1>3 DEF Fits, Own, Effective
<1>4. CASE live["db"] # None /\ live' = Checkpointed(live) /\ acknowledged' = acknowledged
  <2>1. /\ Checkpointed(live)["db"] # None /\ Checkpointed(live)["wal"] = None
        /\ Effective(Checkpointed(live)) = Effective(live)
    BY <1>a, <1>4, CheckpointedFiles
  <2> QED
    BY <1>a, <1>4, <2>1 DEF Fits, Own, Effective
<1>5. CASE Stop
  <2>1. live["db"] # None
    BY <1>5 DEF Stop, RInv, TypeOK
  <2> QED
    BY <1>4, <1>5, <2>1 DEF Stop
<1>6. CASE Source
  BY <1>3, <1>4, <1>6 DEF Source
<1>7. CASE RemovalFails \/ Crash
  <2>1. chosen = None
    BY DEF RInv, Shaped
  <2>2. UNCHANGED <<live, acknowledged>>
    BY <1>7, <2>1 DEF RemovalFails, Crash, Restoring
  <2> QED
    BY <1>3, <2>2
<1>8. CASE /\ ~Commit /\ ~SaveCookies /\ ~Stop /\ ~Source /\ ~RemovalFails /\ ~Crash
  <2>1. ~(\E p \in daily \cup weekly : Restore(p))
    BY DEF Restore, Begin, Restoring
  <2>2. ~(Validate \/ ValidateFails \/ Stage \/ StageFails \/ Aside \/ Install \/ Check
          \/ Sync \/ InstallFails)
    BY DEF Validate, ValidateFails, Stage, StageFails, Aside, Install, Check, Sync,
           InstallFails, Restoring
  <2>3. ~(Uninstall \/ MoveBack \/ UndoFails \/ Undone \/ RemoveStage \/ RemoveRollback)
    BY DEF Uninstall, MoveBack, UndoFails, Undone, RemoveStage, RemoveRollback, Restoring
  <2>4. UNCHANGED <<live, acknowledged>>
    BY <1>8, <2>1, <2>2, <2>3 DEF Next, Backup, Restoration, Start, Create, Copy,
       Publish, Week, RetainDaily, RetainWeekly, CreateFails, Discard, Tick, Damage, vars
  <2> QED
    BY <1>3, <2>4
<1> QED
  BY <1>1, <1>2, <1>5, <1>6, <1>7, <1>8

\* Every step keeps the files current.
LEMMA CurrentStep == RInv /\ [Next]_vars => Current'
<1> SUFFICES ASSUME RInv, [Next]_vars PROVE Current'
  OBVIOUS
<1>a. /\ intact => IF pc \in Restoring /\ outcome # "ok" THEN Fits(before) ELSE Fits(live)
      /\ ~torn => IF pc \in Restoring /\ outcome # "ok" THEN Own(before) ELSE Own(live)
  BY DEF RInv, Current
<1> DEFINE Held1 == intact' => IF pc' \in Restoring /\ outcome' # "ok"
                             THEN Fits(before)' ELSE Fits(live)'
           Held2 == ~torn' => IF pc' \in Restoring /\ outcome' # "ok"
                             THEN Own(before)' ELSE Own(live)'
<1> SUFFICES Held1 /\ Held2
  BY LogStep DEF Current
<1>1. ASSUME NEW p \in daily \cup weekly, Restore(p) PROVE Held1 /\ Held2
  <2>1. /\ pc \notin Restoring /\ pc' \in Restoring /\ outcome' # "ok" /\ before' = live
        /\ UNCHANGED <<intact, torn, acknowledged>>
    BY <1>1 DEF Restore, Begin, Fresh, Restoring
  <2>2. intact => Fits(live)
    BY <1>a, <2>1
  <2>3. ~torn => Own(live)
    BY <1>a, <2>1
  <2> QED
    BY <2>1, <2>2, <2>3 DEF Fits, Own, Effective
<1>2. CASE pc \notin Restoring /\ ~\E p \in daily \cup weekly : Restore(p)
  <2>1. pc' \notin Restoring /\ UNCHANGED <<intact, torn>>
    BY <1>2, OutsideSteps DEF RInv
  <2> QED
    BY <1>2, <2>1, OutsideCurrent
<1>3. CASE /\ pc \in Restoring /\ pc' \in Restoring
           /\ ~\E p \in daily \cup weekly : Restore(p)
  <2>a. /\ RestoreStep /\ before' = before
        /\ ~Sync => UNCHANGED <<intact, torn, acknowledged>>
    BY <1>3, ChosenStands
  <2>1. CASE Sync
    <3>1. Archived(live) /\ live["db"] # None /\ live["wal"] = None
      BY <2>1, ExchangedFiles DEF Sync
    <3>2. live' = live /\ outcome' = "ok" /\ acknowledged' = Effective(live)
      BY <2>1 DEF Sync
    <3> QED
      BY <3>1, <3>2 DEF Fits, Own, Effective
  <2>2. CASE ~Sync /\ outcome = "ok"
    <3>1. pc \in {"removeStage", "removeRollback"}
      BY <1>3, <2>2 DEF RInv, Progress, Restoring
    <3>2. UNCHANGED <<live, outcome>>
      <4>1. ~(Validate \/ Stage \/ StageFails \/ Aside \/ Install \/ Check \/ InstallFails
              \/ Uninstall \/ MoveBack \/ UndoFails \/ Undone)
        BY <3>1 DEF Validate, Stage, StageFails, Aside, Install, Check, InstallFails,
           Uninstall, MoveBack, UndoFails, Undone
      <4>2. CASE RemoveStage
        BY <4>2 DEF RemoveStage
      <4>3. CASE RemovalFails
        BY <1>3, <4>3 DEF RemovalFails, End, Restoring
      <4>4. CASE UNCHANGED vars
        BY <4>4 DEF vars
      <4> QED
        BY <1>3, <2>a, <2>2, <4>1, <4>2, <4>3, <4>4 DEF RestoreStep
    <3>3. /\ intact => Fits(live)
          /\ ~torn => Own(live)
      BY <1>a, <2>2
    <3> QED
      BY <2>a, <2>2, <3>2, <3>3 DEF Fits, Own, Effective
  <2>3. CASE ~Sync /\ outcome # "ok"
    <3>1. outcome' # "ok"
      <4> USE DEF Fail
      <4>1. CASE Validate
        <5>1. UNCHANGED attempt
          BY <1>3, <4>1 DEF Validate, End, Restoring
        <5> QED
          BY <2>3, <5>1
      <4>2. CASE Stage \/ Aside \/ Install \/ Uninstall \/ MoveBack \/ UndoFails
                 \/ Undone \/ RemoveStage
        BY <2>3, <4>2 DEF Stage, Aside, Install, Uninstall, MoveBack, UndoFails,
           Undone, RemoveStage
      <4>3. CASE StageFails \/ InstallFails \/ Check
        BY <2>3, <4>3 DEF StageFails, InstallFails, Check
      <4>4. CASE RemovalFails
        <5>1. UNCHANGED attempt
          BY <1>3, <4>4 DEF RemovalFails, End, Restoring
        <5> QED
          BY <2>3, <5>1
      <4>5. CASE UNCHANGED vars
        BY <2>3, <4>5 DEF vars
      <4> QED
        BY <1>3, <2>a, <2>3, <4>1, <4>2, <4>3, <4>4, <4>5 DEF RestoreStep
    <3>2. /\ intact => Fits(before)
          /\ ~torn => Own(before)
      BY <1>3, <1>a, <2>3
    <3> QED
      BY <1>3, <2>a, <2>3, <3>1, <3>2 DEF Fits, Own, Effective
  <2> QED
    BY <2>1, <2>2, <2>3
<1>4. CASE pc \in Restoring /\ pc' \notin Restoring
  <2>1. /\ live' = live /\ acknowledged' = acknowledged
        /\ intact' = (intact /\ (outcome = "ok" \/ live = before))
        /\ torn' = (torn \/ (live["wal"] # None /\ live["db"] \notin {None, before["db"]}))
    BY <1>4, EndSteps DEF RInv, Settle
  <2>2. intact' => Fits(live)
    BY <1>4, <1>a, <2>1
  <2>3. ~torn' => Own(live)
    <3> SUFFICES ASSUME ~torn, live["db"] # None, live["wal"] # None,
                        live["db"] \in {None, before["db"]}
                 PROVE  live["wal"].base = live["db"].head
      BY <2>1 DEF Own
    <3>1. CASE outcome = "ok"
      BY <1>a, <3>1 DEF Own
    <3>2. CASE outcome # "ok"
      <4>1. live["wal"] = before["wal"] /\ live["db"] = before["db"]
        BY <1>4 DEF RInv, Current
      <4>2. Own(before)
        BY <1>4, <1>a, <3>2
      <4> QED
        BY <4>1, <4>2 DEF Own
    <3> QED
      BY <3>1, <3>2
  <2> QED
    BY <1>4, <2>1, <2>2, <2>3 DEF Fits, Own, Effective
<1> QED
  BY <1>1, <1>2, <1>3, <1>4, OutsideSteps DEF RInv


-----------------------------------------------------------------------------
(* The files that are owed *)

\* A restore that runs changes no rollback directory but its own.
LEMMA OwnRollback ==
  ASSUME TypeOK, [Next]_vars, pc \in Restoring, NEW p \in Pids \ {pid}
  PROVE  rollback'[p] = rollback[p]
<1>1. CASE Aside
  BY <1>1 DEF Aside, TypeOK
<1>2. CASE MoveBack
  BY <1>2 DEF MoveBack, TypeOK
<1>3. CASE RemoveRollback
  BY <1>3 DEF RemoveRollback, TypeOK
<1>4. CASE ~Aside /\ ~MoveBack /\ ~RemoveRollback
  BY <1>4 DEF Next, Backup, Restoration, Start, Commit, SaveCookies, Stop,
    Create, Source, Copy, Publish, Week, RetainDaily, RetainWeekly, CreateFails,
    Discard, Restore, Validate, ValidateFails, Stage, StageFails, Install, Check, Sync,
    InstallFails, Uninstall, UndoFails, Undone, RemoveStage, RemovalFails, Crash, Tick,
    Damage, vars
<1> QED
  BY <1>1, <1>2, <1>3, <1>4

\* Wherever a restore is that has not succeeded, a file it found is in its
\* rollback directory or in place.
LEMMA FoundIsSafe ==
  ASSUME RInv, pc \in Restoring, outcome # "ok", NEW f \in Files, before[f] # None
  PROVE  rollback[pid][f] = before[f] \/ live[f] = before[f]
<1>1. PICK j \in 1..4 : f = T(j)
  BY TargetsAreFiles
<1>2. CASE pc \in {"validate", "stage"}
  BY <1>2 DEF RInv, Progress
<1>3. CASE pc \in {"aside", "install", "check", "sync"}
  <2>1. next \in 1..4 /\ ~errors
    BY <1>3 DEF RInv, TypeOK, Progress
  <2>2. j < next \/ j = next \/ j > next
    BY <2>1
  <2>3. Untouched(j) \/ Removed(j) \/ Exchanged(j)
    BY <1>3, <2>2 DEF RInv, Progress
  <2>4. Returning(j)
    BY <2>1, <2>3, CanReturn
  <2> QED
    BY <1>1, <2>4 DEF Returning
<1>4. CASE pc \in {"undo", "removeStage", "removeRollback"}
  <2>1. Returning(j)
    BY <1>4 DEF RInv, Progress
  <2> QED
    BY <1>1, <2>1 DEF Returning
<1> QED
  BY <1>2, <1>3, <1>4 DEF Restoring

\* Every step keeps the files that are owed.
LEMMA KeptStep == RInv /\ [Next]_vars => Kept'
<1> SUFFICES ASSUME RInv, [Next]_vars, "rollback" \notin reused', NEW o \in prior'
             PROVE  IF pc' \in Restoring
                    THEN \/ o.content = before'[o.file]
                         \/ \E p \in Pids \ {pid'} : o.content = rollback'[p][o.file]
                    ELSE \E p \in Pids : o.content = rollback'[p][o.file]
  BY DEF Kept
<1>a. TypeOK /\ Shaped /\ Kept /\ Progress
  BY DEF RInv
<1>b. pc \in Restoring => pid \in Pids
  BY <1>a, PidTypes DEF Restoring
<1>c. \A q \in prior : q.file \in Files /\ q.content # None
  BY <1>a, NoneAssumption DEF TypeOK
<1>1. CASE pc \notin Restoring
  <2>1. UNCHANGED <<rollback, prior>>
    BY <1>a, <1>1, OutsideSteps
  <2>2. CASE \E p \in daily \cup weekly : Restore(p)
    <3>1. /\ pid' \in Pids /\ pc' = "validate" /\ reused \subseteq reused'
          /\ rollback[pid'] # Nothing => "rollback" \in reused'
      BY <2>2 DEF Restore, Begin
    <3>2. rollback[pid'] = Nothing
      BY <3>1
    <3>3. PICK p \in Pids : o.content = rollback[p][o.file]
      BY <1>a, <1>1, <2>1, <3>1 DEF Kept
    <3>4. p # pid'
      BY <1>c, <2>1, <3>2, <3>3 DEF Nothing
    <3> QED
      BY <2>1, <3>1, <3>3, <3>4 DEF Restoring
  <2>3. CASE ~\E p \in daily \cup weekly : Restore(p)
    <3>1. pc' \notin Restoring /\ reused' = reused
      BY <1>a, <1>1, <2>3, OutsideSteps
    <3> QED
      BY <1>a, <1>1, <2>1, <3>1 DEF Kept
  <2> QED
    BY <2>2, <2>3
<1>2. CASE pc \in Restoring /\ pc' \in Restoring
  <2>1. ~\E p \in daily \cup weekly : Restore(p)
    BY <1>2 DEF Restore, Begin, Restoring
  <2>2. UNCHANGED <<pid, before, reused>> /\ (~Sync /\ ~Stage => prior' = prior)
    BY <1>2, <2>1, ChosenStands
  <2>3. CASE o \in prior
    <3>1. CASE o.content = before[o.file]
      BY <1>2, <2>2, <3>1
    <3>2. CASE \E p \in Pids \ {pid} : o.content = rollback[p][o.file]
      <4>1. PICK p \in Pids \ {pid} : o.content = rollback[p][o.file]
        BY <3>2
      <4>2. rollback'[p] = rollback[p]
        BY <1>2, <1>a, OwnRollback
      <4> QED
        BY <1>2, <2>2, <4>1, <4>2
    <3> QED
      BY <1>a, <1>2, <2>2, <2>3, <3>1, <3>2 DEF Kept
  <2>4. CASE o \notin prior
    <3>1. CASE Sync
      BY <3>1 DEF Sync
    <3>2. CASE Stage
      <4>1. o \in Found(live) /\ live = before
        BY <1>a, <2>4, <3>2 DEF Stage, Progress
      <4>2. o.content = before[o.file]
        BY <4>1 DEF Found
      <4> QED
        BY <1>2, <2>2, <4>2
    <3> QED
      BY <2>2, <2>4, <3>1, <3>2
  <2> QED
    BY <2>3, <2>4
<1>3. CASE pc \in Restoring /\ pc' \notin Restoring
  <2>1. /\ live' = live /\ reused' = reused
        /\ o \in prior /\ live[o.file] # o.content
        /\ \/ rollback' = rollback
           \/ pc = "removeRollback" /\ ~errors
    BY <1>3, <1>a, EndSteps DEF Settle
  <2>2. \/ o.content = before[o.file]
        \/ \E p \in Pids \ {pid} : o.content = rollback[p][o.file]
    BY <1>a, <1>3, <2>1 DEF Kept
  <2>3. CASE \E p \in Pids \ {pid} : o.content = rollback[p][o.file]
    <3>1. PICK p \in Pids \ {pid} : o.content = rollback[p][o.file]
      BY <2>3
    <3>2. rollback'[p] = rollback[p]
      BY <1>3, <1>a, OwnRollback
    <3> QED
      BY <1>3, <3>1, <3>2
  <2>4. CASE o.content = before[o.file]
    <3>1. outcome # "ok"
      BY <1>a, <1>3, <2>1 DEF Progress, Restoring
    <3>2. o.file \in Files /\ before[o.file] # None
      BY <1>c, <2>1, <2>4
    <3>3. rollback[pid][o.file] = before[o.file]
      BY <1>3, <2>1, <2>4, <3>1, <3>2, FoundIsSafe
    <3>4. ~(pc = "removeRollback" /\ ~errors)
      BY <2>1, <2>4, <3>1, AllIsBack
    <3> QED
      BY <1>3, <1>b, <2>1, <2>4, <3>3, <3>4
  <2> QED
    BY <2>2, <2>3, <2>4
<1> QED
  BY <1>1, <1>2, <1>3

\* Every step keeps the invariant.
LEMMA NextRInv == RInv /\ [Next]_vars => RInv'
  BY TypeStep, ShapedStep, RecordedStep, CurrentStep, ProgressStep, KeptStep DEF RInv

-----------------------------------------------------------------------------
(* Theorems on backup and restore *)

\* The invariant of backups and restores: whichever process ids the commands
\* get, and whatever stops them and whatever runs between them, a target is
\* where its restore left it, what is owed is in a rollback directory, and the
\* files are those of the last commit but for what is on record.
THEOREM RecoveryInvariance == Spec => []RInv
  BY InitRInv, NextRInv, PTL DEF Spec

\* The types of Recovery.
THEOREM RecoveryTypeCorrect == Spec => []TypeOK
<1>1. RInv => TypeOK
  BY DEF RInv
<1> QED
  BY <1>1, RecoveryInvariance, PTL

\* Whatever fails or is cut off, what a restore found is in place when it ends
\* or stays in a rollback directory (restore_snapshot), until a restore
\* succeeds or is given the rollback directory of another.
THEOREM PriorStateKept == Spec => []PriorKeptApart
<1>1. RInv => PriorKeptApart
  <2> SUFFICES ASSUME RInv, "rollback" \notin reused, NEW o \in prior
               PROVE  \/ o.content = live[o.file]
                      \/ \E p \in Pids : o.content = rollback[p][o.file]
    BY DEF PriorKeptApart, PriorKept
  <2>a. o.file \in Files /\ o.content # None
    BY NoneAssumption DEF RInv, TypeOK
  <2>1. CASE pc \notin Restoring
    BY <2>1 DEF RInv, Kept
  <2>2. CASE pc \in Restoring
    <3>1. \/ o.content = before[o.file]
          \/ \E p \in Pids \ {pid} : o.content = rollback[p][o.file]
      BY <2>2 DEF RInv, Kept
    <3>2. pid \in Pids
      BY <2>2, PidTypes DEF RInv, Restoring
    <3>3. outcome # "ok"
      BY <2>2 DEF RInv, Progress, Restoring
    <3> QED
      BY <2>a, <2>2, <3>1, <3>2, <3>3, FoundIsSafe
  <2> QED
    BY <2>1, <2>2
<1> QED
  BY <1>1, RecoveryInvariance, PTL

\* A restore that succeeds leaves the files of a sound point, but for a
\* sentinel of a stage it was given; one that fails without an error in its
\* undoing leaves the files it found.
THEOREM RestoreIsAtomic == Spec => []AllOrNothing
<1>1. RInv => AllOrNothing
  <2> SUFFICES ASSUME RInv, pc = "removeStage" PROVE AllOrNothing
    BY DEF AllOrNothing
  <2>1. ASSUME outcome = "ok", NEW f \in Files
        PROVE  \/ live[f] = chosen.files[f]
               \/ f = "sentinel" /\ "stage" \in reused
    <3>1. PICK j \in 1..4 : f = T(j)
      BY TargetsAreFiles
    <3>2. Staged(j, live[T(j)])
      BY <2>1 DEF RInv, Progress
    <3>3. T(1) = "sentinel"
      BY DEF T, Targets
    <3> QED
      BY <3>1, <3>2, <3>3 DEF Staged
  <2>2. chosen.state = "sound"
    BY DEF RInv, Shaped, Restoring
  <2>3. outcome = "failed" /\ ~errors => live = before
    BY AllIsBack
  <2> QED
    BY <2>1, <2>2, <2>3 DEF AllOrNothing
<1> QED
  BY <1>1, RecoveryInvariance, PTL

\* Whoever opens the database finds a log of its own or none, also after a
\* restore that did not finish, unless that one left another database beside
\* the log.
THEOREM LogsFit == Spec => []OwnLog
<1>1. RInv => OwnLog
  <2> SUFFICES ASSUME RInv PROVE OwnLog
    OBVIOUS
  <2>1. CASE pc \in {"serving", "source"}
    BY <2>1 DEF RInv, Current, Restoring, Own, OwnLog
  <2>2. CASE pc = "check"
    BY <2>2, ExchangedFiles DEF OwnLog
  <2> QED
    BY <2>1, <2>2 DEF OwnLog
<1> QED
  BY <1>1, RecoveryInvariance, PTL

\* What is published holds the last acknowledged commit, unless a restore left
\* other files than it found and none has succeeded since.
THEOREM BackupsAreCurrent == Spec => BackupIsCurrent
<1> DEFINE Holds == \A p \in daily' : p.id \notin {q.id : q \in daily} /\ intact
                      => Effective(p.files) = acknowledged
<1>1. RInv /\ [Next]_vars => [Holds]_vars
  <2> SUFFICES ASSUME RInv, [Next]_vars, intact,
                      NEW p \in daily', p.id \notin {q.id : q \in daily}
               PROVE  Effective(p.files) = acknowledged
    OBVIOUS
  <2>1. ASSUME NEW q \in daily, NEW s \in PointStates
        PROVE  [q EXCEPT !.state = s].id = q.id
    BY PointChanged DEF RInv, TypeOK
  <2>2. CASE Publish
    <3>1. Effective(temporary[pid]) = acknowledged
      BY <2>2 DEF RInv, Shaped, Publish
    <3> DEFINE point == [id |-> day, files |-> temporary[pid], state |-> "sound"]
    <3>2. daily' \subseteq daily \cup {point}
      BY <2>2 DEF Publish
    <3>3. p = point
      BY <3>2
    <3> QED
      BY <3>1, <3>3
  <2>3. ASSUME NEW q \in daily, daily' = Shrunk(daily, q) PROVE FALSE
    BY <2>1, <2>3 DEF Shrunk, PointStates
  <2>4. ASSUME NEW q \in daily, Damage(q) PROVE FALSE
    BY <2>1, <2>4 DEF Damage, PointStates
  <2>5. CASE Week
    BY <2>5 DEF Week
  <2>6. CASE daily' = daily
    BY <2>6
  <2> QED
    BY <2>2, <2>3, <2>4, <2>5, <2>6, PointsSteps
<1> QED
  BY <1>1, RecoveryInvariance, PTL DEF Spec, BackupIsCurrent

-----------------------------------------------------------------------------
(* Retention *)

IsPoint(p) ==
  /\ p = [id |-> p.id, files |-> p.files, state |-> p.state]
  /\ p.id \in 1..MaxDays /\ p.id <= day

WholeNewer(set, p) == {q \in Newer(set, p) : q.state # "torn"}

\* Each point that retention emptied has enough newer ones.
Covered(set, count) ==
  \A p \in set : p.state = "torn" => Cardinality(WholeNewer(set, p)) >= count

NInv ==
  /\ TypeControl
  /\ IsFiniteSet(daily) /\ IsFiniteSet(weekly)
  /\ \A p \in daily \cup weekly : IsPoint(p)
  /\ \A p, q \in daily : p.id = q.id => p = q
  /\ Covered(daily, DailyRetention) /\ Covered(weekly, WeeklyRetention)

\* A set of newer points is finite, and counts no less where it has more.
LEMMA NewerCounts ==
  ASSUME NEW S, NEW R, IsFiniteSet(S), R \subseteq S
  PROVE  /\ IsFiniteSet(R) /\ Cardinality(R) \in Nat
         /\ Cardinality(S) \in Nat /\ Cardinality(R) <= Cardinality(S)
  BY FS_Subset, FS_CardinalityType

\* Another state leaves the rest of a point.
LEMMA StateChanged ==
  ASSUME NEW p, IsPoint(p), NEW s
  PROVE  LET q == [p EXCEPT !.state = s] IN
           IsPoint(q) /\ q.id = p.id /\ q.state = s
<1>1. [p EXCEPT !.state = s] = [id |-> p.id, files |-> p.files, state |-> s]
  BY DEF IsPoint
<1> QED
  BY <1>1 DEF IsPoint

\* The newest point in excess has only whole points above it, as many as are
\* retained, and emptying or removing it takes them from nobody.
LEMMA ShrinkCovered ==
  ASSUME NEW set, IsFiniteSet(set), \A q \in set : IsPoint(q),
         NEW count \in Nat, Covered(set, count),
         NEW p \in Excess(set, count), NewestFirst(p, Excess(set, count))
  PROVE  /\ Cardinality(WholeNewer(set, p)) >= count
         /\ Covered(Shrunk(set, p), count)
         /\ IsFiniteSet(Shrunk(set, p))
         /\ \A q \in Shrunk(set, p) : IsPoint(q)
<1> DEFINE emptied == [p EXCEPT !.state = "torn"]
           new == Shrunk(set, p)
<1>1. /\ p \in set /\ IsPoint(p) /\ IsPoint(emptied) /\ emptied.id = p.id
      /\ emptied.state = "torn" /\ Cardinality(Newer(set, p)) >= count
  BY StateChanged DEF Excess
<1> HIDE DEF emptied
<1>2. /\ set \ {p} \subseteq new /\ new \subseteq (set \ {p}) \cup {emptied}
  BY DEF Shrunk, emptied
<1>3. IsFiniteSet(new) /\ \A q \in new : IsPoint(q)
  <2>1. IsFiniteSet((set \ {p}) \cup {emptied})
    BY FS_RemoveElement, FS_AddElement
  <2> HIDE DEF new
  <2> QED
    BY <1>1, <1>2, <2>1, FS_Subset
<1> HIDE DEF new
<1>4. \A q \in set : q.id \in Int
  BY DEF IsPoint
<1>5. ASSUME NEW q \in Newer(set, p) PROVE q.state # "torn"
  <2> SUFFICES ASSUME q.state = "torn" PROVE FALSE
    OBVIOUS
  <2>1. q \in set /\ q.id > p.id
    BY <1>5 DEF Newer
  <2>2. Cardinality(WholeNewer(set, q)) >= count
    BY <2>1 DEF Covered
  <2>3. WholeNewer(set, q) \subseteq Newer(set, q) /\ Newer(set, q) \subseteq set
    BY DEF WholeNewer, Newer
  <2>4. IsFiniteSet(Newer(set, q))
    BY <2>3, NewerCounts
  <2>5. Cardinality(Newer(set, q)) >= count
    BY <2>2, <2>3, <2>4, NewerCounts
  <2>6. q \in Excess(set, count)
    BY <2>1, <2>5 DEF Excess
  <2> QED
    BY <1>1, <1>4, <2>1, <2>6 DEF NewestFirst
<1>6. WholeNewer(set, p) = Newer(set, p)
  BY <1>5 DEF WholeNewer
<1>7. ASSUME NEW r \in new, r.state = "torn"
      PROVE  Cardinality(WholeNewer(new, r)) >= count
  <2>1. r.id <= p.id
    <3>1. CASE r = emptied
      BY <1>1, <3>1 DEF IsPoint
    <3>2. CASE r # emptied
      <4>1. r \in set
        BY <1>2, <3>2
      <4>2. r \notin Newer(set, p)
        BY <1>5, <1>7
      <4> QED
        BY <1>1, <1>4, <4>1, <4>2 DEF Newer
    <3> QED
      BY <3>1, <3>2
  <2>2. r.id \in Int
    BY <1>3 DEF IsPoint
  <2>3. Newer(set, p) \subseteq WholeNewer(new, r)
    <3> SUFFICES ASSUME NEW q \in Newer(set, p) PROVE q \in WholeNewer(new, r)
      OBVIOUS
    <3>1. q \in set /\ q.id > p.id /\ q.state # "torn"
      BY <1>5 DEF Newer
    <3>2. q # p /\ q.id > r.id
      BY <1>1, <1>4, <2>1, <2>2, <3>1
    <3> QED
      BY <1>2, <3>1, <3>2 DEF Newer, WholeNewer
  <2>4. IsFiniteSet(WholeNewer(new, r))
    BY <1>3, FS_Subset DEF WholeNewer, Newer
  <2> QED
    BY <1>1, <2>3, <2>4, NewerCounts
<1> QED
  BY <1>1, <1>3, <1>6, <1>7 DEF Covered, new

\* More points cover no less, if the one added is whole.
LEMMA AddCovered ==
  ASSUME NEW set, IsFiniteSet(set), NEW count \in Nat, Covered(set, count),
         NEW p, p.state # "torn"
  PROVE  Covered(set \cup {p}, count)
<1> SUFFICES ASSUME NEW r \in set \cup {p}, r.state = "torn"
             PROVE  Cardinality(WholeNewer(set \cup {p}, r)) >= count
  BY DEF Covered
<1>1. r \in set /\ Cardinality(WholeNewer(set, r)) >= count
  BY DEF Covered
<1>2. WholeNewer(set, r) \subseteq WholeNewer(set \cup {p}, r)
  BY DEF WholeNewer, Newer
<1>3. IsFiniteSet(WholeNewer(set \cup {p}, r))
  <2>1. IsFiniteSet(set \cup {p})
    BY FS_AddElement
  <2> QED
    BY <2>1, FS_Subset DEF WholeNewer, Newer
<1> QED
  BY <1>1, <1>2, <1>3, NewerCounts

\* A point that is damaged is still newer than whatever it was newer than.
LEMMA DamageCovered ==
  ASSUME IsFiniteSet(daily), \A q \in daily : IsPoint(q),
         \A q, r \in daily : q.id = r.id => q = r,
         NEW count \in Nat, Covered(daily, count),
         NEW p \in daily, Damage(p)
  PROVE  /\ IsFiniteSet(daily') /\ Covered(daily', count)
         /\ \A q \in daily' : IsPoint(q)
         /\ \A q, r \in daily' : q.id = r.id => q = r
         /\ daily \ daily' \subseteq {p}
         /\ \E q \in daily' : q.id = p.id /\ q.state = "damaged"
<1> DEFINE bad == [p EXCEPT !.state = "damaged"]
<1>1. IsPoint(bad) /\ bad.id = p.id /\ bad.state = "damaged"
  BY StateChanged
<1>2. daily' = (daily \ {p}) \cup {bad} /\ p.state = "sound"
  BY DEF Damage
<1> HIDE DEF bad
<1>3. IsFiniteSet(daily')
  BY <1>2, FS_RemoveElement, FS_AddElement
<1>4. ASSUME NEW r \in daily', r.state = "torn"
      PROVE  Cardinality(WholeNewer(daily', r)) >= count
  <2>1. r \in daily /\ r # p
    BY <1>1, <1>2, <1>4
  <2> DEFINE S == WholeNewer(daily, r)
             R == WholeNewer(daily', r)
  <2>2. IsFiniteSet(S) /\ IsFiniteSet(R) /\ Cardinality(S) >= count
    <3>1. S \subseteq daily /\ R \subseteq daily'
      BY DEF WholeNewer, Newer
    <3>2. Cardinality(S) >= count
      BY <1>4, <2>1 DEF Covered
    <3> HIDE DEF S, R
    <3> QED
      BY <1>3, <3>1, <3>2, FS_Subset
  <2>3. CASE p \in S
    <3>1. (S \ {p}) \cup {bad} \subseteq R
      BY <1>1, <1>2, <2>3 DEF WholeNewer, Newer
    <3>2. bad \notin S \ {p}
      BY <1>1 DEF WholeNewer, Newer
    <3> HIDE DEF S, R
    <3>3. IsFiniteSet(S \ {p}) /\ Cardinality(S \ {p}) = Cardinality(S) - 1
      BY <2>2, <2>3, FS_RemoveElement
    <3>4. /\ IsFiniteSet((S \ {p}) \cup {bad})
          /\ Cardinality((S \ {p}) \cup {bad}) = Cardinality(S \ {p}) + 1
      BY <3>2, <3>3, FS_AddElement
    <3>5. Cardinality(S) \in Nat
      BY <2>2, FS_CardinalityType
    <3>6. Cardinality((S \ {p}) \cup {bad}) = Cardinality(S)
      BY <3>3, <3>4, <3>5
    <3> QED
      BY <2>2, <3>1, <3>5, <3>6, NewerCounts DEF R
  <2>4. CASE p \notin S
    <3>1. S \subseteq R
      BY <1>2, <2>4 DEF WholeNewer, Newer
    <3> HIDE DEF S, R
    <3> QED
      BY <2>2, <2>4, <3>1, NewerCounts DEF R
  <2> QED
    BY <2>3, <2>4
<1> QED
  BY <1>1, <1>2, <1>3, <1>4 DEF Covered

\* Days go by one at a time.
LEMMA DaySteps ==
  ASSUME [Next]_vars
  PROVE  day' = day \/ day' = day + 1
<1>1. CASE Tick
  BY <1>1 DEF Tick
<1>2. CASE ~Tick
  BY <1>2 DEF Next, Backup, Restoration, Start, Commit, SaveCookies, Stop,
    Create, Source, Copy, Publish, Week, RetainDaily, RetainWeekly, CreateFails,
    Discard, Restore, Validate, ValidateFails, Stage, StageFails, Aside, Install,
    Check, Sync, InstallFails, Uninstall, MoveBack, UndoFails, Undone, RemoveStage,
    RemoveRollback, RemovalFails, Crash, Damage, Fault, Begin, vars
<1> QED
  BY <1>1, <1>2

\* Every step keeps the newest points whole, and what it empties or removes has
\* enough newer ones.
LEMMA NStep ==
  ASSUME NInv, [Next]_vars
  PROVE  /\ NInv'
         /\ \A p \in daily \ daily' :
              \/ \E q \in daily' : q.id = p.id /\ q.state = "damaged"
              \/ Cardinality(WholeNewer(daily, p)) >= DailyRetention
         /\ \A p \in weekly \ weekly' :
              Cardinality(WholeNewer(weekly, p)) >= WeeklyRetention
<1> DEFINE Unique(set) == \A p, q \in set : p.id = q.id => p = q
           DailyKept ==
             \A p \in daily \ daily' :
               \/ \E q \in daily' : q.id = p.id /\ q.state = "damaged"
               \/ Cardinality(WholeNewer(daily, p)) >= DailyRetention
           WeeklyKept ==
             \A p \in weekly \ weekly' :
               Cardinality(WholeNewer(weekly, p)) >= WeeklyRetention
           DailyFits ==
             /\ IsFiniteSet(daily') /\ \A p \in daily' : IsPoint(p)
             /\ Unique(daily') /\ Covered(daily', DailyRetention)
           WeeklyFits ==
             /\ IsFiniteSet(weekly') /\ \A p \in weekly' : IsPoint(p)
             /\ Covered(weekly', WeeklyRetention)
<1>a. /\ IsFiniteSet(daily) /\ IsFiniteSet(weekly)
      /\ \A p \in daily \cup weekly : IsPoint(p)
      /\ Unique(daily)
      /\ Covered(daily, DailyRetention) /\ Covered(weekly, WeeklyRetention)
      /\ DailyRetention \in Nat \ {0} /\ WeeklyRetention \in Nat \ {0}
      /\ day \in 1..MaxDays
  BY RetentionAssumption DEF NInv, TypeControl
<1>b. daily' = daily => DailyFits /\ DailyKept
  BY <1>a
<1>c. weekly' = weekly => WeeklyFits /\ WeeklyKept
  BY <1>a
<1>1. DailyFits /\ DailyKept /\ WeeklyFits /\ WeeklyKept
  <2>1. CASE UNCHANGED <<daily, weekly>>
    BY <1>b, <1>c, <2>1
  <2>2. CASE Publish
    <3> DEFINE point == [id |-> day, files |-> temporary[pid], state |-> "sound"]
    <3>1. weekly' = weekly
      BY <2>2 DEF Publish
    <3>2. CASE \E p \in daily : p.id = day
      <4>1. daily' = daily
        BY <2>2, <3>2 DEF Publish
      <4> QED
        BY <1>b, <1>c, <3>1, <4>1
    <3>3. CASE ~\E p \in daily : p.id = day
      <4>1. daily' = daily \cup {point}
        BY <2>2, <3>3 DEF Publish
      <4>2. IsPoint(point) /\ point.id = day /\ point.state # "torn"
        BY <1>a DEF IsPoint
      <4> HIDE DEF point
      <4>3. IsFiniteSet(daily')
        BY <1>a, <4>1, FS_AddElement
      <4>4. Covered(daily', DailyRetention)
        BY <1>a, <4>1, <4>2, AddCovered
      <4>5. Unique(daily') /\ DailyKept /\ \A p \in daily' : IsPoint(p)
        BY <1>a, <3>3, <4>1, <4>2
      <4> QED
        BY <1>c, <3>1, <4>3, <4>4, <4>5
    <3> QED
      BY <3>2, <3>3
  <2>3. CASE Week
    <3>1. daily' = daily
      BY <2>3 DEF Week
    <3>2. CASE weekly' = weekly
      BY <1>b, <1>c, <3>1, <3>2
    <3>3. CASE weekly' # weekly
      <4>1. weekly' = weekly \cup {p \in daily : p.id = day}
        BY <2>3, <3>3 DEF Week
      <4>2. PICK p \in daily : p.id = day
        BY <3>3, <4>1
      <4>3. weekly' = weekly \cup {p}
        BY <1>a, <4>1, <4>2
      <4>4. p.state # "torn"
        <5> SUFFICES ASSUME p.state = "torn" PROVE FALSE
          OBVIOUS
        <5>1. Cardinality(WholeNewer(daily, p)) >= DailyRetention
          BY <1>a DEF Covered
        <5>2. \A q \in daily : q.id \in Int /\ q.id <= p.id
          BY <1>a, <4>2 DEF IsPoint
        <5>3. WholeNewer(daily, p) = {}
          BY <4>2, <5>2 DEF WholeNewer, Newer
        <5> QED
          BY <1>a, <5>1, <5>3, FS_EmptySet
      <4>5. IsFiniteSet(weekly')
        BY <1>a, <4>3, FS_AddElement
      <4>6. Covered(weekly', WeeklyRetention)
        BY <1>a, <4>3, <4>4, AddCovered
      <4>7. WeeklyKept /\ \A q \in weekly' : IsPoint(q)
        BY <1>a, <4>3
      <4> QED
        BY <1>b, <3>1, <4>5, <4>6, <4>7
    <3> QED
      BY <3>2, <3>3
  <2>4. CASE /\ RetainDaily /\ UNCHANGED weekly
             /\ \E p \in daily : daily' = Shrunk(daily, p)
    <3>1. CASE daily' = daily
      BY <1>b, <1>c, <2>4, <3>1
    <3>2. CASE daily' # daily
      <4>1. PICK p \in Excess(daily, DailyRetention) :
              /\ NewestFirst(p, Excess(daily, DailyRetention))
              /\ daily' = Shrunk(daily, p)
        BY <2>4, <3>2 DEF RetainDaily
      <4>2. /\ Cardinality(WholeNewer(daily, p)) >= DailyRetention
            /\ Covered(daily', DailyRetention) /\ IsFiniteSet(daily')
            /\ \A q \in daily' : IsPoint(q)
        BY <1>a, <4>1, ShrinkCovered
      <4> DEFINE emptied == [p EXCEPT !.state = "torn"]
      <4>3. p \in daily /\ emptied.id = p.id
        BY <1>a, <4>1, StateChanged DEF Excess
      <4>4. /\ daily' \subseteq (daily \ {p}) \cup {emptied}
            /\ daily \ daily' \subseteq {p}
        BY <4>1 DEF Shrunk
      <4> HIDE DEF emptied
      <4>5. Unique(daily')
        BY <1>a, <4>3, <4>4
      <4> QED
        BY <1>c, <2>4, <4>2, <4>4, <4>5
    <3> QED
      BY <3>1, <3>2
  <2>5. CASE /\ RetainWeekly /\ UNCHANGED daily
             /\ \E p \in weekly : weekly' = Shrunk(weekly, p)
    <3>1. CASE weekly' = weekly
      BY <1>b, <1>c, <2>5, <3>1
    <3>2. CASE weekly' # weekly
      <4>1. PICK p \in Excess(weekly, WeeklyRetention) :
              /\ NewestFirst(p, Excess(weekly, WeeklyRetention))
              /\ weekly' = Shrunk(weekly, p)
        BY <2>5, <3>2 DEF RetainWeekly
      <4>2. /\ Cardinality(WholeNewer(weekly, p)) >= WeeklyRetention
            /\ Covered(weekly', WeeklyRetention) /\ IsFiniteSet(weekly')
            /\ \A q \in weekly' : IsPoint(q)
        BY <1>a, <4>1, ShrinkCovered
      <4>3. weekly \ weekly' \subseteq {p}
        BY <4>1 DEF Shrunk
      <4> QED
        BY <1>b, <2>5, <4>2, <4>3
    <3> QED
      BY <3>1, <3>2
  <2>6. ASSUME NEW p \in daily, Damage(p)
        PROVE  DailyFits /\ DailyKept /\ WeeklyFits /\ WeeklyKept
    <3>1. weekly' = weekly
      BY <2>6 DEF Damage
    <3>2. DailyFits /\ DailyKept
      BY <1>a, <2>6, DamageCovered
    <3> QED
      BY <1>c, <3>1, <3>2
  <2> QED
    BY <2>1, <2>2, <2>3, <2>4, <2>5, <2>6, PointsSteps
<1>2. TypeControl'
  BY ControlStep DEF NInv
<1>3. \A p : IsPoint(p) => IsPoint(p)'
  <2>1. day' \in Int /\ day' >= day /\ day \in Int
    BY <1>a, DaySteps
  <2> QED
    BY <2>1 DEF IsPoint
<1>4. NInv'
  BY <1>1, <1>2, <1>3 DEF NInv, Covered, WholeNewer, Newer
<1> QED
  BY <1>1, <1>4

\* Retention keeps the newest points, whatever is interrupted, damaged or
\* published in between.
THEOREM NewestPointsKept == Spec => NewestKept
<1>1. Init => NInv
  <2> SUFFICES ASSUME Init PROVE NInv
    OBVIOUS
  <2>1. TypeControl
    BY DEF Init, TypeControl, Labels
  <2> QED
    BY <2>1, FS_EmptySet DEF Init, NInv, Covered
<1>2. NInv /\ [Next]_vars => NInv'
  BY NStep
<1>3. NInv /\ [Next]_vars =>
        [/\ \A p \in daily \ daily' :
              (\E q \in daily' : q.id = p.id /\ q.state = "damaged")
              \/ Cardinality({q \in Newer(daily, p) : q.state # "torn"}) >= DailyRetention
         /\ \A p \in weekly \ weekly' :
              Cardinality({q \in Newer(weekly, p) : q.state # "torn"}) >= WeeklyRetention
        ]_vars
  BY NStep DEF WholeNewer
<1> QED
  BY <1>1, <1>2, <1>3, PTL DEF Spec, NewestKept
=============================================================================
