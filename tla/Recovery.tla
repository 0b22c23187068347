------------------------------ MODULE Recovery ------------------------------
(***************************************************************************)
(* Backup and restore of DATA_DIRECTORY (recovery.rs) around the database  *)
(* they open (storage.rs): backup:create, backup:restore and the serving   *)
(* process take turns under the singleton lease. A power loss or a kill    *)
(* falls between any two file operations, and any of them may fail.        *)
(*                                                                         *)
(* A file is what it lets a reader reconstruct. The log of SQLite (wal)    *)
(* holds the commits from a base to a head and makes sense over that base  *)
(* only; the shm file beside it is derived from it and shares its fate.    *)
(* The five retired JSON sentinels are one file.                           *)
(*                                                                         *)
(* Each command names its directories by its process id, which the         *)
(* operating system chooses and a later command may get again; and nothing *)
(* keeps the service from starting after a restore that did not finish.    *)
(***************************************************************************)
EXTENDS Naturals, FiniteSets

CONSTANTS
  None,
  Mixed,            \* what a log yields over a database it does not extend
  Pids,             \* process ids
  MaxRuns,          \* bound: backup and restore commands
  MaxCommits, MaxDays, MaxCrashes, MaxFaults,   \* bounds
  Sundays,
  DailyRetention, WeeklyRetention

ASSUME BoundsAssumption ==
  /\ MaxRuns \in Nat /\ MaxCommits \in Nat /\ MaxDays \in Nat \ {0}
  /\ MaxCrashes \in Nat /\ MaxFaults \in Nat
ASSUME RetentionAssumption ==
  DailyRetention \in Nat \ {0} /\ WeeklyRetention \in Nat \ {0}
ASSUME NamesAssumption ==
  /\ None # Mixed /\ None \notin Nat /\ Mixed \notin Nat
  /\ None \notin Pids /\ Sundays \subseteq Nat

VARIABLES
  live,       \* the managed files of DATA_DIRECTORY
  temporary,  \* .snapshot-<pid>-0, None when there is none
  stage,      \* .restore-stage-<pid>-1
  rollback,   \* .restore-rollback-<pid>-2
  daily, weekly,  \* the published recovery points
  pc,
  pid,        \* of the command under way
  chosen,     \* the point that is restored
  next,       \* the target restore_snapshot has come to
  installed, moved,
  errors,     \* are there rollback_errors
  outcome,
  \* history
  before,     \* the files this restore found
  runs, day, commits, crashes, faults,
  acknowledged,  \* the version the last commit or restore left behind
  prior,      \* what restores found and has not been in place when one ended,
              \* since the last that succeeded
  intact,     \* has no restore left other files since then
  torn,       \* has one left another database beside a log since then
  reused      \* the directories some restore found left by an earlier one

directories == <<live, temporary, stage, rollback>>
points   == <<daily, weekly>>
command  == <<pc, pid, chosen>>
attempt  == <<next, installed, moved, errors, outcome, before>>
budget   == <<runs, day, commits, crashes, faults>>
history  == <<acknowledged, prior, intact, torn, reused>>
vars == <<directories, points, command, attempt, budget, history>>

-----------------------------------------------------------------------------
(* Files *)

Files == {"sentinel", "db", "wal", "cookie"}

\* mutant: the log is not among the targets
TargetsWithoutLog == <<"sentinel", "db", "cookie", "cookie">>

\* the order of restore_snapshot's targets
Targets == <<"sentinel", "db", "wal", "cookie">>

Versions == 0..MaxCommits \cup {Mixed}
Log(base, head) == [base |-> base, head |-> head]
Page(version) == Log(version, version)
Logs == [base : Versions, head : Versions]
Contents == Logs \cup {None}
Directories == [Files -> Contents]
Nothing == [f \in Files |-> None]

\* what SQLite reads
Effective(files) ==
  IF files["wal"] = None THEN files["db"].head
  ELSE IF files["wal"].base = files["db"].head THEN files["wal"].head
  ELSE Mixed

\* mutant: the log is removed without being written back
LogDropped(files) == [files EXCEPT !["wal"] = None]

\* the last connection to close leaves a database and no log
Checkpointed(files) ==
  [files EXCEPT !["db"] = Page(Effective(files)), !["wal"] = None]

\* what create_snapshot copies: neither the log nor the cookie
Archive(files) == [Checkpointed(files) EXCEPT !["cookie"] = None]

\* the files there are
Found(files) == {[file |-> f, content |-> files[f]] : f \in {g \in Files : files[g] # None}}

PointStates == {"sound", "damaged", "torn"}
Points == [id : 1..MaxDays, files : Directories, state : PointStates]
ASSUME NoneAssumption == None \notin Logs \cup Directories \cup Points

Labels == {"idle", "serving",
           "source", "copy", "publish", "week", "retainDaily", "retainWeekly",
           "discard",
           "validate", "stage", "aside", "install", "check", "sync", "undo",
           "removeStage", "removeRollback"}

TypeOK ==
  /\ live \in Directories
  /\ temporary \in [Pids -> Directories \cup {None}]
  /\ stage \in [Pids -> Directories] /\ rollback \in [Pids -> Directories]
  /\ daily \in SUBSET Points /\ weekly \in SUBSET Points
  /\ pc \in Labels /\ pid \in Pids \cup {None} /\ chosen \in Points \cup {None}
  /\ next \in 1..4 /\ installed \in SUBSET (1..4) /\ moved \in SUBSET (1..4)
  /\ errors \in BOOLEAN /\ outcome \in {"none", "ok", "failed"}
  /\ before \in Directories
  /\ runs \in 0..MaxRuns /\ day \in 1..MaxDays /\ commits \in 0..MaxCommits
  /\ crashes \in 0..MaxCrashes /\ faults \in 0..MaxFaults
  /\ acknowledged \in Versions
  /\ prior \subseteq [file : Files, content : Logs]
  /\ intact \in BOOLEAN /\ torn \in BOOLEAN
  /\ reused \subseteq {"stage", "rollback"}
  /\ pc \notin {"idle", "serving"} => pid # None
  /\ pc \in {"serving", "copy"} => live["db"] # None

Init ==
  /\ live = [Nothing EXCEPT !["sentinel"] = Page(0), !["db"] = Page(0)]
  /\ temporary = [p \in Pids |-> None]
  /\ stage = [p \in Pids |-> Nothing] /\ rollback = [p \in Pids |-> Nothing]
  /\ daily = {} /\ weekly = {}
  /\ pc = "idle" /\ pid = None /\ chosen = None
  /\ next = 1 /\ installed = {} /\ moved = {} /\ errors = FALSE
  /\ outcome = "none" /\ before = Nothing
  /\ runs = 0 /\ day = 1 /\ commits = 0 /\ crashes = 0 /\ faults = 0
  /\ acknowledged = 0 /\ prior = {} /\ intact = TRUE /\ torn = FALSE
  /\ reused = {}

Goto(label) == pc' = label /\ UNCHANGED <<pid, chosen>>

Fault ==
  /\ faults < MaxFaults /\ faults' = faults + 1
  /\ UNCHANGED <<runs, day, commits, crashes>>

\* a process gets an id
Begin(label) ==
  /\ pc = "idle" /\ runs < MaxRuns /\ runs' = runs + 1
  /\ UNCHANGED <<day, commits, crashes, faults>>
  /\ pc' = label /\ pid' \in Pids

Fresh(files) ==
  /\ next' = 1 /\ installed' = {} /\ moved' = {} /\ errors' = FALSE
  /\ outcome' = "none" /\ before' = files

\* and its memory goes with it
End == pc' = "idle" /\ pid' = None /\ chosen' = None /\ Fresh(Nothing)

\* what a restore leaves behind
Settle ==
  /\ prior' = {o \in prior : live[o.file] # o.content}
  /\ intact' = (intact /\ (outcome = "ok" \/ live = before))
  /\ torn' = (torn \/ (live["wal"] # None /\ live["db"] \notin {None, before["db"]}))
  /\ UNCHANGED <<acknowledged, reused>>

-----------------------------------------------------------------------------
(* The service *)

\* Database::open refuses a directory without the database
Start ==
  /\ pc = "idle" /\ live["db"] # None
  /\ Goto("serving")
  /\ UNCHANGED <<directories, points, attempt, budget, history>>

Commit ==
  /\ pc = "serving" /\ commits < MaxCommits
  /\ commits' = commits + 1
  /\ live' = [live EXCEPT
       !["wal"] = Log(IF @ = None THEN live["db"].head ELSE @.base, commits + 1)]
  /\ acknowledged' = commits + 1
  /\ UNCHANGED <<temporary, stage, rollback, points, command, attempt, runs, day,
                 crashes, faults, prior, intact, torn, reused>>

\* the transport replaces the cookie file
SaveCookies ==
  /\ pc = "serving" /\ live["cookie"] = None
  /\ live' = [live EXCEPT !["cookie"] = Page(0)]
  /\ UNCHANGED <<temporary, stage, rollback, points, command, attempt, budget,
                 history>>

Stop ==
  /\ pc = "serving"
  /\ live' = Checkpointed(live)
  /\ End
  /\ UNCHANGED <<temporary, stage, rollback, points, budget, history>>

-----------------------------------------------------------------------------
(* create_snapshot *)

Create ==
  /\ Begin("source")
  /\ UNCHANGED <<directories, points, chosen, attempt, history>>

\* summary(source_root)
Source ==
  /\ pc = "source"
  /\ IF live["db"] = None
     THEN UNCHANGED live /\ Goto("discard")
     ELSE live' = Checkpointed(live) /\ Goto("copy")
  /\ UNCHANGED <<temporary, stage, rollback, points, attempt, budget, history>>

\* sentinels, the online backup, and the comparison of the two summaries; a
\* file left in a directory of that name makes create_new fail
Copy ==
  /\ pc = "copy"
  /\ IF temporary[pid] # None
     THEN UNCHANGED temporary /\ Goto("discard")
     ELSE /\ temporary' = [temporary EXCEPT ![pid] = Archive(live)]
          /\ Goto("publish")
  /\ UNCHANGED <<live, stage, rollback, points, attempt, budget, history>>

Publish ==
  /\ pc = "publish"
  /\ IF \E p \in daily : p.id = day
     THEN UNCHANGED <<daily, temporary>> /\ Goto("discard")
     ELSE /\ daily' = daily \cup
               {[id |-> day, files |-> temporary[pid], state |-> "sound"]}
          /\ temporary' = [temporary EXCEPT ![pid] = None]
          /\ Goto("week")
  /\ UNCHANGED <<live, stage, rollback, weekly, attempt, budget, history>>

Week ==
  /\ pc = "week"
  /\ weekly' = IF day \in Sundays THEN weekly \cup {p \in daily : p.id = day}
                                  ELSE weekly
  /\ Goto("retainDaily")
  /\ UNCHANGED <<directories, daily, attempt, budget, history>>

Newer(set, p) == {q \in set : q.id > p.id}

\* mutant: the sort is not reversed
ExcessOldest(set, count) == {p \in set : Cardinality({q \in set : q.id < p.id}) >= count}

\* sorted, reversed, skip(count)
Excess(set, count) == {p \in set : Cardinality(Newer(set, p)) >= count}

\* the directory of one point is emptied, then removed
Shrunk(set, p) ==
  IF p.state = "torn" THEN set \ {p}
  ELSE (set \ {p}) \cup {[p EXCEPT !.state = "torn"]}

NewestFirst(p, set) == \A q \in set : q.id <= p.id

RetainDaily ==
  /\ pc = "retainDaily"
  /\ LET excess == Excess(daily, DailyRetention) IN
       IF excess = {} THEN UNCHANGED daily /\ Goto("retainWeekly")
       ELSE /\ \E p \in excess : NewestFirst(p, excess) /\ daily' = Shrunk(daily, p)
            /\ UNCHANGED command
  /\ UNCHANGED <<directories, weekly, attempt, budget, history>>

RetainWeekly ==
  /\ pc = "retainWeekly"
  /\ LET excess == Excess(weekly, WeeklyRetention) IN
       IF excess = {} THEN UNCHANGED weekly /\ Goto("discard")
       ELSE /\ \E p \in excess : NewestFirst(p, excess) /\ weekly' = Shrunk(weekly, p)
            /\ UNCHANGED command
  /\ UNCHANGED <<directories, daily, attempt, budget, history>>

\* any of them fails; what was copied so far is there to be removed
CreateFails ==
  /\ pc \in {"source", "copy", "publish", "week", "retainDaily", "retainWeekly"}
  /\ Fault
  /\ temporary' = IF pc = "copy" THEN [temporary EXCEPT ![pid] = Nothing]
                                 ELSE temporary
  /\ Goto("discard")
  /\ UNCHANGED <<live, stage, rollback, points, attempt, history>>

\* the removal's own failure is ignored
Discard ==
  /\ pc = "discard"
  /\ temporary' = [temporary EXCEPT ![pid] = None]
  /\ End
  /\ UNCHANGED <<live, stage, rollback, points, budget, history>>

-----------------------------------------------------------------------------
(* restore_snapshot *)

Restore(p) ==
  /\ Begin("validate") /\ chosen' = p /\ Fresh(live)
  /\ reused' = reused \cup {d \in {"stage"} : stage[pid'] # Nothing}
                      \cup {d \in {"rollback"} : rollback[pid'] # Nothing}
  /\ UNCHANGED <<directories, points, acknowledged, prior, intact, torn>>

\* validate_snapshot: the hashes of the manifest, then the summary of a copy
\* that is removed again
Validate ==
  /\ pc = "validate"
  /\ IF chosen.state = "sound"
     THEN Goto("stage") /\ UNCHANGED <<attempt, history>>
     ELSE End /\ Settle
  /\ UNCHANGED <<directories, points, budget>>

ValidateFails ==
  /\ pc = "validate" /\ Fault
  /\ End /\ Settle
  /\ UNCHANGED <<directories, points>>

Fail == outcome' = "failed" /\ Goto("undo")

Wanted == {f \in Files : chosen.files[f] # None}
Held   == {f \in Files : stage[pid][f] # None}

\* clone_tree adds these files to whatever the stage holds
Clone(files) ==
  stage' = [stage EXCEPT ![pid] =
              [f \in Files |-> IF f \in files THEN chosen.files[f] ELSE @[f]]]

\* clone_tree, summary(stage) and mkdir(rollback).  From here on the files found
\* are owed.
Stage ==
  /\ pc = "stage" /\ Wanted \cap Held = {}
  /\ Clone(Wanted)
  /\ prior' = prior \cup Found(live)
  /\ Goto("aside")
  /\ UNCHANGED <<live, temporary, rollback, points, attempt, budget, acknowledged,
                 intact, torn, reused>>

\* clone_tree creates every file anew, and stops where it cannot
StageFails ==
  /\ pc = "stage"
  /\ IF Wanted \cap Held = {} THEN Fault ELSE UNCHANGED budget
  /\ \E files \in SUBSET (Wanted \ Held) : Clone(files)
  /\ Fail
  /\ UNCHANGED <<live, temporary, rollback, points, next, installed, moved,
                 errors, before, history>>

Target == Targets[next]

\* the live file is renamed into the rollback directory, over whatever is there
Aside ==
  /\ pc = "aside"
  /\ IF live[Target] = None THEN UNCHANGED <<live, rollback, moved>>
     ELSE /\ rollback' = [rollback EXCEPT ![pid][Target] = live[Target]]
          /\ live' = [live EXCEPT ![Target] = None]
          /\ moved' = moved \cup {next}
  /\ Goto("install")
  /\ UNCHANGED <<temporary, stage, points, next, installed, errors, outcome,
                 before, budget, history>>

\* mutant: the loop goes on past the last target
InstallOnwards ==
  /\ pc = "install"
  /\ next' = next + 1 /\ Goto("aside")
  /\ UNCHANGED <<directories, points, installed, moved, errors, outcome, before,
                 budget, history>>

Install ==
  /\ pc = "install"
  /\ IF stage[pid][Target] = None THEN UNCHANGED <<live, stage, installed>>
     ELSE /\ live' = [live EXCEPT ![Target] = stage[pid][Target]]
          /\ stage' = [stage EXCEPT ![pid][Target] = None]
          /\ installed' = installed \cup {next}
  /\ IF next = 4 THEN UNCHANGED next /\ Goto("check")
                 ELSE next' = next + 1 /\ Goto("aside")
  /\ UNCHANGED <<temporary, rollback, points, moved, errors, outcome, before, budget,
                 history>>

\* summary(data) against the validated one
Check ==
  /\ pc = "check"
  /\ live' = Checkpointed(live)
  /\ IF Effective(live) = Effective(chosen.files)
     THEN Goto("sync") /\ UNCHANGED outcome
     ELSE Fail
  /\ UNCHANGED <<temporary, stage, rollback, points, next, installed, moved,
                 errors, before, budget, history>>

Sync ==
  /\ pc = "sync"
  /\ outcome' = "ok" /\ Goto("removeStage")
  /\ acknowledged' = Effective(live)
  /\ prior' = {} /\ intact' = TRUE /\ torn' = FALSE
  /\ UNCHANGED <<directories, points, next, installed, moved, errors, before,
                 budget, reused>>

InstallFails ==
  /\ pc \in {"aside", "install", "check", "sync"} /\ Fault
  /\ Fail
  /\ UNCHANGED <<directories, points, next, installed, moved, errors, before,
                 history>>

Last(set) == CHOOSE i \in set : \A j \in set : j <= i

\* the installed files are removed, the last one first
Uninstall ==
  /\ pc = "undo" /\ installed # {}
  /\ live' = [live EXCEPT ![Targets[Last(installed)]] = None]
  /\ installed' = installed \ {Last(installed)}
  /\ UNCHANGED <<temporary, stage, rollback, points, command, next, moved, errors,
                 outcome, before, budget, history>>

\* then the files moved aside come back, the last one first
MoveBack ==
  /\ pc = "undo" /\ installed = {} /\ moved # {}
  /\ LET target == Targets[Last(moved)] IN
       /\ live' = [live EXCEPT ![target] = rollback[pid][target]]
       /\ rollback' = [rollback EXCEPT ![pid][target] = None]
  /\ moved' = moved \ {Last(moved)}
  /\ UNCHANGED <<temporary, stage, points, command, next, installed, errors,
                 outcome, before, budget, history>>

\* a step of the rollback fails, and the rollback goes on
UndoFails ==
  /\ pc = "undo" /\ installed \cup moved # {} /\ Fault
  /\ errors' = TRUE
  /\ IF installed # {}
     THEN installed' = installed \ {Last(installed)} /\ UNCHANGED moved
     ELSE moved' = moved \ {Last(moved)} /\ UNCHANGED installed
  /\ UNCHANGED <<directories, points, command, next, outcome, before, history>>

\* mutant: what was moved aside stays there
UndoneEarly ==
  /\ pc = "undo" /\ installed = {}
  /\ Goto("removeStage")
  /\ UNCHANGED <<directories, points, attempt, budget, history>>

Undone ==
  /\ pc = "undo" /\ installed = {} /\ moved = {}
  /\ Goto("removeStage")
  /\ UNCHANGED <<directories, points, attempt, budget, history>>

\* a failed removal is ignored
RemoveStage ==
  /\ pc = "removeStage"
  /\ stage' = [stage EXCEPT ![pid] = Nothing]
  /\ Goto("removeRollback")
  /\ UNCHANGED <<live, temporary, rollback, points, attempt, budget, history>>

\* mutant: the rollback directory goes in any case
RemoveRollbackAlways ==
  /\ pc = "removeRollback"
  /\ rollback' = [rollback EXCEPT ![pid] = Nothing]
  /\ End /\ Settle
  /\ UNCHANGED <<live, temporary, stage, points, budget>>

RemoveRollback ==
  /\ pc = "removeRollback"
  /\ rollback' = IF errors THEN rollback
                           ELSE [rollback EXCEPT ![pid] = Nothing]
  /\ End /\ Settle
  /\ UNCHANGED <<live, temporary, stage, points, budget>>

\* remove_dir_all fails and its error is dropped
RemovalFails ==
  /\ Fault
  /\ \/ pc = "removeStage" /\ Goto("removeRollback") /\ UNCHANGED <<attempt, history>>
     \/ pc = "removeRollback" /\ End /\ Settle
     \/ pc = "discard" /\ End /\ UNCHANGED history
  /\ UNCHANGED <<directories, points>>

-----------------------------------------------------------------------------

\* a kill or a power loss, also half way through a copy; nothing is repaired at
\* the next start
Crash ==
  /\ pc # "idle" /\ crashes < MaxCrashes
  /\ crashes' = crashes + 1
  /\ \/ UNCHANGED temporary
     \/ pc = "copy" /\ temporary' = [temporary EXCEPT ![pid] = Nothing]
  /\ \/ UNCHANGED stage
     \/ pc = "stage" /\ \E files \in SUBSET (Wanted \ Held) : Clone(files)
  /\ End
  /\ IF chosen = None THEN UNCHANGED history ELSE Settle
  /\ UNCHANGED <<live, rollback, points, runs, day, commits, faults>>

Tick ==
  /\ day < MaxDays /\ pc \in {"idle", "serving"}
  /\ day' = day + 1
  /\ UNCHANGED <<directories, points, command, attempt, runs, commits, crashes,
                 faults, history>>

\* bit rot, or the sidecars an audit left in a recovery point
Damage(p) ==
  /\ pc = "idle" /\ p.state = "sound" /\ Fault
  /\ daily' = {IF q = p THEN [q EXCEPT !.state = "damaged"] ELSE q : q \in daily}
  /\ UNCHANGED <<directories, weekly, command, attempt, history>>

Backup ==
  \/ Create \/ Source \/ Copy \/ Publish \/ Week \/ RetainDaily \/ RetainWeekly
  \/ CreateFails \/ Discard

Restoration ==
  \/ \E p \in daily \cup weekly : Restore(p)
  \/ Validate \/ ValidateFails \/ Stage \/ StageFails \/ Aside \/ Install
  \/ Check \/ Sync \/ InstallFails \/ Uninstall \/ MoveBack \/ UndoFails
  \/ Undone \/ RemoveStage \/ RemoveRollback \/ RemovalFails

Next ==
  \/ Start \/ Commit \/ SaveCookies \/ Stop
  \/ Backup \/ Restoration
  \/ Crash \/ Tick \/ \E p \in daily : Damage(p)

Spec == Init /\ [][Next]_vars

-----------------------------------------------------------------------------
\* Until a restore has been validated in place, every file that one before it
\* found is still in the data directory or in one of the rollback directories,
\* whichever step failed or was cut short.
PriorKept ==
  \A o \in prior :
    o.content \in {live[o.file]} \cup {rollback[p][o.file] : p \in Pids}

\* So it is as long as no restore was given the rollback directory of another.
PriorKeptApart == "rollback" \notin reused => PriorKept

\* A restore does all or nothing. One that succeeds leaves the files of a sound
\* snapshot, unless it found files in its stage, and in any case no log to be
\* replayed over the restored database and no session cookie. One that reports a
\* failure and no rollback error has put everything back as it found it.
AllOrNothing ==
  pc = "removeStage" =>
    /\ outcome = "ok" => /\ chosen.state = "sound"
                         /\ \A f \in Files :
                              \/ live[f] = chosen.files[f]
                              \/ f = "sentinel" /\ "stage" \in reused
    /\ outcome = "failed" /\ ~errors => live = before

\* Whoever opens the database, the service, a backup or the restore's own
\* check, finds it with its own log or with none, unless a restore stopped with
\* a new database in place and the old log beside it.
OwnLog ==
  /\ pc \in {"serving", "source", "check"}
  /\ live["db"] # None /\ live["wal"] # None
  /\ ~torn
  => live["wal"].base = live["db"].head

\* A recovery point published now holds the last acknowledged commit, also one
\* that a killed service left in its log, unless a restore stopped half way.
BackupIsCurrent ==
  [][\A p \in daily' : p.id \notin {q.id : q \in daily} /\ intact
       => Effective(p.files) = acknowledged]_vars

\* Retention never touches one of the newest points: each one it empties or
\* removes has as many newer ones, and none of those has been emptied.
NewestKept ==
  [][/\ \A p \in daily \ daily' :
          (\E q \in daily' : q.id = p.id /\ q.state = "damaged")
          \/ Cardinality({q \in Newer(daily, p) : q.state # "torn"}) >= DailyRetention
     /\ \A p \in weekly \ weekly' :
          Cardinality({q \in Newer(weekly, p) : q.state # "torn"}) >= WeeklyRetention
    ]_vars
=============================================================================
