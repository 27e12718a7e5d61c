------------------------------- MODULE RunStore -------------------------------
(***************************************************************************)
(* The durable state of evaluation runs: one row per run in the SQLite     *)
(* database and one results.json in the run's directory, which save_run    *)
(* (metrics.py) replaces together.  Every run is saved by its own process, *)
(* several times at most, one save after the other; the processes meet at  *)
(* the database's write lock.  Each step can fail with an exception, a     *)
(* process can be killed, and the host can lose power, which undoes        *)
(* directory updates made since the directory was last synchronised.       *)
(*                                                                         *)
(* The content of a record is its version: the number of the save.        *)
(* Version 0 is no record, and Blank is an empty file, which is none.      *)
(* SQLite itself is external: a transaction is atomic, durable once        *)
(* committed, and rolled back when its process dies.                       *)
(* An empty file that is left under a name nothing leads to is left out.   *)
(***************************************************************************)
EXTENDS Integers, FiniteSets

CONSTANTS Runs,        \* runs, each with the process that saves it
          MaxSaves,    \* bound: saves of one run
          NoRun        \* the database's write lock is free

ASSUME MaxSavesAssumption   == MaxSaves \in Nat
ASSUME NoRunAssumption      == NoRun \notin Runs

VARIABLES row,        \* committed row of each run in the runs table
          dir,        \* directory of each run: results.json and its backups
          possible,   \* the directory states a power loss could leave
          lock,       \* the run whose process is inside BEGIN IMMEDIATE
          pc,         \* where each process is in save_run
          target,     \* the version it is saving, or saved last
          backup,     \* content of the file save_run's `backup' names, 0 for none
          published,  \* save_run's `published'
          mishaps     \* history: what went wrong for good since the last commit

vars == <<row, dir, possible, lock, pc, target, backup, published, mishaps>>

Versions == 0 .. MaxSaves
Blank    == -1
Contents == Versions \cup {Blank}
Dir      == [results : Contents, backups : SUBSET (Contents \ {0})]

Mishaps == {"unrestored",  \* putting the old file back has failed
            "interrupted", \* an exception arrived right after COMMIT
            "emptied",     \* one arrived while `backup' named an empty file
            "unnoted"}     \* one arrived before `published' told of a first file

TypeOK ==
  /\ row \in [Runs -> Versions]
  /\ dir \in [Runs -> Dir]
  /\ possible \in [Runs -> SUBSET Dir]
  /\ lock \in Runs \cup {NoRun}
  /\ pc \in [Runs -> {"idle", "staged", "begun", "named", "cleared", "moved",
                      "replaced", "published", "synced", "committed",
                      "failing", "restored", "dead"}]
  /\ target \in [Runs -> Versions]
  /\ backup \in [Runs -> Contents]
  /\ published \in [Runs -> BOOLEAN]
  /\ mishaps \in [Runs -> SUBSET Mishaps]

Empty == [results |-> 0, backups |-> {}]

Init ==
  /\ row = [r \in Runs |-> 0]
  /\ dir = [r \in Runs |-> Empty]
  /\ possible = [r \in Runs |-> {Empty}]
  /\ lock = NoRun
  /\ pc = [r \in Runs |-> "idle"]
  /\ target = [r \in Runs |-> 0]
  /\ backup = [r \in Runs |-> 0]
  /\ published = [r \in Runs |-> FALSE]
  /\ mishaps = [r \in Runs |-> {}]

Goto(r, label) == pc' = [pc EXCEPT ![r] = label]

\* A directory update is visible at once and durable only after the next
\* synchronisation; until then power loss may find the state before or after.
UpdateDir(r, new) ==
  /\ dir' = [dir EXCEPT ![r] = new]
  /\ possible' = [possible EXCEPT ![r] = @ \cup {new}]
SyncDir(r) == possible' = [possible EXCEPT ![r] = {dir[r]}]

\* Leaving the transaction, by commit or rollback, frees the write lock.
Unlock(r) == lock' = IF lock = r THEN NoRun ELSE lock

-----------------------------------------------------------------------------
(* save_run *)

\* Validation, size limits, the private directory and the staged copy.  All
\* of it happens before anything a reader looks at is touched.
Stage(r) ==
  /\ pc[r] = "idle" /\ target[r] < MaxSaves
  /\ target' = [target EXCEPT ![r] = @ + 1]
  /\ backup' = [backup EXCEPT ![r] = 0]
  /\ published' = [published EXCEPT ![r] = FALSE]
  /\ pc' \in {[pc EXCEPT ![r] = "staged"], pc}
  /\ UNCHANGED <<row, dir, possible, lock, mishaps>>

\* BEGIN IMMEDIATE and the rows of the record, inside the transaction.
Begin(r) ==
  /\ pc[r] = "staged" /\ lock = NoRun
  /\ lock' = r
  /\ Goto(r, "begun")
  /\ UNCHANGED <<row, dir, possible, target, backup, published, mishaps>>

\* A name for the backup is taken by creating an empty file under it.
Reserve(r) ==
  /\ pc[r] = "begun" /\ dir[r].results # 0
  /\ backup' = [backup EXCEPT ![r] = Blank]
  /\ Goto(r, "named")
  /\ UNCHANGED <<row, dir, possible, lock, target, published, mishaps>>

\* The empty file goes again, and `backup' names no file.
Clear(r) ==
  /\ pc[r] = "named"
  /\ backup' = [backup EXCEPT ![r] = 0]
  /\ Goto(r, "cleared")
  /\ UNCHANGED <<row, dir, possible, lock, target, published, mishaps>>

\* Mutant: the old file is deleted, not kept as a backup.
MoveAwayDeletes(r) ==
  /\ pc[r] = "cleared" /\ dir[r].results # 0
  /\ UpdateDir(r, [dir[r] EXCEPT !.results = 0])
  /\ Goto(r, "moved")
  /\ UNCHANGED <<row, lock, target, backup, published, mishaps>>

\* os.replace(results, backup)
MoveAway(r) ==
  /\ pc[r] = "cleared" /\ dir[r].results # 0
  /\ UpdateDir(r, [results |-> 0, backups |-> dir[r].backups \cup {dir[r].results}])
  /\ backup' = [backup EXCEPT ![r] = dir[r].results]
  /\ Goto(r, "moved")
  /\ UNCHANGED <<row, lock, target, published, mishaps>>

\* os.replace(staged, results)
Replace(r) ==
  /\ pc[r] = "moved" \/ (pc[r] = "begun" /\ dir[r].results = 0)
  /\ UpdateDir(r, [dir[r] EXCEPT !.results = target[r]])
  /\ Goto(r, "replaced")
  /\ UNCHANGED <<row, lock, target, backup, published, mishaps>>

\* published = True, a statement of its own
Publish(r) ==
  /\ pc[r] = "replaced"
  /\ published' = [published EXCEPT ![r] = TRUE]
  /\ Goto(r, "published")
  /\ UNCHANGED <<row, dir, possible, lock, target, backup, mishaps>>

\* Mutant: the directory is not synchronised before the commit.
SyncPublishedSkipped(r) ==
  /\ pc[r] = "published"
  /\ Goto(r, "synced")
  /\ UNCHANGED <<row, dir, possible, lock, target, backup, published, mishaps>>

SyncPublished(r) ==
  /\ pc[r] = "published"
  /\ SyncDir(r)
  /\ Goto(r, "synced")
  /\ UNCHANGED <<row, dir, lock, target, backup, published, mishaps>>

Commit(r) ==
  /\ pc[r] = "synced"
  /\ row' = [row EXCEPT ![r] = target[r]]
  /\ mishaps' = [mishaps EXCEPT ![r] = {}]
  /\ Unlock(r)
  /\ Goto(r, "committed")
  /\ UNCHANGED <<dir, possible, target, backup, published>>

\* The backup goes; if that fails it stays behind and the save still succeeds.
\* Securing the database files afterwards may raise, with everything saved.
Finish(r) ==
  /\ pc[r] = "committed"
  /\ \/ backup[r] # 0 /\ UpdateDir(r, [dir[r] EXCEPT !.backups = @ \ {backup[r]}])
     \/ UNCHANGED <<dir, possible>>
  /\ Goto(r, "idle")
  /\ UNCHANGED <<row, lock, target, backup, published, mishaps>>

-----------------------------------------------------------------------------
(* Exceptions *)

Uncommitted == {"staged", "begun", "named", "cleared", "moved", "replaced",
                "published", "synced"}

\* What the handler cannot put right any more, by where the exception arrives:
\* it takes an empty file for the backup, and a first file for an older one.
Mishap(r) ==
  CASE pc[r] = "named"                      -> {"emptied"}
    [] pc[r] = "replaced" /\ backup[r] = 0  -> {"unnoted"}
    [] OTHER                                -> {}

\* Mutant: no rollback; the open transaction keeps the write lock.
RaiseKeepsLock(r) ==
  /\ pc[r] \in Uncommitted
  /\ mishaps' = [mishaps EXCEPT ![r] = @ \cup Mishap(r)]
  /\ Goto(r, "failing")
  /\ UNCHANGED <<row, dir, possible, lock, target, backup, published>>

\* Any statement before the commit can raise: the connection cannot be opened,
\* the lock times out, an unlink, a rename, a synchronisation or the commit
\* fails, a signal handler raises between two of them.  The transaction is
\* rolled back, and the connection closed, before the handler looks at the
\* files.
Raise(r) ==
  /\ pc[r] \in Uncommitted
  /\ mishaps' = [mishaps EXCEPT ![r] = @ \cup Mishap(r)]
  /\ Unlock(r)
  /\ Goto(r, "failing")
  /\ UNCHANGED <<row, dir, possible, target, backup, published>>

\* A signal handler raises after COMMIT, before `committed = True'.
Interrupt(r) ==
  /\ pc[r] = "committed"
  /\ mishaps' = [mishaps EXCEPT ![r] = @ \cup {"interrupted"}]
  /\ Goto(r, "failing")
  /\ UNCHANGED <<row, dir, possible, lock, target, backup, published>>

\* Mutant: asks about `published' before it asks about the backup.
UndonePublishedFirst(r) ==
  IF published[r] THEN [dir[r] EXCEPT !.results = 0]
  ELSE IF backup[r] # 0
  THEN [results |-> backup[r], backups |-> dir[r].backups \ {backup[r]}]
  ELSE dir[r]

\* The handler's choice: the backup back if there is one, else no file.
Undone(r) ==
  IF backup[r] # 0
  THEN [results |-> backup[r], backups |-> dir[r].backups \ {backup[r]}]
  ELSE IF published[r] THEN [dir[r] EXCEPT !.results = 0] ELSE dir[r]

Restore(r) ==
  /\ pc[r] = "failing"
  /\ UpdateDir(r, Undone(r))
  /\ Goto(r, "restored")
  /\ UNCHANGED <<row, lock, target, backup, published, mishaps>>

RestoreFails(r) ==
  /\ pc[r] = "failing" /\ Undone(r) # dir[r]
  /\ mishaps' = [mishaps EXCEPT ![r] = @ \cup {"unrestored"}]
  /\ Goto(r, "idle")
  /\ UNCHANGED <<row, dir, possible, lock, target, backup, published>>

\* The directory is synchronised, or that raises too; save_run raises anyway.
Reraise(r) ==
  /\ pc[r] = "restored"
  /\ SyncDir(r) \/ UNCHANGED possible
  /\ Goto(r, "idle")
  /\ UNCHANGED <<row, dir, lock, target, backup, published, mishaps>>

-----------------------------------------------------------------------------
(* Faults of the process and the host *)

Kill(r) ==
  /\ pc[r] # "dead"
  /\ Unlock(r)
  /\ Goto(r, "dead")
  /\ UNCHANGED <<row, dir, possible, target, backup, published, mishaps>>

PowerLoss ==
  /\ \E r \in Runs : pc[r] # "dead" \/ possible[r] # {dir[r]}
  /\ lock' = NoRun
  /\ pc' = [r \in Runs |-> "dead"]
  /\ dir' \in {d \in [Runs -> UNION {possible[r] : r \in Runs}] :
                 \A r \in Runs : d[r] \in possible[r]}
  /\ possible' = [r \in Runs |-> {dir'[r]}]
  /\ UNCHANGED <<row, target, backup, published, mishaps>>

Step(r) ==
  \/ Begin(r) \/ Reserve(r) \/ Clear(r) \/ MoveAway(r) \/ Replace(r) \/ Publish(r)
  \/ SyncPublished(r) \/ Commit(r) \/ Finish(r)
  \/ Raise(r) \/ Interrupt(r) \/ Restore(r) \/ RestoreFails(r) \/ Reraise(r)

Next == PowerLoss \/ \E r \in Runs : Stage(r) \/ Step(r) \/ Kill(r)

\* A process inside save_run keeps running; it waits for the write lock no
\* longer than the busy timeout.
Spec == Init /\ [][Next]_vars /\ \A r \in Runs : WF_vars(Step(r))

-----------------------------------------------------------------------------
(* Properties *)

Holds(d, v) == v = d.results \/ v \in d.backups

\* Whatever fails, dies or loses power in the middle of replacing a record,
\* the record its row names is still in the run's directory, under its own
\* name or as a backup.  Two exceptions lose it: one right after COMMIT, and
\* one that arrives while `backup' names the empty file of its reservation.
RecordSurvives ==
  \A r \in Runs :
    row[r] # 0 /\ mishaps[r] \cap {"interrupted", "emptied"} = {}
      => \A d \in possible[r] : Holds(d, row[r])

\* Between saves, returned or raised, results.json is the record of the row,
\* unless one of the four mishaps happened since the last commit.
FileMatchesRow ==
  \A r \in Runs : pc[r] = "idle" /\ mishaps[r] = {} => dir[r].results = row[r]

\* The row moves only to a record that results.json durably holds.
RowFollowsFile ==
  [][\A r \in Runs : row'[r] # row[r] =>
       \A d \in possible[r] : d.results = row'[r]]_vars

\* However a save ends, it gives the database's write lock back to the others.
LockFreed == \A r \in Runs : lock = r ~> lock # r

\* "The committed database and canonical results file agree" (metrics.py:1127),
\* for every save that got past the commit and is not undone by a failing disk.
CommittedFileAgrees ==
  \A r \in Runs : pc[r] = "idle" /\ row[r] = target[r] /\ "unrestored" \notin mishaps[r]
                    => dir[r].results = row[r]
===============================================================================
